----------------------------- MODULE MCFileWork -----------------------------
(* FileWork with the Expectations of every handler and kind of target.     *)
EXTENDS FileWork

E(handler, store, temporary, delay) ==
  [handler |-> handler, store |-> store, temporary |-> temporary, delay |-> delay]

\* Every handler, every kind of target and both settings are there; not every handler on
\* every target with every setting.
MC_Expectations ==
  {E("FileCopyUsingRobocopy", "localFolder", TRUE, FALSE),
   E("FileCopyUsingRobocopy", "fileShare", FALSE, TRUE),
   E("FileCopyUsingFileflow", "fileShare", FALSE, FALSE),
   E("FileCopyUsingStreams", "localFolder", TRUE, TRUE),
   E("FileCopyUsingStreams", "fileShare", FALSE, FALSE),
   E("FileCopyUsingStreams", "httpProxy", FALSE, FALSE),
   E("FileCopyUsingStreams", "fileShare", TRUE, FALSE),
   E("JsonDataCopy", "localFolder", FALSE, FALSE),
   E("JsonDataCopyToCore", "core", FALSE, FALSE),
   E("MediaFilePreview", "localFolder", FALSE, FALSE),
   E("MediaFilePreview", "localFolder", TRUE, FALSE),
   E("MediaFileThumbnail", "localFolder", FALSE, TRUE),
   E("QuantelClipPreview", "fileShare", FALSE, FALSE),
   E("QuantelClipThumbnail", "localFolder", TRUE, FALSE),
   E("FileCopyProxy", "httpProxy", FALSE, TRUE),
   E("QuantelClipCopy", "quantel", FALSE, FALSE),
   E("RenderHTML", "localFolder", TRUE, FALSE),
   E("PackageScan", "core", FALSE, FALSE),
   E("PackageDeepScan", "core", FALSE, FALSE),
   E("PackageLoudnessScan", "core", FALSE, FALSE),
   E("PackageIframesScan", "core", FALSE, FALSE)}
=============================================================================
