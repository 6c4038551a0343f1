-------------------------- MODULE MCFileOperations --------------------------
(***************************************************************************)
(* Instances of FileOperations, Downloads and Folders for TLC.  The three  *)
(* share no state; each behaviour runs one of them, and the others rest in *)
(* one initial state.                                                      *)
(***************************************************************************)
EXTENDS FileOperations, Downloads, Folders, TLC

VARIABLE serving

Serving == {"uploads", "downloads", "folders"}

Symmetry == Permutations(Op)

RestUploads ==
  FilesInit /\ dest = "absent" /\ \A o \in Op : op[o].local = 0
RestDownloads ==
  DownloadInit /\ inode[1].content = <<>> /\ ~tells /\ reading.kind = "preview"
RestFolders ==
  FolderInit /\ items = [i \in Item |-> "absent"]

OperationsInit ==
  \/ serving = "uploads"   /\ FilesInit   /\ RestDownloads /\ RestFolders
  \/ serving = "downloads" /\ RestUploads /\ DownloadInit  /\ RestFolders
  \/ serving = "folders"   /\ RestUploads /\ RestDownloads /\ FolderInit

OperationsNext ==
  /\ UNCHANGED serving
  /\ \/ serving = "uploads"   /\ FilesNext    /\ UNCHANGED <<downloadVars, folderVars>>
     \/ serving = "downloads" /\ DownloadNext /\ UNCHANGED <<fileVars, folderVars>>
     \/ serving = "folders"   /\ FolderNext   /\ UNCHANGED <<fileVars, downloadVars>>

OperationsSpec == OperationsInit /\ [][OperationsNext]_<<fileVars, downloadVars, folderVars, serving>>

\* Uploads end with their login, their cancellation and their staging files accounted
\* for; a download is of one version of the file, a preview is small, and a folder that
\* is shown is the whole one (files/operations.rs, files/transfer.rs, files/mod.rs).
FilesSound == UploadsSound /\ DownloadWhole /\ PreviewBounded /\ ListingWhole
=============================================================================
