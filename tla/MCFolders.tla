----------------------------- MODULE MCFolders ------------------------------
(* Folders for TLC.  Folders, and pages, are interchangeable.              *)
EXTENDS Folders, TLC

Symmetry == Permutations(FolderIds) \cup Permutations(Pages)
=============================================================================
