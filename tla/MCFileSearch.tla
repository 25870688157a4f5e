---------------------------- MODULE MCFileSearch ----------------------------
EXTENDS FileSearch
=============================================================================
