----------------------------- MODULE MCEntryLists -----------------------------
EXTENDS EntryLists, MCKeystore
=============================================================================
