---------------------------- MODULE MCLibraryWsid ----------------------------
(* The behaviours of Library in which a workspace is named with )WSID and  *)
(* saved with )SAVE, without arguments, and nothing else is done.          *)
EXTENDS MCLibrary

VARIABLE named   \* history: {the file that )WSID has named}

WsidThenSave ==
  \/ \E l \in Libs, n \in Names :
       SetWsid(l, n) /\ named' = {Path(l, n, "xml")}
  \/ /\ \/ Edit \/ SaveWsid
        \/ NoBackup \/ UnlinkBackup \/ RenameToBackup \/ Open \/ Write
     /\ UNCHANGED named

NamedSpec == Init /\ named = {} /\ [][WsidThenSave]_<<vars, named>>

\* "If the name is optional and missing then the workspace ID (the name set with
\* )WSID) is used" (apl.texi): )SAVE writes the file that )WSID has named, however
\* often it is given.  The name may begin with a library number (Workspace::wsid).
SaveUsesWsid == step # "idle" => \A p \in named : target = p
=============================================================================
