--------------------------------- MODULE MCVFS ---------------------------------
(* Calls for the model checker: a symbolic link to b at c, a file at b made       *)
(* through it, a hard link of it or a folder with a file at a, and the deletion  *)
(* of either.                                                                     *)
EXTENDS VFS

CallOf(o, p) == [op |-> o, path |-> p, from |-> <<>>]

MCLinkPath == <<"b">>

MCCalls == { CallOf("mkdir", <<"a">>), CallOf("create", <<"a", "b">>),
             CallOf("symlink", <<"c">>), CallOf("opencreate", <<"c">>),
             CallOf("statl", <<"c">>),
             CallOf("delete", <<"a">>), CallOf("delete", <<"b">>),
             [op |-> "link", path |-> <<"a">>, from |-> <<"b">>] }
===============================================================================
