----------------------------- MODULE MCDaemon -----------------------------
(* Instances of Daemon for TLC. *)
EXTENDS Daemon, FiniteSetsExt

Starter == CHOOSE p \in Procs : TRUE

Roles(st, cs) ==
  [loop : BOOLEAN, term : BOOLEAN, left : BOOLEAN,
   starters : {st}, senders : {Procs \ {Starter}}, cmds : {cs}]

\* One process becomes the daemon, the other sends all commands.
Apart == Roles({Starter}, Cmds)

\* The other may become the daemon as well, there is one command.
Both == Roles(Procs, {CHOOSE c \in Cmds : TRUE})

AllSettings == Apart \cup {c \in Both : ~c.term}
=============================================================================
