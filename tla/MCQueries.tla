----------------------------- MODULE MCQueries -----------------------------
(* Instances of Queries for TLC. *)
EXTENDS Queries

Conf(s, l, z, n) ==
  [battery |-> TRUE, perceived |-> FALSE, readonly |-> FALSE,
   sent |-> s, local |-> l, sizes |-> z, room |-> n]

\* Units: a . space * e-acute, a Han character, the two halves of an emoji.
SomeUnits == {97, 46, 32, 42, 233, 20013, 55357, 56832}

\* Names of three units and more, "a. ." among them; the last two are cut, the last is accepted.
Longer == {<<32, 42, 46>>, <<97, 46, 97>>, <<97, 32, 46>>, <<32, 97, 32>>, <<46, 32, 46>>,
           <<97, 46, 32, 46>>, <<233, 233, 233>>, <<20013, 20013, 233>>,
           <<233, 233, 20013>>}

\* Every name of up to two units and the longer ones, one at a time; two
\* objects, a name b? a host sends and a file b* of the local users, of two sizes; an
\* emoji; the device's properties set or not; a storage that is read-only.
Cases ==
  {Conf({w}, {}, {0}, 1) : w \in BoundedSeq(SomeUnits, 2) \cup Longer}
    \cup {Conf({<<98, 63>>}, {<<98, 42>>}, {0, 1}, 2)}
    \cup {[Conf({}, {<<240, 159, 152, 128>>}, {0}, 1) EXCEPT !.battery = FALSE, !.perceived = TRUE],
           [Conf({<<97>>}, {<<98>>}, {0, 1}, 1) EXCEPT !.battery = FALSE, !.readonly = TRUE]}

\* No step reads the last reply: states that differ in it alone are one.
ButReply == <<conf, session, disk, entry, setprop, told, sent>>
=============================================================================
