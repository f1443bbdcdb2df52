---- MODULE MCDescriptors ----
(* Settings for TLC: hosts that copy, hosts that edit, and each failure alone. *)
EXTENDS Descriptors

Conf(f, uses, faults) == [ffs |-> f, loop |-> TRUE, uses |-> uses, faults |-> faults]

MCSettings ==
  {Conf(f, uses, {}) : f \in BOOLEAN, uses \in {{"get", "send"}, {"get", "send", "edit"}}}
  \cup {Conf(f, {"get", "send"}, {"endpoint"}) : f \in BOOLEAN}
  \cup {Conf(FALSE, {"get", "send"}, {x}) : x \in {"config", "cut"}}
  \cup {Conf(TRUE, {"send"}, {"path"})}
  \cup {[Conf(TRUE, {"get"}, {}) EXCEPT !.loop = FALSE]}
====
