----------------------------- MODULE MCConsole -----------------------------
(* Console on a small instance, for TLC.                                    *)
EXTENDS Console

\* Each slave brings one entry if it is a servo, none otherwise.
MCEntryCount(t) == Cardinality({i \in 1 .. Len(t) : t[i] = "servo"})

MCJoint(group, position, product) ==
  [group |-> group, position |-> position, product |-> product]

\* Joints that are configured against the order of their groups, two joints
\* on the same slave, no joint at all, and one too many.
MCRobots ==
  {<<MCJoint(2, 2, "servo"), MCJoint(1, 1, "io")>>,
   <<MCJoint(1, 1, "servo"), MCJoint(1, 1, "servo")>>,
   <<>>,
   <<MCJoint(1, 1, "servo"), MCJoint(1, 2, "servo"), MCJoint(1, 3, "servo")>>}
=============================================================================
