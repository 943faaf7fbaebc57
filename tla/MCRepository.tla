---------------------------- MODULE MCRepository ----------------------------
EXTENDS Repository

CONSTANTS s1, s2, a1, a2, o1, o2

Case(b, specs, admins, owners, objects, changes, failures) ==
  [backend |-> b, specs |-> specs, admins |-> admins, owners |-> owners,
   objects |-> objects, changes |-> changes, faults |-> failures]

MCScenarios ==
  {Case("sqlite", {s1, s2}, {a1, a2}, {}, 3, 0, 0),
   Case("sqlite", {s1}, {a1}, {o1}, 2, 1, 1),
   Case("sqlite", {s1}, {a1}, {o1, o2}, 1, 2, 1),
   Case("memory", {s1}, {a1}, {o1}, 1, 2, 1),
   Case("json", {s1}, {a1}, {o1}, 1, 1, 1)}
=============================================================================
