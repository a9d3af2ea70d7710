----------------------------- MODULE Flyweight -----------------------------
(***************************************************************************)
(* cmd/design/flyweight/flyweight.go: a factory that keeps every circle it  *)
(* made under its colour and radius, and returns it to whoever asks for     *)
(* them again.  main asks three times; here any sequence of requests runs.  *)
(***************************************************************************)
EXTENDS Naturals, FiniteSets

CONSTANTS Colors, Radii,
          MaxCircles  \* bound: circles allocated

ASSUME CirclesAssumption == MaxCircles \in Nat

VARIABLES circles,  \* the map of the factory: from the key to the circle
          painted,  \* painted[c]: the colour and radius circle c was made with
          given     \* history: which key was answered with which circle

flyweightVars == <<circles, painted, given>>

Keys == Colors \X Radii
Allocated == DOMAIN painted

FlyweightTypeOK ==
  /\ Allocated = 1 .. Cardinality(Allocated) /\ Cardinality(Allocated) <= MaxCircles
  /\ DOMAIN circles \subseteq Keys /\ \A k \in DOMAIN circles : circles[k] \in Allocated
  /\ \A c \in Allocated : painted[c] \in Keys
  /\ given \subseteq Keys \X Allocated

FlyweightInit ==
  circles = [k \in {} |-> 0] /\ painted = [c \in {} |-> 0] /\ given = {}

-----------------------------------------------------------------------------
KeyOf(color, radius) == <<color, radius>>

Store(key, circle) ==
  circles' = [k \in DOMAIN circles \cup {key} |-> IF k = key THEN circle ELSE circles[k]]

GetCircle(color, radius) ==
  LET key == KeyOf(color, radius)
      new == Cardinality(Allocated) + 1
  IN IF key \in DOMAIN circles
       THEN given' = given \cup {<<<<color, radius>>, circles[key]>>} /\ UNCHANGED <<circles, painted>>
       ELSE /\ new <= MaxCircles
            /\ painted' = [c \in Allocated \cup {new} |-> IF c = new THEN <<color, radius>> ELSE painted[c]]
            /\ Store(key, new)
            /\ given' = given \cup {<<<<color, radius>>, new>>}

FlyweightNext == \E c \in Colors, r \in Radii : GetCircle(c, r)

-----------------------------------------------------------------------------
(* Properties *)

\* Whoever asks for a colour and a radius is given a circle of just those, and
\* everybody the same one: the circles are shared and never made twice
\* (flyweight.go:32-42).
SharedAndRight ==
  /\ \A g \in given : painted[g[2]] = g[1]
  /\ \A g, h \in given : g[1] = h[1] <=> g[2] = h[2]
=============================================================================
