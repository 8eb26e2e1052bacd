--------------------------- MODULE YamlSearch_proof ---------------------------
(* The feature trees and the search for an input that triggers one.         *)
EXTENDS YamlSearch, Integers, WellFoundedInduction, TLAPS

----------------------------------------------------------------------------
(* A node that is the first to lack a property: how a statement about every *)
(* node of a tree is proved from the statement about the nodes' children.   *)

Less == OpToRel(<, Nat)

LEMMA LessWellFounded == IsWellFoundedOn(Less, Nat)
  BY NatLessThanWellFounded DEF Less

LEMMA LessDef == \A x, y \in Nat : <<x, y>> \in Less <=> x < y
  BY DEF Less, OpToRel

LEMMA LeastNat ==
  ASSUME NEW S, S \subseteq Nat, S # {}
  PROVE  \E x \in S : \A y \in S : x <= y
  <1>1. PICK x \in S : \A y \in S : <<y, x>> \notin Less
    BY LessWellFounded, WFMin
  <1>2. \A y \in S : y \in Nat /\ x \in Nat
    OBVIOUS
  <1>3. \A y \in S : ~(y < x)
    BY <1>1, <1>2, LessDef
  <1>4. \A y \in S : x <= y
    BY <1>2, <1>3
  <1> QED
    BY <1>1, <1>4

\* In a set of nodes there is one that has no child in it.
LEMMA LowestNode ==
  ASSUME NEW spec \in Specs, NEW S \in SUBSET Node, S # {}
  PROVE  \E n \in S : \A m \in spec.children[n] : m \notin S
  <1>1. S \subseteq Nat
    BY NodeAssumption
  <1>2. PICK n \in S : \A y \in S : n <= y
    BY <1>1, LeastNat
  <1>3. ASSUME NEW m \in spec.children[n] PROVE m \notin S
    <2>1. m < n
      BY SpecsAssumption
    <2>2. m \in S => n <= m /\ m \in Nat /\ n \in Nat
      BY <1>1, <1>2
    <2> QED
      BY <2>1, <2>2
  <1> QED
    BY <1>2, <1>3

----------------------------------------------------------------------------
(* The recursive definitions satisfy their equations. *)

\* What Propagate and True compute, from the flags nodes have of their own.
Flags(kind, children, own, f) ==
  [n \in Node |->
     CASE kind[n] = "api" -> own[n]
       [] kind[n] = "and" -> own[n] \/ \A m \in children[n] : f[m]
       [] OTHER -> own[n] \/ \E m \in children[n] : f[m]]

\* There is such a function: the least set of nodes that contains the nodes it forces.
LEMMA FlagsExist ==
  ASSUME NEW kind, NEW children, NEW own \in [Node -> BOOLEAN],
         \A n \in Node : children[n] \subseteq Node
  PROVE  \E f \in [Node -> BOOLEAN] : f = Flags(kind, children, own, f)
  <1> DEFINE Forces(S, n) == \/ own[n]
                             \/ kind[n] = "and" /\ \A m \in children[n] : m \in S
                             \/ kind[n] \notin {"api", "and"} /\ \E m \in children[n] : m \in S
             Full(S) == \A n \in Node : Forces(S, n) => n \in S
             Least == {n \in Node : \A S \in SUBSET Node : Full(S) => n \in S}
             Forced == {n \in Node : Forces(Least, n)}
  <1>1. Full(Least)
    <2> SUFFICES ASSUME NEW n \in Node, Forces(Least, n), NEW S \in SUBSET Node, Full(S)
                 PROVE  n \in S
      OBVIOUS
    <2>1. Least \subseteq S
      OBVIOUS
    <2>2. Forces(S, n)
      BY <2>1
    <2> QED
      BY <2>2
  <1>2. Full(Forced)
    <2> SUFFICES ASSUME NEW n \in Node, Forces(Forced, n) PROVE Forces(Least, n)
      OBVIOUS
    <2>1. Forced \subseteq Least
      BY <1>1
    <2> QED
      BY <2>1
  <1>3. Least = Forced
    <2>1. Forced \in SUBSET Node /\ Least \in SUBSET Node
      OBVIOUS
    <2>2. Least \subseteq Forced
      BY <1>2, <2>1
    <2>3. Forced \subseteq Least
      BY <1>1
    <2> QED
      BY <2>2, <2>3
  <1>4. \A n \in Node : n \in Least <=> Forces(Least, n)
    BY <1>3
  <1> HIDE DEF Least
  <1> DEFINE g == [n \in Node |-> n \in Least]
  <1>5. g \in [Node -> BOOLEAN]
    OBVIOUS
  <1>6. g = Flags(kind, children, own, g)
    <2>1. ASSUME NEW n \in Node
          PROVE  g[n] = CASE kind[n] = "api" -> own[n]
                          [] kind[n] = "and" -> own[n] \/ \A m \in children[n] : g[m]
                          [] OTHER -> own[n] \/ \E m \in children[n] : g[m]
      <3>1. \A m \in children[n] : g[m] <=> m \in Least
        OBVIOUS
      <3>2. CASE kind[n] = "api"
        <4>1. g[n] <=> own[n]
          BY <1>4, <3>2
        <4>2. g[n] = own[n]
          BY <4>1, <1>5
        <4> QED
          BY <4>2, <3>2
      <3>3. CASE kind[n] = "and"
        <4>1. g[n] <=> own[n] \/ \A m \in children[n] : g[m]
          BY <1>4, <3>1, <3>3
        <4>2. g[n] = (own[n] \/ \A m \in children[n] : g[m])
          BY <4>1, <1>5
        <4> QED
          BY <4>2, <3>3
      <3>4. CASE kind[n] \notin {"api", "and"}
        <4>1. g[n] <=> own[n] \/ \E m \in children[n] : g[m]
          BY <1>4, <3>1, <3>4
        <4>2. g[n] = (own[n] \/ \E m \in children[n] : g[m])
          BY <4>1, <1>5
        <4> QED
          BY <4>2, <3>4
      <3> QED
        BY <3>2, <3>3, <3>4
    <2> QED
      BY <2>1 DEF Flags
  <1> QED
    BY <1>5, <1>6

\* True(apis) satisfies its equation.
LEMMA TrueDef ==
  ASSUME yaml \in Specs, NEW apis
  PROVE  \A n \in Node :
           True(apis)[n] = CASE yaml.kind[n] = "api" -> n \in apis
                             [] yaml.kind[n] = "and" -> \A m \in yaml.children[n] : True(apis)[m]
                             [] OTHER -> \E m \in yaml.children[n] : True(apis)[m]
  <1> DEFINE own == [n \in Node |-> yaml.kind[n] = "api" /\ n \in apis]
             Step(f) == [n \in Node |->
                CASE yaml.kind[n] = "api" -> n \in apis
                  [] yaml.kind[n] = "and" -> \A m \in yaml.children[n] : f[m]
                  [] OTHER -> \E m \in yaml.children[n] : f[m]]
  <1>1. \A n \in Node : yaml.children[n] \subseteq Node
    BY SpecsAssumption DEF YamlSpec
  <1>2. PICK f \in [Node -> BOOLEAN] : f = Flags(yaml.kind, yaml.children, own, f)
    BY <1>1, FlagsExist
  <1>3. f = Step(f)
    <2>1. ASSUME NEW n \in Node
          PROVE  f[n] = CASE yaml.kind[n] = "api" -> n \in apis
                          [] yaml.kind[n] = "and" -> \A m \in yaml.children[n] : f[m]
                          [] OTHER -> \E m \in yaml.children[n] : f[m]
      <3>1. f[n] = CASE yaml.kind[n] = "api" -> own[n]
                     [] yaml.kind[n] = "and" -> own[n] \/ \A m \in yaml.children[n] : f[m]
                     [] OTHER -> own[n] \/ \E m \in yaml.children[n] : f[m]
        BY <1>2 DEF Flags
      <3>2. CASE yaml.kind[n] = "api"
        BY <3>1, <3>2
      <3>3. CASE yaml.kind[n] # "api"
        <4>1. ~own[n]
          BY <3>3
        <4> QED
          BY <3>1, <3>3, <4>1
      <3> QED
        BY <3>2, <3>3
    <2> QED
      BY <1>2, <2>1
  <1>4. True(apis) = Step(True(apis))
    BY <1>3, Zenon DEF True
  <1> QED
    BY <1>4

\* What Propagate computes from the flags in `set'.
LEMMA PropagateDef ==
  ASSUME yaml \in Specs, NEW set \in [Node -> BOOLEAN]
  PROVE  \E flag \in [Node -> BOOLEAN] :
           /\ flag = Flags(yaml.kind, yaml.children, set, flag)
           /\ Propagate(set) =
                [n \in Node |-> IF n \in Below[yaml.roots[feature]] THEN flag[n] ELSE set[n]]
  <1> DEFINE Step(f) == [n \in Node |->
                CASE yaml.kind[n] = "api" -> set[n]
                  [] yaml.kind[n] = "and" -> set[n] \/ \A m \in yaml.children[n] : f[m]
                  [] OTHER -> set[n] \/ \E m \in yaml.children[n] : f[m]]
             flag == CHOOSE f : f = Step(f)
  <1>1. \A n \in Node : yaml.children[n] \subseteq Node
    BY SpecsAssumption DEF YamlSpec
  <1>2. PICK f \in [Node -> BOOLEAN] : f = Flags(yaml.kind, yaml.children, set, f)
    BY <1>1, FlagsExist
  <1>3. f = Step(f)
    BY <1>2 DEF Flags
  <1>4. flag = Step(flag)
    BY <1>3, Zenon
  <1>5. flag \in [Node -> BOOLEAN]
    <2>1. ASSUME NEW n \in Node PROVE Step(flag)[n] \in BOOLEAN
      OBVIOUS
    <2> QED
      BY <1>4, <2>1
  <1>6. flag = Flags(yaml.kind, yaml.children, set, flag)
    BY <1>4 DEF Flags
  <1>7. Propagate(set) =
          [n \in Node |-> IF n \in Below[yaml.roots[feature]] THEN flag[n] ELSE set[n]]
    BY Zenon DEF Propagate
  <1> QED
    BY <1>5, <1>6, <1>7

\* The nodes below a node satisfy their equation.
LEMMA BelowDef ==
  ASSUME NEW spec \in Specs
  PROVE  \A n \in Node :
           BelowIn(spec)[n] = {n} \cup UNION {BelowIn(spec)[m] : m \in spec.children[n]}
  <1> DEFINE Step(f) == [n \in Node |-> {n} \cup UNION {f[m] : m \in spec.children[n]}]
             Closed(R) == \A n \in Node : /\ <<n, n>> \in R
                                          /\ \A m \in spec.children[n], x \in Node :
                                               <<m, x>> \in R => <<n, x>> \in R
             Least == {p \in Node \X Node : \A R \in SUBSET (Node \X Node) : Closed(R) => p \in R}
             Forced == {p \in Node \X Node :
                          \/ p[1] = p[2]
                          \/ \E m \in spec.children[p[1]] : <<m, p[2]>> \in Least}
  <1>0. \A n \in Node : spec.children[n] \subseteq Node
    BY SpecsAssumption DEF YamlSpec
  <1>1. Closed(Least)
    <2>1. ASSUME NEW n \in Node PROVE <<n, n>> \in Least
      OBVIOUS
    <2>2. ASSUME NEW n \in Node, NEW m \in spec.children[n], NEW x \in Node, <<m, x>> \in Least
          PROVE  <<n, x>> \in Least
      BY <2>2
    <2> QED
      BY <2>1, <2>2
  <1>2. Forced \subseteq Least
    <2> SUFFICES ASSUME NEW p \in Forced PROVE p \in Least
      OBVIOUS
    <2>1. PICK n \in Node, x \in Node : p = <<n, x>>
      OBVIOUS
    <2>2. CASE n = x
      BY <1>1, <2>1, <2>2
    <2>3. CASE \E m \in spec.children[n] : <<m, x>> \in Least
      BY <1>1, <2>1, <2>3
    <2> QED
      BY <2>1, <2>2, <2>3
  <1>3. Closed(Forced)
    <2>1. ASSUME NEW n \in Node PROVE <<n, n>> \in Forced
      OBVIOUS
    <2>2. ASSUME NEW n \in Node, NEW m \in spec.children[n], NEW x \in Node, <<m, x>> \in Forced
          PROVE  <<n, x>> \in Forced
      BY <1>2, <2>2
    <2> QED
      BY <2>1, <2>2
  <1>4. Least \subseteq Forced
    <2>1. Forced \in SUBSET (Node \X Node)
      OBVIOUS
    <2> QED
      BY <1>3, <2>1
  <1>5. \A n, x \in Node :
          <<n, x>> \in Least <=> n = x \/ \E m \in spec.children[n] : <<m, x>> \in Least
    BY <1>2, <1>4
  <1>6. Least \subseteq Node \X Node
    OBVIOUS
  <1> HIDE DEF Least, Forced
  <1> DEFINE g == [n \in Node |-> {x \in Node : <<n, x>> \in Least}]
  <1>7. g = Step(g)
    <2>1. ASSUME NEW n \in Node PROVE g[n] = {n} \cup UNION {g[m] : m \in spec.children[n]}
      <3>1. ASSUME NEW x PROVE x \in g[n] <=> x = n \/ \E m \in spec.children[n] : x \in g[m]
        BY <1>0, <1>5
      <3> QED
        BY <3>1
    <2> QED
      BY <2>1
  <1>8. BelowIn(spec) = Step(BelowIn(spec))
    BY <1>7, Zenon DEF BelowIn
  <1> QED
    BY <1>8

----------------------------------------------------------------------------
(* Trees, and what makes a node true. *)

\* What a YAML file is made of.
LEMMA SpecFields ==
  ASSUME NEW spec \in Specs
  PROVE  /\ \A n \in Node : spec.kind[n] \in {"api", "and", "or"}
         /\ \A n \in Node : spec.children[n] \subseteq Node
         /\ spec.roots \in Seq(Node)
         /\ Len(spec.roots) \in Nat /\ Len(spec.roots) > 0
         /\ DOMAIN spec.roots = 1 .. Len(spec.roots)
         /\ \A f \in DOMAIN spec.roots : spec.roots[f] \in Node
  <1>1. spec \in YamlSpec /\ spec.roots # <<>>
    BY SpecsAssumption
  <1>2. spec.roots \in Seq(Node)
    BY <1>1 DEF YamlSpec
  <1> QED
    BY <1>1, <1>2 DEF YamlSpec

\* A tree is made of nodes, among them its root, and holds the children of its nodes.
LEMMA TreeOfNodes ==
  ASSUME NEW spec \in Specs, NEW r \in Node
  PROVE  /\ BelowIn(spec)[r] \subseteq Node
         /\ r \in BelowIn(spec)[r]
         /\ \A x \in BelowIn(spec)[r] : spec.children[x] \subseteq BelowIn(spec)[r]
  <1> DEFINE Below_(n) == BelowIn(spec)[n]
             Good(n) == /\ Below_(n) \subseteq Node
                        /\ \A x \in Below_(n) : spec.children[x] \subseteq Below_(n)
             Bad == {n \in Node : ~Good(n)}
  <1>1. \A n \in Node : Below_(n) = {n} \cup UNION {Below_(m) : m \in spec.children[n]}
    BY BelowDef
  <1>2. \A n \in Node : n \in Below_(n) /\ spec.children[n] \subseteq Node
    BY <1>1, SpecFields
  <1> HIDE DEF Below_
  <1>3. ASSUME Bad # {} PROVE FALSE
    <2>1. PICK n \in Bad : \A m \in spec.children[n] : m \notin Bad
      BY <1>3, LowestNode
    <2>2. \A m \in spec.children[n] : Good(m)
      BY <1>2, <2>1
    <2>3. Below_(n) \subseteq Node
      BY <1>1, <2>2
    <2>4. ASSUME NEW x \in Below_(n), NEW y \in spec.children[x] PROVE y \in Below_(n)
      <3>1. CASE x = n
        BY <1>1, <1>2, <2>4, <3>1
      <3>2. ASSUME NEW m \in spec.children[n], x \in Below_(m) PROVE y \in Below_(n)
        BY <1>1, <2>2, <2>4, <3>2
      <3> QED
        BY <1>1, <3>1, <3>2
    <2> QED
      BY <2>1, <2>3, <2>4
  <1>4. Good(r)
    BY <1>3
  <1> QED
    BY <1>2, <1>4 DEF Below_

\* What makes a node of each kind true.
LEMMA TrueCases ==
  ASSUME yaml \in Specs, NEW apis, NEW n \in Node
  PROVE  /\ yaml.kind[n] = "api" => (True(apis)[n] <=> n \in apis)
         /\ yaml.kind[n] = "and" => (True(apis)[n] <=> \A m \in yaml.children[n] : True(apis)[m])
         /\ yaml.kind[n] = "or" => (True(apis)[n] <=> \E m \in yaml.children[n] : True(apis)[m])
         /\ yaml.kind[n] \in {"api", "and", "or"}
         /\ yaml.children[n] \subseteq Node
  BY TrueDef, SpecFields

\* More matched API nodes make no node false.
LEMMA TrueMonotone ==
  ASSUME yaml \in Specs, NEW less, NEW more, less \subseteq more, NEW n \in Node, True(less)[n]
  PROVE  True(more)[n]
  <1> DEFINE Bad == {x \in Node : True(less)[x] /\ ~True(more)[x]}
  <1>1. ASSUME NEW x \in Bad, \A m \in yaml.children[x] : m \notin Bad PROVE FALSE
    BY <1>1, TrueCases
  <1>2. Bad = {}
    BY <1>1, LowestNode
  <1> QED
    BY <1>2

\* The inputs that match an API node in a call, as far as feature f is concerned.
Refuses(comparison, i, a) ==
  \E c \in DOMAIN comparison.checks : comparison.checks[c].api = a /\ i \notin comparison.checks[c].holds
Matches(i, k, f, a) ==
  /\ i \in prog[k].when
  /\ a \in prog[k].compare[f].named
  /\ ~Refuses(prog[k].compare[f], i, a)

LEMMA MatchedByDef ==
  ASSUME NEW i, NEW n
  PROVE  \A a : a \in MatchedBy(i, n) <=> \E k \in 1 .. n, f \in Features : Matches(i, k, f, a)
  <1>1. ASSUME NEW a, a \in MatchedBy(i, n)
        PROVE  \E k \in 1 .. n, f \in Features : Matches(i, k, f, a)
    BY <1>1 DEF MatchedBy, Matches, Refuses
  <1>2. ASSUME NEW a, NEW k \in 1 .. n, NEW f \in Features, Matches(i, k, f, a)
        PROVE  a \in MatchedBy(i, n)
    <2> DEFINE Reached == {x \in 1 .. n : i \in prog[x].when}
               Accepted(x, g) == {y \in prog[x].compare[g].named :
                                    \A c \in DOMAIN prog[x].compare[g].checks :
                                      LET condition == prog[x].compare[g].checks[c]
                                      IN  condition.api = y => i \in condition.holds}
    <2>1. k \in Reached /\ a \in Accepted(k, f)
      BY <1>2 DEF Matches, Refuses
    <2> HIDE DEF Reached, Accepted
    <2>2. a \in UNION {Accepted(x, g) : x \in Reached, g \in Features}
      BY <2>1
    <2> QED
      BY <2>2 DEF MatchedBy, Reached, Accepted
  <1> QED
    BY <1>1, <1>2

\* A longer run matches no less, and a run of no calls nothing.
LEMMA MatchedByGrows ==
  /\ \A i, a : \A m, n \in Int : m <= n /\ a \in MatchedBy(i, m) => a \in MatchedBy(i, n)
  /\ \A i : MatchedBy(i, 0) = {}
  <1>1. ASSUME NEW i, NEW a, NEW m \in Int, NEW n \in Int, m <= n, a \in MatchedBy(i, m)
        PROVE  a \in MatchedBy(i, n)
    <2>1. PICK k \in 1 .. m, f \in Features : Matches(i, k, f, a)
      BY <1>1, MatchedByDef
    <2>2. k \in 1 .. n
      BY <1>1
    <2> QED
      BY <2>1, <2>2, MatchedByDef
  <1>2. ASSUME NEW i, NEW a, a \in MatchedBy(i, 0) PROVE FALSE
    <2>1. PICK k \in 1 .. 0 : TRUE
      BY <1>2, MatchedByDef
    <2> QED
      BY <2>1
  <1> QED
    BY <1>1, <1>2

\* The calls of a function under test, and what they are compared with.
LEMMA CallFields ==
  ASSUME yaml \in Specs, prog \in Programs[yaml]
  PROVE  /\ Len(prog) \in Nat /\ DOMAIN prog = 1 .. Len(prog)
         /\ \A k \in DOMAIN prog : prog[k].when \subseteq Input
         /\ \A k \in DOMAIN prog, f \in Features :
              /\ prog[k].compare[f].named \subseteq {n \in Below[yaml.roots[f]] : yaml.kind[n] = "api"}
              /\ prog[k].compare[f].checks \in Seq(Check)
              /\ Len(prog[k].compare[f].checks) \in Nat
              /\ DOMAIN prog[k].compare[f].checks = 1 .. Len(prog[k].compare[f].checks)
  <1>1. prog \in Seq(Call)
    BY ProgramsAssumption
  <1>2. ASSUME NEW k \in DOMAIN prog
        PROVE  prog[k] \in Call
    BY <1>1
  <1>3. ASSUME NEW k \in DOMAIN prog, NEW f \in Features
        PROVE  /\ prog[k].compare[f] \in Comparison
               /\ prog[k].compare[f].named \subseteq {n \in Below[yaml.roots[f]] : yaml.kind[n] = "api"}
    <2>1. prog[k].compare \in Seq(Comparison) /\ f \in DOMAIN prog[k].compare
      BY <1>2, ProgramsAssumption DEF Call, Features
    <2> QED
      BY <2>1, ProgramsAssumption DEF Below, Features
  <1>4. ASSUME NEW k \in DOMAIN prog, NEW f \in Features
        PROVE  prog[k].compare[f].checks \in Seq(Check)
    BY <1>3 DEF Comparison
  <1> QED
    BY <1>1, <1>2, <1>3, <1>4 DEF Call

----------------------------------------------------------------------------
(* The invariant. *)

TypeOK ==
  /\ yaml \in Specs /\ prog \in Programs[yaml]
  /\ open \subseteq SUBSET Input /\ closed \subseteq SUBSET Input
  /\ running \in BOOLEAN /\ active \subseteq Input
  /\ cur \in Input
  /\ call \in Nat \ {0} /\ feature \in Features /\ check \in Nat
  /\ missed \subseteq Node
  /\ triggered \in [Node -> BOOLEAN]

\* Where the run is: before a call, or at the conditions of one that it reaches.
PlaceOK ==
  /\ call <= Len(prog) + 1
  /\ check = 0 => feature = 1
  /\ check > 0 => /\ call <= Len(prog) /\ cur \in prog[call].when
                  /\ check <= Len(Comparing.checks) + 1

Searching == running /\ found = {}

\* The calls a feature has been compared with.
Through(f) == IF f < feature THEN call ELSE call - 1
TreeOf(f) == Below[yaml.roots[f]]
Truth(f) == True(MatchedBy(cur, Through(f)))

\* A flag is set only if the calls so far make its node true, and is set if they do.
FlagsAreTrue == Searching => \A f \in Features : \A n \in TreeOf(f) : triggered[n] => Truth(f)[n]
TrueIsFlagged == Searching => \A f \in Features : \A n \in TreeOf(f) : Truth(f)[n] => triggered[n]

NoRootFlagged == Searching => \A f \in Features : ~triggered[yaml.roots[f]]

\* missed is what the conditions compared so far refuse.
RefusedSoFar(a) ==
  /\ check > 0
  /\ \E c \in DOMAIN Comparing.checks :
       c < check /\ Comparing.checks[c].api = a /\ cur \notin Comparing.checks[c].holds
MissedIsRefused == Searching => \A a \in Node : a \in missed <=> RefusedSoFar(a)

\* Every input of the class reaches the calls of the run, and only those, and satisfies
\* no condition that the run does not.
Compared(k, f, c) == k < call \/ (k = call /\ (f < feature \/ (f = feature /\ c < check)))
ClassMatchesNoMore ==
  Searching =>
    /\ cur \in active
    /\ \A i \in active, k \in DOMAIN prog :
         /\ k < call \/ (k = call /\ check > 0) => (i \in prog[k].when <=> cur \in prog[k].when)
         /\ \A f \in Features : \A c \in DOMAIN prog[k].compare[f].checks :
              Compared(k, f, c) /\ cur \in prog[k].when /\ i \in prog[k].compare[f].checks[c].holds
              => cur \in prog[k].compare[f].checks[c].holds

\* No input of a finished class triggers a feature, and every input is in a class.
ClosedIsClean == found = {} /\ ~cut => \A C \in closed : \A i \in C : ~Triggers(i, Len(prog))
EveryInputInAClass ==
  found = {} => \A i \in Input : i \in lost \/ i \in active \/ \E C \in open \cup closed : i \in C

ActiveIsRunning == ~running => active = {}

----------------------------------------------------------------------------
(* What a step leaves alone. *)

\* The features and the function under test do not change, nor does what they mean.
LEMMA Frozen ==
  ASSUME Next
  PROVE  yaml' = yaml /\ prog' = prog
  BY DEF Next, SearchStep, BeginRun, Branch, CheckHolds, CheckFails, DepthExceeded,
         FinishFeature, EndRun, Terminated, vars

LEMMA MeaningFrozen ==
  ASSUME yaml' = yaml, prog' = prog
  PROVE  /\ \A apis : True(apis)' = True(apis)
         /\ \A i, n : MatchedBy(i, n)' = MatchedBy(i, n)
         /\ Below' = Below
         /\ Features' = Features
  <1>1. \A apis : True(apis)' = True(apis)
    BY Zenon DEF True
  <1>2. Features' = Features
    BY DEF Features
  <1>3. \A i, n : MatchedBy(i, n)' = MatchedBy(i, n)
    BY DEF MatchedBy, Features
  <1>4. Below' = Below
    BY DEF Below
  <1> QED
    BY <1>1, <1>2, <1>3, <1>4

\* A step that stays in place keeps what the flags should be.
LEMMA TruthKept ==
  ASSUME yaml' = yaml, prog' = prog, cur' = cur, call' = call, feature' = feature
  PROVE  \A f : Truth(f)' = Truth(f)
  BY MeaningFrozen DEF Truth, Through

\* record_path cuts `away' out of the class of the run, and loses nothing.
LEMMA RecordCuts ==
  ASSUME NEW away, Record(away)
  PROVE  /\ active' = active \ away
         /\ open \subseteq open' /\ lost \subseteq lost'
         /\ open' \subseteq open \cup {away}
         /\ away = {} \/ away \in open' \/ away \subseteq lost'
         /\ running' = running /\ closed' = closed
  BY DEF Record, searchVars, Search!Split, Search!Narrow

----------------------------------------------------------------------------
(* Types, and the place in the function under test. *)

\* The comparisons of the call being compared.
LEMMA AtComparison ==
  ASSUME TypeOK, call <= Len(prog)
  PROVE  /\ call \in DOMAIN prog
         /\ Comparing.checks \in Seq(Check)
         /\ Len(Comparing.checks) \in Nat
         /\ DOMAIN Comparing.checks = 1 .. Len(Comparing.checks)
         /\ Comparing.named \subseteq {n \in TreeOf(feature) : yaml.kind[n] = "api"}
  <1>1. call \in DOMAIN prog
    BY CallFields DEF TypeOK
  <1> QED
    BY <1>1, CallFields DEF TypeOK, Comparing, TreeOf

LEMMA TypesKept == TypeOK /\ PlaceOK /\ [Next]_vars => TypeOK' /\ PlaceOK'
  <1> SUFFICES ASSUME TypeOK, PlaceOK, [Next]_vars PROVE TypeOK' /\ PlaceOK'
    OBVIOUS
  <1>0. yaml.roots \in Seq(Node) /\ Features = 1 .. Len(yaml.roots) /\ Len(yaml.roots) \in Nat \ {0}
    BY SpecFields DEF TypeOK, Features
  <1>1. ASSUME NEW class \in open, BeginRun(class) PROVE TypeOK' /\ PlaceOK'
    <2>1. 1 \in Features
      BY <1>0
    <2>2. TypeOK'
      BY <1>1, <2>1, MeaningFrozen DEF TypeOK, BeginRun, Search!Begin
    <2>3. Len(prog) \in Nat
      BY CallFields DEF TypeOK
    <2> QED
      BY <1>1, <2>2, <2>3 DEF PlaceOK, BeginRun
  <1>2. CASE Branch
    <2> DEFINE away == {i \in active : (i \in prog[call].when) # Arrives}
    <2>1. active' \subseteq Input /\ open' \subseteq SUBSET Input /\ closed' = closed /\ running' = running
      <3>1. CASE Guarded
        BY <1>2, <3>1, RecordCuts DEF Branch, TypeOK
      <3>2. CASE ~Guarded
        BY <1>2, <3>2 DEF Branch, TypeOK, searchVars
      <3> QED
        BY <3>1, <3>2
    <2>2. TypeOK'
      BY <1>2, <2>1, MeaningFrozen DEF TypeOK, Branch
    <2>3. call \in DOMAIN prog /\ Len(prog) \in Nat
      BY <1>2, AtComparison, CallFields DEF Branch, AtCall, TypeOK
    <2>4. CASE Arrives
      <3>1. /\ check' = 1 /\ call' = call /\ cur' = cur /\ prog' = prog /\ yaml' = yaml
            /\ feature' = feature /\ call <= Len(prog)
        BY <1>2, <2>4 DEF Branch, AtCall
      <3>2. Comparing' = Comparing
        BY <3>1 DEF Comparing
      <3>3. 1 <= Len(Comparing.checks) + 1
        BY <3>1, AtComparison
      <3> QED
        BY <2>2, <2>4, <3>1, <3>2, <3>3 DEF PlaceOK, Arrives, TypeOK
    <2>5. CASE ~Arrives
      BY <1>2, <2>2, <2>3, <2>5 DEF PlaceOK, Branch, AtCall, TypeOK
    <2> QED
      BY <2>2, <2>4, <2>5
  <1>3. ASSUME CheckHolds \/ CheckFails PROVE TypeOK' /\ PlaceOK'
    <2>1. /\ call <= Len(prog) /\ check \in DOMAIN Comparing.checks /\ check' = check + 1
          /\ yaml' = yaml /\ prog' = prog /\ cur' = cur /\ call' = call /\ feature' = feature
          /\ triggered' = triggered
      BY <1>3 DEF CheckHolds, CheckFails, AtCheck, AtCall, NextCheck
    <2>2. /\ active' \subseteq Input /\ open' \subseteq SUBSET Input
          /\ closed' = closed /\ running' = running
      <3>1. CASE CheckHolds
        BY <3>1 DEF CheckHolds, TypeOK, searchVars
      <3>2. CASE CheckFails
        BY <3>2, RecordCuts DEF CheckFails, TypeOK, NearMiss
      <3> QED
        BY <1>3, <3>1, <3>2
    <2>3. missed' \subseteq Node
      <3>1. Comparing.checks[check] \in Check
        BY <2>1, AtComparison
      <3> QED
        BY <1>3, <3>1 DEF CheckHolds, CheckFails, TypeOK, Check
    <2>4. TypeOK'
      BY <2>1, <2>2, <2>3, MeaningFrozen DEF TypeOK
    <2>5. Comparing' = Comparing
      BY <2>1 DEF Comparing
    <2>6. check \in 1 .. Len(Comparing.checks) /\ Len(Comparing.checks) \in Nat
      BY <2>1, AtComparison
    <2> QED
      BY <2>1, <2>4, <2>5, <2>6 DEF PlaceOK
  <1>4. CASE DepthExceeded
    <2>1. UNCHANGED <<yaml, prog, cur, call, feature, check, missed, triggered, open>>
      BY <1>4 DEF DepthExceeded, place, Search!Close
    <2>2. TypeOK'
      BY <1>4, <2>1, MeaningFrozen DEF TypeOK, DepthExceeded, Search!Close
    <2> QED
      BY <2>1, <2>2 DEF PlaceOK, Comparing
  <1>5. CASE FinishFeature
    <2>1. /\ UNCHANGED <<yaml, prog, cur, open, running, active, closed>>
          /\ call <= Len(prog) /\ check > Len(Comparing.checks)
      BY <1>5 DEF FinishFeature, searchVars, AtCall
    <2>2. Len(prog) \in Nat /\ Len(Comparing.checks) \in Nat
      BY <2>1, AtComparison, CallFields DEF TypeOK
    <2>3. triggered' \in [Node -> BOOLEAN]
      <3> DEFINE set == [n \in Node |-> triggered[n] \/ n \in Comparing.named \ missed]
      <3>1. set \in [Node -> BOOLEAN]
        BY DEF TypeOK
      <3> HIDE DEF set
      <3>2. Propagate(set) \in [Node -> BOOLEAN]
        <4>1. PICK flag \in [Node -> BOOLEAN] :
                Propagate(set) =
                  [n \in Node |-> IF n \in Below[yaml.roots[feature]] THEN flag[n] ELSE set[n]]
          BY <3>1, PropagateDef DEF TypeOK
        <4> QED
          BY <3>1, <4>1
      <3> QED
        BY <1>5, <3>2 DEF FinishFeature, set
    <2>4. CASE triggered'[yaml.roots[feature]]
      <3>1. UNCHANGED <<call, feature, check, missed>>
        BY <1>5, <2>4 DEF FinishFeature, place
      <3>2. TypeOK'
        BY <2>1, <2>3, <3>1, MeaningFrozen DEF TypeOK
      <3> QED
        BY <2>1, <3>1, <3>2 DEF PlaceOK, Comparing
    <2>5. CASE ~triggered'[yaml.roots[feature]] /\ LastFeature
      <3>1. feature' = 1 /\ call' = call + 1 /\ check' = 0 /\ missed' = {}
        BY <1>5, <2>5 DEF FinishFeature
      <3>2. TypeOK'
        BY <1>0, <2>1, <2>3, <3>1, MeaningFrozen DEF TypeOK
      <3> QED
        BY <2>1, <2>2, <3>1, <3>2 DEF PlaceOK, TypeOK
    <2>6. CASE ~triggered'[yaml.roots[feature]] /\ ~LastFeature
      <3>1. feature' = feature + 1 /\ call' = call /\ check' = 1 /\ missed' = {}
        BY <1>5, <2>6 DEF FinishFeature
      <3>2. feature + 1 \in Features
        BY <1>0, <2>6 DEF LastFeature, TypeOK
      <3>3. TypeOK'
        BY <2>1, <2>3, <3>1, <3>2, MeaningFrozen DEF TypeOK
      <3>4. Comparing' = prog[call].compare[feature + 1]
        BY <2>1, <3>1 DEF Comparing
      <3>5. Len(prog[call].compare[feature + 1].checks) \in Nat
        BY <2>1, <3>2, AtComparison, CallFields DEF TypeOK
      <3>6. cur \in prog[call].when
        BY <2>1, <2>2 DEF PlaceOK, TypeOK
      <3>7. check' <= Len(Comparing.checks)' + 1
        BY <3>1, <3>4, <3>5
      <3>8. call' <= Len(prog)' + 1 /\ call' <= Len(prog)' /\ cur' \in prog'[call'].when
        BY <2>1, <2>2, <3>1, <3>6 DEF TypeOK
      <3> QED
        BY <3>1, <3>3, <3>7, <3>8 DEF PlaceOK
    <2> QED
      BY <2>4, <2>5, <2>6
  <1>6. CASE EndRun
    <2>1. UNCHANGED <<yaml, prog, cur, call, feature, check, missed, triggered, open>>
      BY <1>6 DEF EndRun, place, Search!Close
    <2>2. TypeOK'
      BY <1>6, <2>1, MeaningFrozen DEF TypeOK, EndRun, Search!Close
    <2> QED
      BY <2>1, <2>2 DEF PlaceOK, Comparing
  <1>7. CASE UNCHANGED vars
    BY <1>7, MeaningFrozen DEF TypeOK, PlaceOK, Comparing, vars, place, searchVars
  <1> QED
    BY <1>1, <1>2, <1>3, <1>4, <1>5, <1>6, <1>7 DEF Next, SearchStep, Terminated

----------------------------------------------------------------------------
(* One feature of one call. *)

LEMMA MissedKept ==
  TypeOK /\ PlaceOK /\ MissedIsRefused /\ [Next]_vars => MissedIsRefused'
  <1> SUFFICES ASSUME TypeOK, PlaceOK, MissedIsRefused, [Next]_vars, Searching'
               PROVE  \A a \in Node : a \in missed' <=> RefusedSoFar(a)'
    BY DEF MissedIsRefused
  <1>1. ASSUME NEW class \in open, BeginRun(class)
        PROVE  \A a \in Node : a \in missed' <=> RefusedSoFar(a)'
    BY <1>1 DEF BeginRun, RefusedSoFar
  <1>2. CASE Branch
    <2>1. missed' = missed /\ check = 0 /\ check' \in {0, 1} /\ Searching
      BY <1>2 DEF Branch, AtCall, Searching
    <2>2. \A a \in Node : ~RefusedSoFar(a)
      BY <2>1 DEF RefusedSoFar
    <2>3. \A a \in Node : a \notin missed'
      BY <2>1, <2>2 DEF MissedIsRefused
    <2>4. ASSUME check' = 1 PROVE \A a \in Node : ~RefusedSoFar(a)'
      <3>1. call' = call /\ prog' = prog /\ feature' = feature /\ call <= Len(prog)
        BY <1>2, <2>4 DEF Branch, AtCall, TypeOK
      <3>2. Comparing' = Comparing
        BY <3>1 DEF Comparing
      <3>3. DOMAIN Comparing.checks = 1 .. Len(Comparing.checks) /\ Len(Comparing.checks) \in Nat
        BY <3>1, AtComparison
      <3> QED
        BY <2>4, <3>2, <3>3 DEF RefusedSoFar
    <2>5. ASSUME check' = 0 PROVE \A a \in Node : ~RefusedSoFar(a)'
      BY <2>5 DEF RefusedSoFar
    <2> QED
      BY <2>1, <2>3, <2>4, <2>5
  <1>3. ASSUME CheckHolds \/ CheckFails
        PROVE  \A a \in Node : a \in missed' <=> RefusedSoFar(a)'
    <2>1. /\ call <= Len(prog) /\ check \in DOMAIN Comparing.checks /\ check' = check + 1
          /\ prog' = prog /\ cur' = cur /\ call' = call /\ feature' = feature /\ Searching
      BY <1>3 DEF CheckHolds, CheckFails, AtCheck, AtCall, NextCheck, Searching
    <2>2. Comparing' = Comparing
      BY <2>1 DEF Comparing
    <2>3. DOMAIN Comparing.checks = 1 .. Len(Comparing.checks) /\ Len(Comparing.checks) \in Nat
      BY <2>1, AtComparison
    <2> SUFFICES ASSUME NEW a \in Node PROVE a \in missed' <=> RefusedSoFar(a)'
      OBVIOUS
    <2>4. RefusedSoFar(a)' <=>
            RefusedSoFar(a) \/ (Comparing.checks[check].api = a /\ cur \notin Condition)
      BY <2>1, <2>2, <2>3 DEF RefusedSoFar, Condition
    <2>5. a \in missed' <=>
            a \in missed \/ (Comparing.checks[check].api = a /\ cur \notin Condition)
      BY <1>3 DEF CheckHolds, CheckFails
    <2> QED
      BY <2>1, <2>4, <2>5 DEF MissedIsRefused
  <1>4. CASE DepthExceeded
    BY <1>4 DEF DepthExceeded, Search!Close, Searching
  <1>5. CASE FinishFeature
    <2>1. missed' = {} /\ check' \in {0, 1}
      BY <1>5 DEF FinishFeature, Searching
    <2>2. ASSUME check' = 1 PROVE \A a \in Node : ~RefusedSoFar(a)'
      <3>1. TypeOK' /\ PlaceOK'
        BY TypesKept
      <3>2. (call <= Len(prog))'
        BY <2>2, <3>1 DEF PlaceOK
      <3>3. TypeOK' => (DOMAIN Comparing.checks = 1 .. Len(Comparing.checks))'
        BY <3>2, AtComparison, PTL
      <3> QED
        BY <2>2, <3>1, <3>3 DEF RefusedSoFar
    <2>3. ASSUME check' = 0 PROVE \A a \in Node : ~RefusedSoFar(a)'
      BY <2>3 DEF RefusedSoFar
    <2> QED
      BY <2>1, <2>2, <2>3
  <1>6. CASE EndRun
    BY <1>6 DEF EndRun, Search!Close, Searching
  <1>7. CASE UNCHANGED vars
    BY <1>7 DEF MissedIsRefused, RefusedSoFar, Searching, Comparing, vars, place, searchVars
  <1> QED
    BY <1>1, <1>2, <1>3, <1>4, <1>5, <1>6, <1>7 DEF Next, SearchStep, Terminated

\* The nodes FinishFeature sets are those the run matches in this call.
LEMMA SetIsMatched ==
  ASSUME TypeOK, PlaceOK, MissedIsRefused, FinishFeature
  PROVE  /\ \A a \in Node : a \in Comparing.named \ missed <=> Matches(cur, call, feature, a)
         /\ \A a \in Comparing.named : a \in TreeOf(feature) /\ yaml.kind[a] = "api"
  <1>1. Searching /\ call <= Len(prog) /\ check > Len(Comparing.checks)
    BY DEF FinishFeature, AtCall, Searching
  <1>2. /\ Len(Comparing.checks) \in Nat
        /\ DOMAIN Comparing.checks = 1 .. Len(Comparing.checks)
        /\ \A a \in Comparing.named : a \in TreeOf(feature) /\ yaml.kind[a] = "api"
    BY <1>1, AtComparison
  <1>3. cur \in prog[call].when /\ check > 0
    BY <1>1, <1>2 DEF PlaceOK, TypeOK
  <1>4. \A a \in Node : RefusedSoFar(a) <=> Refuses(Comparing, cur, a)
    BY <1>1, <1>2, <1>3 DEF RefusedSoFar, Refuses, TypeOK
  <1> QED
    BY <1>1, <1>2, <1>3, <1>4 DEF MissedIsRefused, Matches, Comparing

\* Why a flag is set after the call has been compared with a feature.
Sets(n) ==
  \/ triggered[n]
  \/ Matches(cur, call, feature, n)
  \/ yaml.kind[n] = "and" /\ \A m \in yaml.children[n] : triggered'[m]
  \/ yaml.kind[n] = "or" /\ \E m \in yaml.children[n] : triggered'[m]

LEMMA FlagsAfter ==
  ASSUME TypeOK, PlaceOK, MissedIsRefused, FinishFeature
  PROVE  /\ \A n \in Node \ TreeOf(feature) : triggered'[n] = triggered[n]
         /\ \A n \in TreeOf(feature) :
              triggered'[n] <=> Sets(n)
  <1> DEFINE set == [n \in Node |-> triggered[n] \/ n \in Comparing.named \ missed]
  <1>1. /\ set \in [Node -> BOOLEAN]
        /\ triggered' = Propagate(set)
    BY DEF FinishFeature, TypeOK
  <1>2. \A n \in Node : set[n] <=> triggered[n] \/ Matches(cur, call, feature, n)
    BY SetIsMatched
  <1>3. \A n \in Node : n \notin TreeOf(feature) => set[n] = triggered[n]
    BY SetIsMatched DEF TypeOK
  <1>4. \A n \in Node : Matches(cur, call, feature, n) => yaml.kind[n] = "api"
    BY SetIsMatched
  <1> HIDE DEF set
  <1>5. PICK flag \in [Node -> BOOLEAN] :
          /\ flag = Flags(yaml.kind, yaml.children, set, flag)
          /\ Propagate(set) =
               [n \in Node |-> IF n \in Below[yaml.roots[feature]] THEN flag[n] ELSE set[n]]
    BY <1>1, PropagateDef DEF TypeOK
  <1>6. \A n \in Node : triggered'[n] = IF n \in TreeOf(feature) THEN flag[n] ELSE set[n]
    BY <1>1, <1>5 DEF TreeOf
  <1>7. ASSUME NEW n \in TreeOf(feature)
        PROVE  triggered'[n] <=> Sets(n)
    <2>1. yaml.roots[feature] \in Node
      BY SpecFields DEF TypeOK, Features
    <2>2. n \in Node /\ yaml.children[n] \subseteq TreeOf(feature) /\ TreeOf(feature) \subseteq Node
      BY <2>1, TreeOfNodes DEF TypeOK, TreeOf, Below
    <2>3. (triggered'[n] <=> flag[n]) /\ \A m \in yaml.children[n] : triggered'[m] <=> flag[m]
      BY <1>6, <2>2
    <2>4. flag[n] = CASE yaml.kind[n] = "api" -> set[n]
                      [] yaml.kind[n] = "and" -> set[n] \/ \A m \in yaml.children[n] : flag[m]
                      [] OTHER -> set[n] \/ \E m \in yaml.children[n] : flag[m]
      BY <1>5, <2>2 DEF Flags
    <2>5. yaml.kind[n] \in {"api", "and", "or"}
      BY <2>2, SpecFields DEF TypeOK
    <2>6. CASE yaml.kind[n] = "api"
      <3>1. flag[n] <=> set[n]
        BY <2>4, <2>6
      <3> QED
        BY <1>2, <2>2, <2>3, <2>6, <3>1 DEF Sets
    <2>7. CASE yaml.kind[n] = "and"
      <3>1. flag[n] <=> set[n] \/ \A m \in yaml.children[n] : flag[m]
        BY <2>4, <2>7
      <3> QED
        BY <1>2, <2>2, <2>3, <2>7, <3>1 DEF Sets
    <2>8. CASE yaml.kind[n] = "or"
      <3>1. flag[n] <=> set[n] \/ \E m \in yaml.children[n] : flag[m]
        BY <2>4, <2>8
      <3> QED
        BY <1>2, <2>2, <2>3, <2>8, <3>1 DEF Sets
    <2> QED
      BY <2>5, <2>6, <2>7, <2>8
  <1> QED
    BY <1>3, <1>6, <1>7

\* A flag that is set is set because the calls so far make its node true ...
LEMMA FlagsAfterAreTrue ==
  ASSUME TypeOK, PlaceOK, MissedIsRefused, FlagsAreTrue, FinishFeature
  PROVE  \A n \in TreeOf(feature) : triggered'[n] => True(MatchedBy(cur, call))[n]
  <1> DEFINE now == MatchedBy(cur, call)
             Bad == {n \in TreeOf(feature) : triggered'[n] /\ ~True(now)[n]}
  <1>1. yaml.roots[feature] \in Node
    BY SpecFields DEF TypeOK, Features
  <1>2. \A n \in TreeOf(feature) : n \in Node /\ yaml.children[n] \subseteq TreeOf(feature)
    BY <1>1, TreeOfNodes DEF TypeOK, TreeOf, Below
  <1>3. /\ Searching /\ call \in Nat \ {0} /\ yaml \in Specs
        /\ feature \in Features /\ Through(feature) = call - 1
    BY SpecFields DEF FinishFeature, AtCall, Searching, TypeOK, Through, Features
  <1>4. ASSUME NEW n \in Bad, \A m \in yaml.children[n] : m \notin Bad PROVE FALSE
    <2>1. n \in Node /\ n \in TreeOf(feature) /\ yaml.children[n] \subseteq TreeOf(feature)
      BY <1>2
    <2>2. CASE triggered[n]
      <3>1. Truth(feature)[n]
        BY <1>3, <2>1, <2>2 DEF FlagsAreTrue
      <3>3. MatchedBy(cur, call - 1) \subseteq now
        BY <1>3, MatchedByGrows
      <3>4. True(MatchedBy(cur, call - 1))[n]
        BY <1>3, <3>1 DEF Truth
      <3>5. True(now)[n]
        BY <1>3, <2>1, <3>3, <3>4, TrueMonotone
      <3> QED
        BY <3>5
    <2>3. CASE Matches(cur, call, feature, n)
      <3>1. yaml.kind[n] = "api"
        BY <2>1, <2>3, SetIsMatched
      <3>2. n \in now
        BY <1>3, <2>3, MatchedByDef
      <3>3. True(now)[n]
        BY <1>3, <2>1, <3>1, <3>2, TrueCases
      <3> QED
        BY <3>3
    <2>4. CASE yaml.kind[n] = "and" /\ \A m \in yaml.children[n] : triggered'[m]
      <3>1. \A m \in yaml.children[n] : True(now)[m]
        BY <1>4, <2>1, <2>4
      <3>2. True(now)[n]
        BY <1>3, <2>1, <2>4, <3>1, TrueCases
      <3> QED
        BY <3>2
    <2>5. CASE yaml.kind[n] = "or" /\ \E m \in yaml.children[n] : triggered'[m]
      <3>1. \E m \in yaml.children[n] : True(now)[m]
        BY <1>4, <2>1, <2>5
      <3>2. True(now)[n]
        BY <1>3, <2>1, <2>5, <3>1, TrueCases
      <3> QED
        BY <3>2
    <2> QED
      BY <2>1, <2>2, <2>3, <2>4, <2>5, FlagsAfter DEF Sets
  <1>5. Bad \in SUBSET Node
    BY <1>2
  <1>6. Bad = {}
    BY <1>3, <1>4, <1>5, LowestNode
  <1> QED
    BY <1>6

\* ... and every node they make true has its flag set.
LEMMA TrueIsFlaggedAfter ==
  ASSUME TypeOK, PlaceOK, MissedIsRefused, TrueIsFlagged, FinishFeature
  PROVE  \A n \in TreeOf(feature) : True(MatchedBy(cur, call))[n] => triggered'[n]
  <1> DEFINE now == MatchedBy(cur, call)
             Bad == {n \in TreeOf(feature) : True(now)[n] /\ ~triggered'[n]}
  <1>1. yaml.roots[feature] \in Node
    BY SpecFields DEF TypeOK, Features
  <1>2. \A n \in TreeOf(feature) : n \in Node /\ yaml.children[n] \subseteq TreeOf(feature)
    BY <1>1, TreeOfNodes DEF TypeOK, TreeOf, Below
  <1>3. /\ Searching /\ call \in Nat \ {0} /\ call <= Len(prog) /\ yaml \in Specs
        /\ feature \in Features /\ Through(feature) = call - 1
    BY SpecFields DEF FinishFeature, AtCall, Searching, TypeOK, Through, Features
  <1>4. ASSUME NEW n \in Bad, \A m \in yaml.children[n] : m \notin Bad PROVE FALSE
    <2>1. n \in Node /\ n \in TreeOf(feature) /\ yaml.children[n] \subseteq TreeOf(feature)
      BY <1>2
    <2>2. CASE yaml.kind[n] = "api"
      <3>1. n \in now
        BY <1>3, <2>1, <2>2, TrueCases
      <3>2. PICK k \in 1 .. call, f \in Features : Matches(cur, k, f, n)
        BY <3>1, MatchedByDef
      <3>3. k \in DOMAIN prog
        BY <1>3, CallFields DEF TypeOK
      <3>4. n \in TreeOf(f)
        BY <3>2, <3>3, CallFields DEF TypeOK, Matches, TreeOf
      <3>5. f = feature
        BY <1>3, <2>1, <3>4, SpecsAssumption DEF TreeOf, Below, Features
      <3>6. CASE k = call
        <4>1. Matches(cur, call, feature, n)
          BY <3>2, <3>5, <3>6
        <4> QED
          BY <2>1, <4>1, FlagsAfter DEF Sets
      <3>7. CASE k < call
        <4>1. n \in MatchedBy(cur, call - 1)
          BY <1>3, <3>2, <3>7, MatchedByDef
        <4>2. True(MatchedBy(cur, call - 1))[n]
          BY <1>3, <2>1, <2>2, <4>1, TrueCases
        <4>4. triggered[n]
          BY <1>3, <2>1, <4>2 DEF TrueIsFlagged, Truth
        <4> QED
          BY <2>1, <4>4, FlagsAfter DEF Sets
      <3> QED
        BY <1>3, <3>6, <3>7
    <2>3. CASE yaml.kind[n] = "and"
      <3>1. \A m \in yaml.children[n] : True(now)[m]
        BY <1>3, <2>1, <2>3, TrueCases
      <3>2. \A m \in yaml.children[n] : triggered'[m]
        BY <1>4, <2>1, <3>1
      <3> QED
        BY <2>1, <2>3, <3>2, FlagsAfter DEF Sets
    <2>4. CASE yaml.kind[n] = "or"
      <3>1. \E m \in yaml.children[n] : True(now)[m]
        BY <1>3, <2>1, <2>4, TrueCases
      <3>2. \E m \in yaml.children[n] : triggered'[m]
        BY <1>4, <2>1, <3>1
      <3> QED
        BY <2>1, <2>4, <3>2, FlagsAfter DEF Sets
    <2> QED
      BY <1>3, <2>1, <2>2, <2>3, <2>4, TrueCases
  <1>5. Bad \in SUBSET Node
    BY <1>2
  <1>6. Bad = {}
    BY <1>3, <1>4, <1>5, LowestNode
  <1> QED
    BY <1>6

----------------------------------------------------------------------------
(* The flags of a run. *)

\* No step but FinishFeature and BeginRun changes a flag or what it should be.
LEMMA OtherSteps ==
  ASSUME TypeOK, PlaceOK, [Next]_vars, ~FinishFeature, \A class \in open : ~BeginRun(class), Searching'
  PROVE  /\ Searching /\ triggered' = triggered
         /\ \A f \in Features : Truth(f)' = Truth(f)
  <1>1. yaml' = yaml /\ prog' = prog
    BY Frozen DEF vars
  <1>2. CASE Branch
    <2>1. /\ Searching /\ triggered' = triggered /\ check = 0 /\ feature' = feature /\ cur' = cur
          /\ call <= Len(prog) /\ feature = 1
      BY <1>2 DEF Branch, AtCall, Searching, PlaceOK
    <2>2. CASE Arrives
      BY <1>1, <1>2, <2>1, <2>2, TruthKept DEF Branch
    <2>3. CASE ~Arrives
      <3>1. call' = call + 1 /\ call \in Nat \ {0}
        BY <1>2, <2>3 DEF Branch, TypeOK
      <3>2. MatchedBy(cur, call) = MatchedBy(cur, call - 1)
        <4>1. ASSUME NEW a, a \in MatchedBy(cur, call) PROVE a \in MatchedBy(cur, call - 1)
          <5>1. PICK k \in 1 .. call, f \in Features : Matches(cur, k, f, a)
            BY <4>1, MatchedByDef
          <5>2. k # call
            BY <2>3, <5>1 DEF Matches, Arrives
          <5>3. k \in 1 .. (call - 1)
            BY <3>1, <5>2
          <5> QED
            BY <5>1, <5>3, MatchedByDef
        <4>2. \A a : a \in MatchedBy(cur, call - 1) => a \in MatchedBy(cur, call)
          BY <3>1, MatchedByGrows
        <4> QED
          BY <4>1, <4>2
      <3>3. ASSUME NEW f \in Features PROVE Through(f) = call - 1 /\ Through(f)' = call
        BY <2>1, <3>1, SpecFields DEF Through, TypeOK, Features
      <3>4. ASSUME NEW f \in Features PROVE Truth(f)' = Truth(f)
        <4>1. Truth(f)' = True(MatchedBy(cur, call))
          BY <1>1, <2>1, <3>3, MeaningFrozen DEF Truth
        <4> QED
          BY <3>2, <3>3, <4>1 DEF Truth
      <3> QED
        BY <2>1, <3>4
    <2> QED
      BY <2>2, <2>3
  <1>3. CASE CheckHolds \/ CheckFails \/ UNCHANGED vars
    <2>1. /\ Searching /\ triggered' = triggered
          /\ cur' = cur /\ call' = call /\ feature' = feature
      BY <1>3 DEF CheckHolds, CheckFails, AtCheck, AtCall, Searching, vars, place, searchVars
    <2> QED
      BY <1>1, <2>1, TruthKept
  <1>4. CASE DepthExceeded \/ EndRun
    BY <1>4 DEF DepthExceeded, EndRun, Search!Close, Searching
  <1> QED
    BY <1>2, <1>3, <1>4 DEF Next, SearchStep, Terminated

\* FinishFeature, when it does not end the search, brings its feature up to this call.
LEMMA FinishStep ==
  ASSUME TypeOK, PlaceOK, MissedIsRefused, FinishFeature, Searching'
  PROVE  /\ Searching
         /\ \A f \in Features :
              /\ f # feature => /\ Truth(f)' = Truth(f)
                                /\ \A n \in TreeOf(f) : triggered'[n] = triggered[n]
              /\ f = feature => Truth(f)' = True(MatchedBy(cur, call))
         /\ ~triggered'[yaml.roots[feature]]
  <1>1. yaml' = yaml /\ prog' = prog /\ cur' = cur /\ Searching
    BY DEF FinishFeature, AtCall, Searching
  <1>2. ~triggered'[yaml.roots[feature]]
    BY DEF FinishFeature, Searching
  <1>3. Features = 1 .. Len(yaml.roots) /\ Len(yaml.roots) \in Nat /\ feature \in Features
        /\ call \in Nat
    BY SpecFields DEF Features, TypeOK
  <1>4. ASSUME NEW f \in Features
        PROVE  Through(f)' = IF f = feature THEN call ELSE Through(f)
    <2>1. CASE LastFeature
      <3>1. feature' = 1 /\ call' = call + 1
        BY <1>2, <2>1 DEF FinishFeature
      <3> QED
        BY <1>3, <2>1, <3>1 DEF Through, LastFeature
    <2>2. CASE ~LastFeature
      <3>1. feature' = feature + 1 /\ call' = call
        BY <1>2, <2>2 DEF FinishFeature
      <3> QED
        BY <1>3, <3>1 DEF Through
    <2> QED
      BY <2>1, <2>2
  <1>5. ASSUME NEW f \in Features, f # feature
        PROVE  /\ Truth(f)' = Truth(f)
               /\ \A n \in TreeOf(f) : triggered'[n] = triggered[n]
    <2>1. Truth(f)' = Truth(f)
      BY <1>1, <1>4, <1>5, MeaningFrozen DEF Truth
    <2>2. TreeOf(f) \subseteq Node
      BY TreeOfNodes, SpecFields DEF TypeOK, TreeOf, Below, Features
    <2>3. TreeOf(f) \cap TreeOf(feature) = {}
      BY <1>3, <1>5, SpecsAssumption DEF TypeOK, TreeOf, Below, Features
    <2> QED
      BY <2>1, <2>2, <2>3, FlagsAfter
  <1>6. ASSUME NEW f \in Features, f = feature PROVE Truth(f)' = True(MatchedBy(cur, call))
    BY <1>6, <1>1, <1>3, <1>4, MeaningFrozen DEF Truth
  <1> QED
    BY <1>1, <1>2, <1>5, <1>6

\* BeginRun resets every flag of every tree.
LEMMA BeginStep ==
  ASSUME TypeOK, NEW class \in open, BeginRun(class)
  PROVE  \A f \in Features : \A n \in TreeOf(f) :
           /\ n \in Node /\ ~triggered'[n]
           /\ Truth(f)' = True({})
  <1>1. yaml' = yaml /\ prog' = prog /\ call' = 1 /\ feature' = 1
    BY DEF BeginRun
  <1>2. ASSUME NEW f \in Features PROVE Truth(f)' = True({})
    <2>1. Through(f)' = 0
      BY <1>1, SpecFields DEF Through, Features, TypeOK
    <2>2. Truth(f)' = True(MatchedBy(cur', 0))
      BY <1>1, <2>1, MeaningFrozen DEF Truth
    <2> QED
      BY <2>2, MatchedByGrows
  <1>3. ASSUME NEW f \in Features, NEW n \in TreeOf(f) PROVE n \in Node /\ ~triggered'[n]
    <2>1. n \in Node
      BY TreeOfNodes, SpecFields DEF TypeOK, TreeOf, Below, Features
    <2>2. n \in ResetNodes
      BY DEF ResetNodes, TreeOf
    <2> QED
      BY <2>1, <2>2 DEF BeginRun
  <1> QED
    BY <1>2, <1>3

\* A root is in its tree.
LEMMA RootInTree ==
  ASSUME TypeOK, NEW f \in Features
  PROVE  yaml.roots[f] \in Node /\ yaml.roots[f] \in TreeOf(f)
  BY TreeOfNodes, SpecFields DEF TypeOK, TreeOf, Below, Features

LEMMA FlagsKept ==
  TypeOK /\ PlaceOK /\ MissedIsRefused /\ FlagsAreTrue /\ NoRootFlagged /\ [Next]_vars
    => FlagsAreTrue' /\ NoRootFlagged'
  <1> SUFFICES ASSUME TypeOK, PlaceOK, MissedIsRefused, FlagsAreTrue, NoRootFlagged, [Next]_vars,
                      Searching'
               PROVE  FlagsAreTrue' /\ NoRootFlagged'
    BY DEF FlagsAreTrue, NoRootFlagged
  <1>0. yaml' = yaml /\ Features' = Features /\ \A f : TreeOf(f)' = TreeOf(f)
    BY Frozen, MeaningFrozen DEF vars, TreeOf
  <1> SUFFICES \A f \in Features :
                 /\ \A n \in TreeOf(f) : triggered'[n] => Truth(f)'[n]
                 /\ ~triggered'[yaml.roots[f]]
    BY <1>0 DEF FlagsAreTrue, NoRootFlagged
  <1> SUFFICES ASSUME NEW f \in Features
               PROVE  /\ \A n \in TreeOf(f) : triggered'[n] => Truth(f)'[n]
                      /\ ~triggered'[yaml.roots[f]]
    OBVIOUS
  <1>1. ASSUME NEW class \in open, BeginRun(class)
        PROVE  /\ \A n \in TreeOf(f) : triggered'[n] => Truth(f)'[n]
               /\ ~triggered'[yaml.roots[f]]
    BY <1>1, BeginStep, RootInTree
  <1>2. CASE FinishFeature
    <2>1. CASE f = feature
      BY <1>2, <2>1, FinishStep, FlagsAfterAreTrue
    <2>2. CASE f # feature
      <3>1. /\ Searching /\ Truth(f)' = Truth(f)
            /\ \A n \in TreeOf(f) : triggered'[n] = triggered[n]
        BY <1>2, <2>2, FinishStep
      <3> QED
        BY <3>1, RootInTree DEF FlagsAreTrue, NoRootFlagged
    <2> QED
      BY <2>1, <2>2
  <1>3. CASE ~FinishFeature /\ \A class \in open : ~BeginRun(class)
    <2>1. Searching /\ triggered' = triggered /\ Truth(f)' = Truth(f)
      BY <1>3, OtherSteps
    <2> QED
      BY <2>1 DEF FlagsAreTrue, NoRootFlagged
  <1> QED
    BY <1>1, <1>2, <1>3

\* A conjunction has conjuncts.  get_rule reads whatever the file lists; an empty
\* `and' would be true before the first call, where nothing looks at it.
ConjunctionsHaveParts ==
  \A spec \in Specs : \A n \in Node : spec.kind[n] = "and" => spec.children[n] # {}

\* Then nothing is true of a run without calls.
LEMMA NothingTrue ==
  ASSUME yaml \in Specs, ConjunctionsHaveParts, NEW n \in Node
  PROVE  ~True({})[n]
  <1> DEFINE Bad == {x \in Node : True({})[x]}
  <1>1. ASSUME NEW x \in Bad, \A m \in yaml.children[x] : m \notin Bad PROVE FALSE
    BY <1>1, TrueCases DEF ConjunctionsHaveParts
  <1>2. Bad = {}
    BY <1>1, LowestNode
  <1> QED
    BY <1>2

LEMMA TrueIsFlaggedKept ==
  ASSUME ConjunctionsHaveParts
  PROVE  TypeOK /\ PlaceOK /\ MissedIsRefused /\ TrueIsFlagged /\ [Next]_vars => TrueIsFlagged'
  <1> SUFFICES ASSUME TypeOK, PlaceOK, MissedIsRefused, TrueIsFlagged, [Next]_vars, Searching'
               PROVE  TrueIsFlagged'
    BY DEF TrueIsFlagged
  <1>0. Features' = Features /\ \A f : TreeOf(f)' = TreeOf(f)
    BY Frozen, MeaningFrozen DEF vars, TreeOf
  <1> SUFFICES \A f \in Features : \A n \in TreeOf(f) : Truth(f)'[n] => triggered'[n]
    BY <1>0 DEF TrueIsFlagged
  <1> SUFFICES ASSUME NEW f \in Features
               PROVE  \A n \in TreeOf(f) : Truth(f)'[n] => triggered'[n]
    OBVIOUS
  <1>1. ASSUME NEW class \in open, BeginRun(class)
        PROVE  \A n \in TreeOf(f) : Truth(f)'[n] => triggered'[n]
    BY <1>1, BeginStep, NothingTrue DEF TypeOK
  <1>2. CASE FinishFeature
    <2>1. CASE f = feature
      BY <1>2, <2>1, FinishStep, TrueIsFlaggedAfter
    <2>2. CASE f # feature
      BY <1>2, <2>2, FinishStep DEF TrueIsFlagged
    <2> QED
      BY <2>1, <2>2
  <1>3. CASE ~FinishFeature /\ \A class \in open : ~BeginRun(class)
    <2>1. Searching /\ triggered' = triggered /\ Truth(f)' = Truth(f)
      BY <1>3, OtherSteps
    <2> QED
      BY <2>1 DEF TrueIsFlagged
  <1> QED
    BY <1>1, <1>2, <1>3

----------------------------------------------------------------------------
(* A reported input is a match. *)

LEMMA TriggersFrozen ==
  ASSUME yaml' = yaml, prog' = prog
  PROVE  \A i, n : Triggers(i, n)' <=> Triggers(i, n)
  BY MeaningFrozen DEF Triggers

LEMMA MatchKept ==
  TypeOK /\ PlaceOK /\ MissedIsRefused /\ FlagsAreTrue /\ MatchIsReal /\ [Next]_vars => MatchIsReal'
  <1> SUFFICES ASSUME TypeOK, PlaceOK, MissedIsRefused, FlagsAreTrue, MatchIsReal, [Next]_vars
               PROVE  MatchIsReal'
    OBVIOUS
  <1>0. yaml' = yaml /\ prog' = prog
    BY Frozen DEF vars
  <1>1. CASE FinishFeature /\ triggered'[yaml.roots[feature]]
    <2>1. found' = {cur} /\ cur' = cur /\ call' = call
      BY <1>1 DEF FinishFeature, place
    <2>2. True(MatchedBy(cur, call))[yaml.roots[feature]]
      BY <1>1, FlagsAfterAreTrue, RootInTree DEF TypeOK
    <2>3. Triggers(cur, call)
      BY <2>2 DEF Triggers, TypeOK
    <2>4. Triggers(cur, call)'
      BY <1>0, <2>1, <2>3, TriggersFrozen
    <2> QED
      BY <2>1, <2>4 DEF MatchIsReal
  <1>2. CASE UNCHANGED vars
    BY <1>0, <1>2, TriggersFrozen DEF MatchIsReal, vars, place
  <1>3. CASE /\ ~UNCHANGED vars
             /\ ~(FinishFeature /\ triggered'[yaml.roots[feature]])
    <2>1. found' = {}
      BY <1>3 DEF Next, SearchStep, Terminated, BeginRun, Branch, CheckHolds, CheckFails, DepthExceeded,
           FinishFeature, EndRun, AtCheck, AtCall
    <2> QED
      BY <2>1 DEF MatchIsReal
  <1> QED
    BY <1>1, <1>2, <1>3

Sound == TypeOK /\ PlaceOK /\ MissedIsRefused /\ FlagsAreTrue /\ NoRootFlagged /\ MatchIsReal

LEMMA InitSound == Init => Sound
  <1> SUFFICES ASSUME Init PROVE Sound
    OBVIOUS
  <1>1. 1 \in Features
    BY SpecFields DEF Init, Features
  <1>2. Len(prog) \in Nat
    BY CallFields DEF Init
  <1>3. TypeOK
    <2>1. open \subseteq SUBSET Input /\ closed \subseteq SUBSET Input /\ active \subseteq Input
      BY DEF Init, Search!Init
    <2>2. triggered \in [Node -> BOOLEAN] /\ running \in BOOLEAN
      BY DEF Init, Search!Init
    <2> QED
      BY <1>1, <2>1, <2>2 DEF Init, TypeOK
  <1> QED
    BY <1>2, <1>3 DEF Init, Sound, PlaceOK, MissedIsRefused, FlagsAreTrue, NoRootFlagged, MatchIsReal,
         Searching, Search!Init

LEMMA SoundKept == Sound /\ [Next]_vars => Sound'
  BY TypesKept, MissedKept, FlagsKept, MatchKept DEF Sound

LEMMA SoundAlways == Spec => []Sound
  BY InitSound, SoundKept, PTL DEF Spec

\* The input a search reports triggers a feature by the calls of its own run: no flag is
\* left from an earlier run or an earlier call it does not make, and every flag set on
\* the way up the tree is earned.
THEOREM ReportedInputTriggers == Spec => []MatchIsReal
  <1>1. Sound => MatchIsReal
    BY DEF Sound
  <1> QED
    BY <1>1, SoundAlways, PTL

----------------------------------------------------------------------------
(* A match is reported at once. *)

Prompt == Sound /\ TrueIsFlagged

LEMMA PromptIsReported == Prompt => ReportedPromptly
  <1> SUFFICES ASSUME Prompt, Searching, NEW f \in Features,
                      True(MatchedBy(cur, call - 1))[yaml.roots[f]]
               PROVE  FALSE
    BY DEF ReportedPromptly, Triggers, Searching
  <1>1. call \in Nat /\ yaml \in Specs
    BY DEF Prompt, Sound, TypeOK
  <1>2. Through(f) \in Int /\ call - 1 <= Through(f)
    BY <1>1 DEF Through
  <1>3. yaml.roots[f] \in Node /\ yaml.roots[f] \in TreeOf(f)
    BY RootInTree DEF Prompt, Sound
  <1>4. Truth(f)[yaml.roots[f]]
    <2>1. MatchedBy(cur, call - 1) \subseteq MatchedBy(cur, Through(f))
      BY <1>1, <1>2, MatchedByGrows
    <2> QED
      BY <1>1, <1>3, <2>1, TrueMonotone DEF Truth
  <1> QED
    BY <1>3, <1>4 DEF Prompt, Sound, TrueIsFlagged, NoRootFlagged

LEMMA PromptAlways == ConjunctionsHaveParts => (Spec => []Prompt)
  <1> SUFFICES ASSUME ConjunctionsHaveParts PROVE Spec => []Prompt
    OBVIOUS
  <1>1. Init => Prompt
    BY InitSound DEF Prompt, TrueIsFlagged, Searching, Init, Search!Init
  <1>2. Prompt /\ [Next]_vars => Prompt'
    BY SoundKept, TrueIsFlaggedKept DEF Prompt, Sound
  <1> QED
    BY <1>1, <1>2, PTL DEF Spec

\* A run does not go past the call that completes a feature: what its calls make true is
\* flagged when the next feature, or the next call, is looked at.
THEOREM MatchesAreReportedPromptly == ConjunctionsHaveParts => (Spec => []ReportedPromptly)
  BY PromptAlways, PromptIsReported, PTL

----------------------------------------------------------------------------
(* Nothing is missed. *)

LEMMA ClassKept ==
  TypeOK /\ PlaceOK /\ ClassMatchesNoMore /\ [Next]_vars => ClassMatchesNoMore'
  <1> DEFINE SameCalls(i, k) == i \in prog[k].when <=> cur \in prog[k].when
             Holds(k, f, c) == prog[k].compare[f].checks[c].holds
  <1> SUFFICES ASSUME TypeOK, PlaceOK, ClassMatchesNoMore, [Next]_vars, Searching'
               PROVE  ClassMatchesNoMore'
    BY DEF ClassMatchesNoMore
  <1>0. /\ yaml' = yaml /\ prog' = prog /\ Features' = Features
        /\ call \in Nat \ {0} /\ feature \in Nat \ {0} /\ check \in Nat
        /\ DOMAIN prog = 1 .. Len(prog) /\ Len(prog) \in Nat
        /\ Features \subseteq Nat \ {0}
    BY Frozen, MeaningFrozen, CallFields, SpecFields DEF vars, TypeOK, Features
  <1>1. ASSUME NEW k \in DOMAIN prog, NEW f \in Features, NEW c \in DOMAIN prog[k].compare[f].checks
        PROVE  k \in Nat \ {0} /\ f \in Nat \ {0} /\ c \in Nat \ {0}
    BY <1>0, CallFields DEF TypeOK
  <1>2. ASSUME NEW class \in open, BeginRun(class) PROVE ClassMatchesNoMore'
    <2>1. cur' \in active' /\ call' = 1 /\ feature' = 1 /\ check' = 0
      BY <1>2 DEF BeginRun, Search!Begin
    <2>2. ASSUME NEW k \in DOMAIN prog, NEW f \in Features, NEW c \in DOMAIN prog[k].compare[f].checks
          PROVE  ~Compared(k, f, c)'
      BY <1>1, <2>1 DEF Compared
    <2>3. ASSUME NEW k \in DOMAIN prog PROVE ~(k < call') /\ ~(check' > 0)
      BY <1>0, <2>1
    <2> QED
      BY <1>0, <2>1, <2>2, <2>3 DEF ClassMatchesNoMore
  <1>3. CASE CheckHolds \/ CheckFails
    <2>1. /\ cur' = cur /\ call' = call /\ feature' = feature /\ check' = check + 1 /\ Searching
          /\ check \in DOMAIN Comparing.checks /\ Condition = Holds(call, feature, check)
          /\ call \in DOMAIN prog /\ check > 0
      <3>1. call <= Len(prog) /\ check \in DOMAIN Comparing.checks
        BY <1>3 DEF CheckHolds, CheckFails, AtCheck, AtCall
      <3>2. check > 0 /\ call \in DOMAIN prog
        BY <1>0, <3>1, AtComparison
      <3> QED
        BY <1>3, <3>1, <3>2
           DEF CheckHolds, CheckFails, AtCheck, AtCall, NextCheck, Searching, Condition, Comparing
    <2>2. active' \subseteq active /\ cur \in active'
      BY <1>3, <2>1, RecordCuts
         DEF CheckHolds, CheckFails, NearMiss, ClassMatchesNoMore, searchVars
    <2>3. \A i \in active' : i \in Condition => cur \in Condition
      BY <1>3, <2>2, RecordCuts DEF CheckHolds, CheckFails, NearMiss, searchVars
    <2>4. ASSUME NEW i \in active', NEW k \in DOMAIN prog, k < call \/ (k = call /\ check' > 0)
          PROVE  SameCalls(i, k)
      BY <2>1, <2>2, <2>4 DEF ClassMatchesNoMore
    <2>5. ASSUME NEW i \in active', NEW k \in DOMAIN prog, NEW f \in Features,
                 NEW c \in DOMAIN prog[k].compare[f].checks,
                 Compared(k, f, c)', cur \in prog[k].when, i \in Holds(k, f, c)
          PROVE  cur \in Holds(k, f, c)
      <3>1. Compared(k, f, c) \/ (k = call /\ f = feature /\ c = check)
        BY <1>0, <1>1, <2>1, <2>5 DEF Compared
      <3>2. CASE Compared(k, f, c)
        BY <2>1, <2>2, <2>5, <3>2 DEF ClassMatchesNoMore
      <3>3. CASE k = call /\ f = feature /\ c = check
        BY <2>1, <2>3, <2>5, <3>3
      <3> QED
        BY <3>1, <3>2, <3>3
    <2> QED
      BY <1>0, <2>1, <2>2, <2>4, <2>5 DEF ClassMatchesNoMore
  <1>4. CASE Branch
    <2> DEFINE away == {i \in active : (i \in prog[call].when) # Arrives}
    <2>1. /\ cur' = cur /\ Searching /\ check = 0 /\ feature = 1 /\ feature' = 1
          /\ call \in DOMAIN prog
          /\ \/ Arrives /\ call' = call /\ check' = 1
             \/ ~Arrives /\ call' = call + 1 /\ check' = 0
      BY <1>0, <1>4 DEF Branch, AtCall, Searching, PlaceOK
    <2>2. /\ active' \subseteq active /\ cur \in active'
          /\ \A i \in active' : SameCalls(i, call)
      <3>1. cur \in active
        BY <2>1 DEF ClassMatchesNoMore
      <3>2. CASE Guarded
        <4>1. active' = active \ away
          BY <1>4, <3>2, RecordCuts DEF Branch
        <4>2. \A i \in active : i \in away <=> ~(i \in prog[call].when <=> Arrives)
          BY DEF Arrives
        <4> QED
          BY <3>1, <4>1, <4>2 DEF Arrives
      <3>3. CASE ~Guarded
        <4>1. active' = active /\ prog[call].when = Input
          BY <1>4, <3>3 DEF Branch, searchVars, Guarded
        <4> QED
          BY <3>1, <4>1 DEF TypeOK
      <3> QED
        BY <3>2, <3>3
    <2>3. ASSUME NEW i \in active', NEW k \in DOMAIN prog, k < call' \/ (k = call' /\ check' > 0)
          PROVE  SameCalls(i, k)
      <3>1. k < call \/ k = call
        BY <1>0, <2>1, <2>3
      <3> QED
        BY <2>1, <2>2, <3>1 DEF ClassMatchesNoMore
    <2>4. ASSUME NEW i \in active', NEW k \in DOMAIN prog, NEW f \in Features,
                 NEW c \in DOMAIN prog[k].compare[f].checks,
                 Compared(k, f, c)', cur \in prog[k].when, i \in Holds(k, f, c)
          PROVE  cur \in Holds(k, f, c)
      <3>1. k < call \/ (k = call /\ ~Arrives)
        BY <1>0, <1>1, <2>1, <2>4 DEF Compared
      <3>2. Compared(k, f, c)
        BY <2>4, <3>1 DEF Compared, Arrives
      <3> QED
        BY <2>1, <2>2, <2>4, <3>2 DEF ClassMatchesNoMore
    <2> QED
      BY <1>0, <2>1, <2>2, <2>3, <2>4 DEF ClassMatchesNoMore
  <1>5. CASE FinishFeature
    <2>1. /\ cur' = cur /\ active' = active /\ Searching /\ call \in DOMAIN prog
          /\ check > Len(Comparing.checks) /\ found' = {}
      BY <1>0, <1>5 DEF FinishFeature, AtCall, Searching, searchVars
    <2>2. check > 0 /\ \A c \in DOMAIN prog[call].compare[feature].checks : c < check
      BY <1>0, <2>1, AtComparison DEF Comparing
    <2>3. \/ LastFeature /\ feature' = 1 /\ call' = call + 1 /\ check' = 0
          \/ feature' = feature + 1 /\ call' = call /\ check' = 1
      BY <1>5, <2>1 DEF FinishFeature
    <2>4. ASSUME NEW i \in active', NEW k \in DOMAIN prog, k < call' \/ (k = call' /\ check' > 0)
          PROVE  SameCalls(i, k)
      <3>1. k < call \/ k = call
        BY <1>0, <2>3, <2>4
      <3> QED
        BY <2>1, <2>2, <3>1 DEF ClassMatchesNoMore
    <2>5. ASSUME NEW i \in active', NEW k \in DOMAIN prog, NEW f \in Features,
                 NEW c \in DOMAIN prog[k].compare[f].checks,
                 Compared(k, f, c)', cur \in prog[k].when, i \in Holds(k, f, c)
          PROVE  cur \in Holds(k, f, c)
      <3>1. k < call \/ (k = call /\ f <= feature)
        <4>1. CASE LastFeature /\ feature' = 1 /\ call' = call + 1 /\ check' = 0
          <5>1. f <= feature
            BY <4>1, SpecFields DEF TypeOK, LastFeature, Features
          <5> QED
            BY <1>0, <1>1, <2>5, <4>1, <5>1 DEF Compared
        <4>2. CASE feature' = feature + 1 /\ call' = call /\ check' = 1
          BY <1>0, <1>1, <2>5, <4>2 DEF Compared
        <4> QED
          BY <2>3, <4>1, <4>2
      <3>2. Compared(k, f, c)
        <4>1. CASE k = call /\ f = feature
          BY <2>2, <4>1 DEF Compared
        <4> QED
          BY <1>0, <1>1, <3>1, <4>1 DEF Compared
      <3> QED
        BY <2>1, <2>5, <3>2 DEF ClassMatchesNoMore
    <2> QED
      BY <1>0, <2>1, <2>4, <2>5 DEF ClassMatchesNoMore
  <1>6. CASE DepthExceeded \/ EndRun
    BY <1>6 DEF DepthExceeded, EndRun, Search!Close, Searching
  <1>7. CASE UNCHANGED vars
    BY <1>7 DEF ClassMatchesNoMore, Compared, Searching, Features, vars, place, searchVars
  <1> QED
    BY <1>2, <1>3, <1>4, <1>5, <1>6, <1>7 DEF Next, SearchStep, Terminated

LEMMA ActiveKept == ActiveIsRunning /\ [Next]_vars => ActiveIsRunning'
  <1> SUFFICES ASSUME ActiveIsRunning, [Next]_vars, ~running' PROVE active' = {}
    BY DEF ActiveIsRunning
  <1> QED
    BY DEF ActiveIsRunning, Next, SearchStep, Terminated, BeginRun, Branch, CheckHolds, CheckFails,
       DepthExceeded, FinishFeature, EndRun, AtCheck, AtCall, Record, Search!Begin, Search!Close,
       Search!Split, Search!Narrow, vars, searchVars

\* Every step leaves every input in a class, or loses it to the solver.
LEMMA InputsKept ==
  EveryInputInAClass /\ ActiveIsRunning /\ [Next]_vars => EveryInputInAClass'
  <1> DEFINE Placed(i) == i \in lost \/ i \in active \/ \E C \in open \cup closed : i \in C
  <1> SUFFICES ASSUME EveryInputInAClass, ActiveIsRunning, [Next]_vars, found' = {}, NEW i \in Input
               PROVE  Placed(i)'
    BY DEF EveryInputInAClass
  <1>1. found = {}
    BY DEF Next, SearchStep, Terminated, BeginRun, Branch, CheckHolds, CheckFails, DepthExceeded,
       FinishFeature, EndRun, AtCheck, AtCall, vars
  <1>2. Placed(i)
    BY <1>1 DEF EveryInputInAClass
  <1>3. ASSUME NEW away, Record(away) PROVE Placed(i)'
    BY <1>2, <1>3, RecordCuts
  <1>4. CASE UNCHANGED <<searchVars, lost>>
    BY <1>2, <1>4 DEF searchVars
  <1>5. CASE Search!Close /\ UNCHANGED lost
    BY <1>2, <1>5 DEF Search!Close
  <1>6. ASSUME NEW class \in open, BeginRun(class) PROVE Placed(i)'
    <2>1. i \notin active
      BY <1>6 DEF ActiveIsRunning, BeginRun, Search!Begin
    <2> QED
      BY <1>2, <1>6, <2>1 DEF BeginRun, Search!Begin
  <1>7. CASE Branch
    <2>1. CASE Guarded
      BY <1>3, <1>7, <2>1 DEF Branch
    <2>2. CASE ~Guarded
      BY <1>4, <1>7, <2>2 DEF Branch
    <2> QED
      BY <2>1, <2>2
  <1>8. CASE CheckFails
    BY <1>3, <1>8 DEF CheckFails
  <1>9. CASE CheckHolds \/ FinishFeature \/ UNCHANGED vars
    BY <1>4, <1>9 DEF CheckHolds, FinishFeature, vars
  <1>10. CASE DepthExceeded \/ EndRun
    BY <1>5, <1>10 DEF DepthExceeded, EndRun
  <1> QED
    BY <1>6, <1>7, <1>8, <1>9, <1>10 DEF Next, SearchStep, Terminated

\* At the end of a run nothing is true of an input of its class that is not true of the
\* input that was run.
LEMMA ClassTriggersNoMore ==
  ASSUME TypeOK, ClassMatchesNoMore, Searching, call > Len(prog), NEW i \in active,
         Triggers(i, Len(prog))
  PROVE  Triggers(cur, Len(prog))
  <1>1. /\ yaml \in Specs /\ call \in Nat /\ Len(prog) \in Nat
        /\ DOMAIN prog = 1 .. Len(prog)
    BY CallFields DEF TypeOK
  <1>2. MatchedBy(i, Len(prog)) \subseteq MatchedBy(cur, Len(prog))
    <2> SUFFICES ASSUME NEW a \in MatchedBy(i, Len(prog)) PROVE a \in MatchedBy(cur, Len(prog))
      OBVIOUS
    <2>1. PICK k \in 1 .. Len(prog), f \in Features : Matches(i, k, f, a)
      BY MatchedByDef
    <2>2. k \in DOMAIN prog /\ k < call
      BY <1>1
    <2>3. cur \in prog[k].when
      BY <2>1, <2>2 DEF ClassMatchesNoMore, Matches
    <2>4. \A c \in DOMAIN prog[k].compare[f].checks :
            i \in prog[k].compare[f].checks[c].holds => cur \in prog[k].compare[f].checks[c].holds
      BY <2>2, <2>3 DEF ClassMatchesNoMore, Compared
    <2>5. Matches(cur, k, f, a)
      BY <2>1, <2>3, <2>4 DEF Matches, Refuses
    <2> QED
      BY <2>5, MatchedByDef
  <1>3. PICK f \in Features : True(MatchedBy(i, Len(prog)))[yaml.roots[f]]
    BY DEF Triggers
  <1>4. True(MatchedBy(cur, Len(prog)))[yaml.roots[f]]
    BY <1>1, <1>2, <1>3, RootInTree, TrueMonotone
  <1> QED
    BY <1>4 DEF Triggers

LEMMA CleanKept ==
  Prompt /\ ClassMatchesNoMore /\ ClosedIsClean /\ [Next]_vars => ClosedIsClean'
  <1> SUFFICES ASSUME Prompt, ClassMatchesNoMore, ClosedIsClean, [Next]_vars, found' = {}, ~cut',
                      NEW C \in closed', NEW i \in C
               PROVE  ~Triggers(i, Len(prog))'
    BY DEF ClosedIsClean
  <1>1. found = {} /\ ~cut
    BY DEF Next, SearchStep, Terminated, BeginRun, Branch, CheckHolds, CheckFails, DepthExceeded,
       FinishFeature, EndRun, AtCheck, AtCall, vars
  <1>2. yaml' = yaml /\ prog' = prog
    BY Frozen DEF vars
  <1>3. Triggers(i, Len(prog))' <=> Triggers(i, Len(prog))
    BY <1>2, TriggersFrozen
  <1>4. CASE C \in closed
    BY <1>1, <1>3, <1>4 DEF ClosedIsClean
  <1>5. CASE C \notin closed
    <2>1. EndRun
      BY <1>5 DEF Next, SearchStep, Terminated, BeginRun, Branch, CheckHolds, CheckFails, DepthExceeded,
         FinishFeature, AtCheck, AtCall, Record, Search!Begin, Search!Split, Search!Narrow, Search!Close,
         vars, searchVars
    <2>2. Searching /\ call > Len(prog) /\ C = active
      BY <1>5, <2>1 DEF EndRun, Searching, Search!Close
    <2>3. call - 1 = Len(prog)
      BY <2>2, CallFields DEF Prompt, Sound, TypeOK, PlaceOK
    <2>4. ~Triggers(cur, Len(prog))
      BY <2>2, <2>3, PromptIsReported DEF ReportedPromptly, Searching
    <2> QED
      BY <1>3, <2>2, <2>4, ClassTriggersNoMore DEF Prompt, Sound
  <1> QED
    BY <1>4, <1>5

Complete ==
  Prompt /\ ClassMatchesNoMore /\ ClosedIsClean /\ EveryInputInAClass /\ ActiveIsRunning

LEMMA CompleteMissesNothing == Complete => NothingMissed
  <1> SUFFICES ASSUME Complete, Done, found = {}, lost = {}, ~cut, NEW i \in Input
               PROVE  ~Triggers(i, Len(prog))
    BY DEF NothingMissed
  <1>1. active = {} /\ open = {}
    BY DEF Complete, ActiveIsRunning, Done
  <1>2. PICK C \in closed : i \in C
    BY <1>1 DEF Complete, EveryInputInAClass
  <1> QED
    BY <1>2 DEF Complete, ClosedIsClean

\* A search that ends without a match, with no query undecided and no run cut at the depth
\* limit, has run or covered every input: none of them triggers a feature, although no
\* branch is recorded for a condition that holds.
THEOREM NoMatchIsMissed == ConjunctionsHaveParts => (Spec => []NothingMissed)
  <1> SUFFICES ASSUME ConjunctionsHaveParts PROVE Spec => []NothingMissed
    OBVIOUS
  <1>1. Init => Complete
    <2> SUFFICES ASSUME Init PROVE Complete
      OBVIOUS
    <2>1. Prompt
      BY InitSound DEF Prompt, TrueIsFlagged, Searching, Init, Search!Init
    <2> QED
      BY <2>1 DEF Complete, ClassMatchesNoMore, ClosedIsClean, EveryInputInAClass, ActiveIsRunning,
         Searching, Init, Search!Init
  <1>2. Complete /\ [Next]_vars => Complete'
    <2> SUFFICES ASSUME Complete, [Next]_vars PROVE Complete'
      OBVIOUS
    <2>1. Prompt'
      BY SoundKept, TrueIsFlaggedKept DEF Complete, Prompt, Sound
    <2>2. ClassMatchesNoMore' /\ ClosedIsClean' /\ EveryInputInAClass' /\ ActiveIsRunning'
      BY ClassKept, CleanKept, InputsKept, ActiveKept DEF Complete, Prompt, Sound
    <2> QED
      BY <2>1, <2>2 DEF Complete
  <1> QED
    BY <1>1, <1>2, CompleteMissesNothing, PTL DEF Spec

============================================================================
