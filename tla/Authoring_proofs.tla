-------------------------- MODULE Authoring_proofs --------------------------
(***************************************************************************)
(* The allocator's dictionaries stay inverse to each other, for any        *)
(* symbols, hints and profile, and a symbol never changes its address.     *)
(* The checks of a specification alone are right about the chart, for any  *)
(* specification.  An expression means the same as text, as a tree, with   *)
(* its negations at the leaves and as a sum of products, whatever the text *)
(* and however deep the tree.                                              *)
(***************************************************************************)
EXTENDS Allocator, SpecChecks, BoolExpr, NaturalsInduction, WellFoundedInduction, TLAPS

(* OneToOne is inductive together with the types: a claim is made only for *)
(* a symbol without an address, on an address whose owner, if it had one,  *)
(* would be that symbol.                                                   *)
IInv == AllocTypeOK /\ OneToOne

(* A relay is a name, an address in the profile's format an address. *)
LEMMA RelaysAreNames ==
  ASSUME NEW hint \in Hints, NEW n \in 0..MaxIndex
  PROVE  <<"_AUX_", hint, n>> \in Names
  BY DEF Names, Relays

(* Whatever class and direction a request has, its index key is one of the *)
(* letters.                                                                *)
LEMMA KeysAreLetters ==
  ASSUME NEW class, NEW direction
  PROVE  IndexKey(class, direction) \in Letters
  BY DEF IndexKey, RoleOf, Letters, Roles

(* _format of an index in range is an address. *)
LEMMA FormattedAreAddresses ==
  ASSUME NEW key \in Letters, NEW idx \in 0..MaxIndex
  PROVE  FormatAddress(key, idx) \in Addresses
  BY DEF FormatAddress, Addresses

(* _claim for a symbol that has no address yet. *)
LEMMA ClaimKeepsInverse ==
  ASSUME IInv, NEW symbol \in Names, NEW address \in Addresses,
         addrOf[symbol] = None, Claim(symbol, address)
  PROVE  /\ addrOf' \in [Names -> Addresses \cup {None}]
         /\ symOf' \in [Addresses -> Names \cup {None}]
         /\ OneToOne'
         /\ \A s \in Names : addrOf[s] # None => addrOf'[s] = addrOf[s]
<1> USE AllocatorAssumption DEF IInv, AllocTypeOK, OneToOne
<1>1. CASE symOf[address] \notin {None, symbol}
  BY <1>1 DEF Claim
<1>2. CASE symOf[address] \in {None, symbol}
  <2>1. symOf[address] = None
    BY <1>2
  <2>2. /\ addrOf' = [addrOf EXCEPT ![symbol] = address]
        /\ symOf' = [symOf EXCEPT ![address] = symbol]
    BY <1>2 DEF Claim
  <2>3. \A s \in Names : addrOf'[s] # None => symOf'[addrOf'[s]] = s
    <3> SUFFICES ASSUME NEW s \in Names, addrOf'[s] # None
                 PROVE  symOf'[addrOf'[s]] = s
      OBVIOUS
    <3>1. CASE s = symbol
      BY <2>2, <3>1
    <3>2. CASE s # symbol
      <4>1. addrOf'[s] = addrOf[s] /\ addrOf[s] \in Addresses
        BY <2>2, <3>2
      <4>2. symOf[addrOf[s]] = s /\ s # None
        BY <4>1
      <4>3. addrOf[s] # address
        BY <4>2, <2>1
      <4> QED BY <4>1, <4>2, <4>3, <2>2
    <3> QED BY <3>1, <3>2
  <2>4. \A a \in Addresses : symOf'[a] # None => addrOf'[symOf'[a]] = a
    <3> SUFFICES ASSUME NEW a \in Addresses, symOf'[a] # None
                 PROVE  addrOf'[symOf'[a]] = a
      OBVIOUS
    <3>1. CASE a = address
      BY <2>2, <3>1
    <3>2. CASE a # address
      <4>1. symOf'[a] = symOf[a] /\ symOf[a] \in Names
        BY <2>2, <3>2
      <4>2. addrOf[symOf[a]] = a
        BY <4>1
      <4>3. symOf[a] # symbol
        BY <4>2
      <4> QED BY <4>1, <4>2, <4>3, <2>2
    <3> QED BY <3>1, <3>2
  <2> QED BY <2>2, <2>3, <2>4
<1> QED BY <1>1, <1>2

(* allocate, from the cache, with a fixed address, with the next free one. *)
LEMMA AllocateKeeps ==
  ASSUME IInv, NEW symbol \in Names, NEW class, NEW direction,
         NEW fixed \in Addresses \cup {None},
         Allocate(symbol, class, fixed, direction)
  PROVE  /\ IInv'
         /\ \A s \in Names : addrOf[s] # None => addrOf'[s] = addrOf[s]
<1> DEFINE key == IndexKey(class, direction)
<1>1. key \in Letters
  BY KeysAreLetters
<1>2. CASE /\ addrOf[symbol] # None
           /\ UNCHANGED <<addrOf, symOf, nextIndex>>
  BY <1>2 DEF IInv, AllocTypeOK, OneToOne
<1>3. CASE /\ addrOf[symbol] = None /\ fixed # None
           /\ Claim(symbol, fixed) /\ UNCHANGED nextIndex
  <2>1. fixed \in Addresses
    BY <1>3
  <2>2. nextIndex' \in [Letters -> 0..(MaxIndex + 1)]
    BY <1>3 DEF IInv, AllocTypeOK
  <2> QED BY <2>1, <2>2, <1>3, ClaimKeepsInverse DEF IInv, AllocTypeOK
<1>4. ASSUME addrOf[symbol] = None, NEW idx \in 0..MaxIndex,
             Advance(key, idx), Claim(symbol, FormatAddress(key, idx))
      PROVE  /\ IInv'
             /\ \A s \in Names : addrOf[s] # None => addrOf'[s] = addrOf[s]
  <2>1. FormatAddress(key, idx) \in Addresses
    BY <1>1, FormattedAreAddresses
  <2>2. nextIndex' \in [Letters -> 0..(MaxIndex + 1)]
    BY <1>1, <1>4, AllocatorAssumption DEF IInv, AllocTypeOK, Advance
  <2> HIDE DEF key
  <2> QED BY <2>1, <2>2, <1>4, ClaimKeepsInverse DEF IInv, AllocTypeOK
<1> QED BY <1>2, <1>3, <1>4 DEF Allocate

(* The allocator starts with the invariant: no symbol, no address, every   *)
(* index at its first.                                                     *)
LEMMA InitHolds == AllocInit => IInv
  BY AllocatorAssumption, KeysAreLetters
     DEF AllocInit, IInv, AllocTypeOK, OneToOne

(* A step of the allocator keeps the invariant and every address given     *)
(* before.                                                                 *)
LEMMA NextKeeps ==
  ASSUME IInv, [AllocNext]_allocVars
  PROVE  /\ IInv'
         /\ \A s \in Names : addrOf[s] # None => addrOf'[s] = addrOf[s]
<1>1. ASSUME NEW symbol \in Points, NEW class \in {"P", "M", "T", "C"},
             NEW fixed \in Addresses \cup {None}, NEW direction \in {"INPUT", "OUTPUT"},
             Allocate(symbol, class, fixed, direction)
      PROVE  /\ IInv'
             /\ \A s \in Names : addrOf[s] # None => addrOf'[s] = addrOf[s]
  BY <1>1, AllocateKeeps DEF Names
<1>2. ASSUME NEW hint \in Hints, AllocateRelay(hint)
      PROVE  /\ IInv'
             /\ \A s \in Names : addrOf[s] # None => addrOf'[s] = addrOf[s]
  <2>1. PICK n \in 0..MaxIndex : Allocate(<<"_AUX_", hint, n>>, "M", None, "OUTPUT")
    BY <1>2 DEF AllocateRelay
  <2> QED BY <2>1, RelaysAreNames, AllocateKeeps
<1>3. CASE UNCHANGED allocVars
  BY <1>3 DEF IInv, AllocTypeOK, OneToOne, allocVars
<1> QED BY <1>1, <1>2, <1>3 DEF AllocNext

(* The dictionaries and indices keep their types. *)
THEOREM AllocTypeCorrect == AllocSpec => []AllocTypeOK
<1>1. AllocInit => IInv
  BY InitHolds
<1>2. IInv /\ [AllocNext]_allocVars => IInv'
  BY NextKeeps
<1>3. IInv => AllocTypeOK
  BY DEF IInv
<1> QED BY <1>1, <1>2, <1>3, PTL DEF AllocSpec

(* No two symbols are ever given one address, in any order of fixed,       *)
(* automatic and relay requests (DeviceAllocator._claim).                  *)
THEOREM AddressesAreOneToOne == AllocSpec => []OneToOne
<1>1. AllocInit => IInv
  BY InitHolds
<1>2. IInv /\ [AllocNext]_allocVars => IInv'
  BY NextKeeps
<1>3. IInv => OneToOne
  BY DEF IInv
<1> QED BY <1>1, <1>2, <1>3, PTL DEF AllocSpec

(* A symbol keeps the address it was given (the cache of allocate). *)
THEOREM AddressesNeverChange == AllocSpec => AddressesAreStable
<1>1. AllocInit => IInv
  BY InitHolds
<1>2. IInv /\ [AllocNext]_allocVars => IInv'
  BY NextKeeps
<1>3. IInv /\ [AllocNext]_allocVars =>
        [\A s \in Names : addrOf[s] # None => addrOf'[s] = addrOf[s]]_allocVars
  BY NextKeeps
<1> QED BY <1>1, <1>2, <1>3, PTL DEF AllocSpec, AddressesAreStable

----------------------------------------------------------------------------
(* The chart was brought into its active state by a transition into it     *)
(* whose condition the table of that step satisfies, unless no step has    *)
(* been made; that condition is what the check asks the solver about.      *)
EnteredInv ==
  /\ entered \subseteq Incoming
  /\ table \in Tables
  /\ entered # {} => \E t \in spec.transitions : t.to = current /\ Holds(t.cond, table)

(* Every evaluation is a table of the solver's. *)
LEMMA EvaluatedIsTable == \A on : Evaluated(on) \in Tables
<1>1. \A cond, values : Holds(cond, values) \in BOOLEAN
  BY DEF Holds
<1> SUFFICES ASSUME NEW on PROVE Evaluated(on) \in Tables
  OBVIOUS
<1> DEFINE inputs == [m \in Symbols |-> m \in on]
           value(n) == IF Derived(spec, n)
                       THEN Holds((CHOOSE d \in spec.derived : d.output = n).expr, inputs)
                       ELSE n \in on
<1>2. Evaluated(on) = [n \in Symbols |-> value(n)]
  BY DEF Evaluated
<1>3. \A n \in Symbols : value(n) \in BOOLEAN
  <2> TAKE n \in Symbols
  <2> DEFINE cond == (CHOOSE d \in spec.derived : d.output = n).expr
  <2>1. Holds(cond, inputs) \in BOOLEAN
    BY <1>1
  <2> HIDE DEF inputs, cond
  <2>2. CASE Derived(spec, n)
    <3>1. value(n) = Holds(cond, inputs)
      BY <2>2 DEF cond
    <3> HIDE DEF value
    <3> QED BY <2>1, <3>1
  <2>3. CASE ~Derived(spec, n)
    <3>1. value(n) = (n \in on)
      BY <2>3
    <3> HIDE DEF value
    <3> QED BY <3>1
  <2> QED BY <2>2, <2>3
<1> HIDE DEF value
<1> QED BY <1>2, <1>3 DEF Tables

(* At power on nothing has been entered, and a step enters by a            *)
(* transition.                                                             *)
LEMMA ChartKeepsEntered ==
  /\ CheckInit => EnteredInv
  /\ EnteredInv /\ [CheckNext]_checkVars => EnteredInv'
<1>1. CheckInit => EnteredInv
  BY EvaluatedIsTable DEF CheckInit, EnteredInv
<1>2. EnteredInv /\ [CheckNext]_checkVars => EnteredInv'
  <2> SUFFICES ASSUME EnteredInv, [CheckNext]_checkVars PROVE EnteredInv'
    OBVIOUS
  <2>1. ASSUME NEW t \in spec.transitions, NEW on \in SUBSET spec.inputs, Take(t, on)
        PROVE  EnteredInv'
    <3>1. spec' = spec /\ current' = t.to /\ table' = Evaluated(on) /\ entered' = entered \cup {t.to}
      BY <2>1 DEF Take
    <3>2. entered' \subseteq Incoming'
      BY <3>1 DEF EnteredInv, Incoming
    <3>3. table' \in Tables
      BY <3>1, EvaluatedIsTable
    <3>4. t \in spec'.transitions /\ t.to = current' /\ Holds(t.cond, table')
      BY <2>1, <3>1 DEF Take
    <3> QED BY <3>2, <3>3, <3>4 DEF EnteredInv, Tables
  <2>2. CASE UNCHANGED checkVars
    BY <2>2 DEF checkVars, EnteredInv, Incoming, Tables
  <2> QED BY <2>1, <2>2 DEF CheckNext
<1> QED BY <1>1, <1>2

(* Two outputs the active state drives were turned on by one transition,   *)
(* so its table satisfies both of the conditions the solver was given.     *)
LEMMA TogetherMeansAsked ==
  ASSUME EnteredInv, NEW l,
         ~Derived(spec, l[1]), ~Derived(spec, l[2]), On(l[1]), On(l[2])
  PROVE  Asked(l) /\ BothOn(l)
<1>1. entered # {} /\ current \in DOMAIN spec.entry /\ {l[1], l[2]} \subseteq spec.entry[current]
  BY DEF On
<1>2. PICK t \in spec.transitions : t.to = current /\ Holds(t.cond, table)
  BY <1>1 DEF EnteredInv
<1>3. \A o \in {l[1], l[2]} : t \in TurnOn(spec, o)
  BY <1>1, <1>2 DEF TurnOn, OnStates
<1>4. \A o \in {l[1], l[2]} : Holds(AnyOf(TurnOn(spec, o)), table)
  <2> SUFFICES ASSUME NEW o \in {l[1], l[2]} PROVE Holds(AnyOf(TurnOn(spec, o)), table)
    OBVIOUS
  <2>1. t.cond \subseteq AnyOf(TurnOn(spec, o))
    BY <1>3 DEF AnyOf
  <2> QED BY <1>2, <2>1 DEF Holds
<1> QED BY <1>3, <1>4 DEF Asked, BothOn, EnteredInv

(* What check_reachability warns of is never entered, and an interlock     *)
(* check_interlocks_z3 has nothing against is never broken by the chart,   *)
(* in any specification.                                                   *)
THEOREM SpecificationChecksAreSound == CheckSpec => []ChecksAreSound
<1>1. EnteredInv => WarnedStatesAreNeverEntered
  BY DEF EnteredInv, WarnedStatesAreNeverEntered, Unreachable
<1>2. EnteredInv => ConditionCheckIsSound
  BY TogetherMeansAsked DEF ConditionCheckIsSound, CheckInterlocks
<1>3. EnteredInv => ChecksAreSound
  BY <1>1, <1>2 DEF ChecksAreSound
<1> QED BY <1>3, ChartKeepsEntered, PTL DEF CheckSpec

-----------------------------------------------------------------------------
(* Induction: a set that holds 0 and, with n, n + 1, holds every number.   *)
LEMMA SetInduction ==
    ASSUME NEW S, 0 \in S, \A n \in Nat : n \in S => n + 1 \in S
    PROVE  Nat \subseteq S
<1> DEFINE Less == {ss \in Nat \X Nat : ss[1] < ss[2]}
           Rest == Nat \ S
<1> SUFFICES ASSUME Rest # {} PROVE FALSE
  OBVIOUS
<1>1. IsWellFoundedOn(Less, Nat)
  BY NatLessThanWellFounded DEF OpToRel
<1>2. Rest \subseteq Nat
  OBVIOUS
<1>3. PICK n \in Rest : \A m \in Rest : <<m, n>> \notin Less
  <2> HIDE DEF Less, Rest
  <2> QED BY <1>1, <1>2, WFMin
<1>4. n \in Nat /\ n # 0 /\ n - 1 \in Nat /\ n - 1 < n
  OBVIOUS
<1>5. n - 1 \in S
  <2>1. <<n - 1, n>> \in Less
    BY <1>4
  <2> QED BY <1>3, <1>4, <2>1
<1> QED BY <1>4, <1>5

(* The same over the positions of a sequence, from all that come before.   *)
LEMMA PrefixInduction ==
    ASSUME NEW n \in Nat, NEW S,
           \A k \in 1..n : (\A j \in 1..k-1 : j \in S) => k \in S
    PROVE  \A k \in 1..n : k \in S
<1> DEFINE T == {m \in Nat : m <= n => \A k \in 1..m : k \in S}
<1>1. 0 \in T
  OBVIOUS
<1>2. ASSUME NEW m \in Nat, m \in T PROVE m + 1 \in T
  <2> SUFFICES ASSUME m + 1 <= n, NEW k \in 1..(m + 1) PROVE k \in S
    OBVIOUS
  <2>1. \A j \in 1..m : j \in S
    BY <1>2
  <2>2. k \in 1..n /\ \A j \in 1..k-1 : j \in 1..m
    OBVIOUS
  <2> QED BY <2>1, <2>2
<1>3. Nat \subseteq T
  <2> HIDE DEF T
  <2> QED BY <1>1, <1>2, SetInduction
<1> QED BY <1>3

(* Expressions: a node is one of six kinds.                                *)
LEMMA NodeKinds ==
    ASSUME NEW n \in Nodes
    PROVE  \/ n.kind = "var" /\ n.name \in Tokens /\ n = Var(n.name) /\ Operands(n) = {}
           \/ n.kind = "const" /\ n.value \in BOOLEAN /\ n = Const(n.value) /\ Operands(n) = {}
           \/ /\ n.kind = "cmp" /\ n.name \in Tokens /\ n.op \in CmpOps /\ n.number \in Int
              /\ n = Cmp(n.name, n.op, n.number) /\ Operands(n) = {}
           \/ n.kind = "not" /\ n.of \in Nat /\ n = Neg(n.of) /\ Operands(n) = {n.of}
           \/ /\ IsNary(n) /\ n.kind \in {"and", "or"} /\ n.of \in Seq(Nat) /\ n = Nary(n.kind, n.of)
              /\ Operands(n) = {n.of[i] : i \in DOMAIN n.of}
<1>1. CASE n \in [kind: {"var"}, name: Tokens]
  BY <1>1 DEF Var, Operands, IsNary
<1>2. CASE n \in [kind: {"const"}, value: BOOLEAN]
  BY <1>2 DEF Const, Operands, IsNary
<1>3. CASE n \in [kind: {"cmp"}, name: Tokens, op: CmpOps, number: Int]
  BY <1>3 DEF Cmp, Operands, IsNary
<1>4. CASE n \in [kind: {"not"}, of: Nat]
  BY <1>4 DEF Neg, Operands, IsNary
<1>5. CASE n \in [kind: {"and", "or"}, of: Seq(Nat)]
  <2>1. IsNary(n) /\ n.kind \in {"and", "or"} /\ n.of \in Seq(Nat)
    BY <1>5 DEF IsNary
  <2>2. n = Nary(n.kind, n.of)
    BY <1>5 DEF Nary
  <2>3. Operands(n) = {n.of[i] : i \in DOMAIN n.of}
    BY <2>1 DEF Operands, IsNary
  <2> QED BY <2>1, <2>2, <2>3
<1> QED BY <1>1, <1>2, <1>3, <1>4, <1>5 DEF Nodes

(* A NOT as a node.                                                        *)
LEMMA NegNode ==
    ASSUME NEW x \in Nat
    PROVE  Neg(x) \in Nodes /\ Neg(x).kind = "not" /\ Neg(x).of = x /\ Operands(Neg(x)) = {x}
<1>1. Neg(x) \in [kind: {"not"}, of: Nat] /\ Neg(x).kind = "not" /\ Neg(x).of = x
  BY DEF Neg
<1>2. Neg(x) \in Nodes
  BY <1>1 DEF Nodes
<1>3. Operands(Neg(x)) = {x}
  <2> HIDE DEF Neg
  <2> QED BY <1>1, <1>2, NodeKinds DEF IsNary
<1> QED BY <1>1, <1>2, <1>3

(* A place of an expression may be left empty, but not the last one, and no *)
(* node refers to an empty place.                                          *)
Sound(e) ==
    /\ Len(e) \in Nat \ {0}
    /\ \A k \in 1..Len(e) : e[k] # Raised =>
         /\ e[k] \in Nodes /\ Operands(e[k]) \subseteq 1..k-1
         /\ \A x \in Operands(e[k]) : e[x] # Raised

Whole(e) == Sound(e) /\ e[Len(e)] # Raised

(* The values of all nodes.                                                *)
Values(e, v, w) ==
    \A k \in 1..Len(e) : v[k] \in BOOLEAN /\ (v[k] <=> e[k] # Raised /\ NodeTrue(e[k], v, w))

(* A value asks for the values of the operands only.                       *)
LEMMA ValueIsLocal ==
    ASSUME NEW n \in Nodes, NEW v1, NEW v2, NEW w, \A x \in Operands(n) : v1[x] = v2[x]
    PROVE  NodeTrue(n, v1, w) <=> NodeTrue(n, v2, w)
<1>1. CASE Operands(n) = {} /\ n.kind \in {"var", "const", "cmp"}
  BY <1>1 DEF NodeTrue
<1>2. CASE n.kind = "not"
  <2>1. v1[n.of] = v2[n.of]
    BY <1>2, NodeKinds DEF IsNary
  <2> QED BY <1>2, <2>1 DEF NodeTrue
<1>3. CASE IsNary(n)
  <2>1. n.kind \in {"and", "or"} /\ Operands(n) = {n.of[i] : i \in DOMAIN n.of}
    BY <1>3, NodeKinds DEF IsNary
  <2>2. \A i \in DOMAIN n.of : v1[n.of[i]] = v2[n.of[i]]
    BY <2>1
  <2> QED BY <2>1, <2>2 DEF NodeTrue
<1> QED BY <1>1, <1>2, <1>3, NodeKinds

(* The values that True adds up are those of all nodes: the recursive      *)
(* function exists.                                                        *)
LEMMA ValuesExist ==
    ASSUME NEW e, Sound(e), NEW w
    PROVE  \E v : Values(e, v, w) /\ True(e, w) = v[Len(e)]
<1> DEFINE F(k, v) == e[k] # Raised /\ NodeTrue(e[k], v, w)
           Upto(m, f) == f = [k \in 1..m |-> F(k, f)]
           S == {m \in Nat : m <= Len(e) => \E f : Upto(m, f)}
           value == CHOOSE f : Upto(Len(e), f)
<1>1. True(e, w) = value[Len(e)]
  BY DEF True
<1>2. ASSUME NEW k \in 1..Len(e), NEW f, NEW g, \A j \in 1..k-1 : f[j] = g[j]
      PROVE  F(k, f) <=> F(k, g)
  <2>1. CASE e[k] = Raised
    BY <2>1
  <2>2. CASE e[k] # Raised
    <3>1. e[k] \in Nodes /\ Operands(e[k]) \subseteq 1..k-1
      BY <2>2 DEF Sound
    <3>2. \A x \in Operands(e[k]) : f[x] = g[x]
      BY <1>2, <3>1
    <3> QED BY <3>1, <3>2, ValueIsLocal
  <2> QED BY <2>1, <2>2
<1>3. \A k, f : F(k, f) \in BOOLEAN
  BY DEF NodeTrue
<1> HIDE DEF F
<1>4. 0 \in S
  <2>1. Upto(0, [k \in 1..0 |-> TRUE])
    OBVIOUS
  <2> HIDE DEF Upto
  <2> QED BY <2>1
<1>5. ASSUME NEW m \in Nat, m \in S PROVE m + 1 \in S
  <2> SUFFICES ASSUME m + 1 <= Len(e) PROVE \E f : Upto(m + 1, f)
    OBVIOUS
  <2>1. PICK f : Upto(m, f)
    BY <1>5 DEF Sound
  <2> DEFINE g == [k \in 1..(m + 1) |-> F(k, f)]
             h == [k \in 1..(m + 1) |-> F(k, g)]
  <2>2. \A j \in 1..m : f[j] = g[j]
    BY <2>1
  <2>3. \A k \in 1..(m + 1) : F(k, f) <=> F(k, g)
    <3> TAKE k \in 1..(m + 1)
    <3>1. k \in 1..Len(e) /\ \A j \in 1..k-1 : j \in 1..m
      BY DEF Sound
    <3> HIDE DEF g
    <3> QED BY <1>2, <2>2, <3>1
  <2>4. \A k \in 1..(m + 1) : F(k, f) = F(k, g)
    BY <1>3, <2>3
  <2>5. g = h
    BY <2>4
  <2>6. Upto(m + 1, g)
    BY <2>5
  <2> HIDE DEF g, h, Upto
  <2> QED BY <2>6
<1>6. Upto(Len(e), value)
  <2>1. Nat \subseteq S
    <3> HIDE DEF S
    <3> QED BY <1>4, <1>5, SetInduction
  <2>2. \E f : Upto(Len(e), f)
    BY <2>1 DEF Sound
  <2> HIDE DEF Upto
  <2> QED BY <2>2
<1> HIDE DEF value
<1>7. \A k \in 1..Len(e) : value[k] = F(k, value)
  BY <1>6
<1>8. \A k \in 1..Len(e) : F(k, value) \in BOOLEAN
  BY <1>3
<1>9. Values(e, value, w)
  BY <1>7, <1>8 DEF Values, F
<1> QED BY <1>1, <1>9

(* The negation normal form: two places for every node but the last.       *)
FormOf(e, k, negate, d) == IF e[k] = Raised THEN Raised ELSE NnfNode(e[k], k, negate, d)

(* How far those of the nodes before it reach.                             *)
LEMMA PlacesOfForms ==
    ASSUME NEW n \in Nat, NEW m \in 1..(2 * n - 1)
    PROVE  LET k == (m + 1) \div 2
           IN  /\ k \in 1..n /\ m \in {2 * k - 1, 2 * k} /\ m = As(k, m % 2 = 0)
               /\ \A j \in 1..k-1, negate \in BOOLEAN : As(j, negate) \in 1..m-1
<1> DEFINE k == (m + 1) \div 2
<1>1. k \in 1..n /\ (m = 2 * k - 1 \/ m = 2 * k)
  OBVIOUS
<1>2. m % 2 = 0 <=> m = 2 * k
  BY <1>1
<1> HIDE DEF k
<1>3. m = As(k, m % 2 = 0)
  BY <1>1, <1>2 DEF As
<1>4. \A j \in 1..k-1, negate \in BOOLEAN : As(j, negate) \in 1..m-1
  BY <1>1 DEF As
<1>5. k \in 1..n /\ m \in {2 * k - 1, 2 * k} /\ m = As(k, m % 2 = 0)
        /\ \A j \in 1..k-1, negate \in BOOLEAN : As(j, negate) \in 1..m-1
  BY <1>1, <1>3, <1>4
<1> QED BY <1>5 DEF k

(* ToNnf is the sequence of the forms of all places, each computed from    *)
(* those before it.                                                        *)
LEMMA FormsExist ==
    ASSUME NEW e, Whole(e)
    PROVE  LET d == ToNnf(e)
           IN  d = [m \in 1..(2 * Len(e) - 1) |->
                      FormOf(e, (m + 1) \div 2, m % 2 = 0, d)]
<1> DEFINE pos(m) == (m + 1) \div 2
           F(m, f) == FormOf(e, pos(m), m % 2 = 0, f)
           N == 2 * Len(e) - 1
           Upto(m, f) == f = [k \in 1..m |-> F(k, f)]
           S == {m \in Nat : m <= N => \E f : Upto(m, f)}
           value == CHOOSE f : Upto(N, f)
<1>0. N \in Nat
  BY DEF Whole, Sound
<1>1. ToNnf(e) = value
  BY DEF ToNnf, FormOf
<1>2. ASSUME NEW m \in 1..N, NEW f, NEW g, \A j \in 1..m-1 : f[j] = g[j]
      PROVE  F(m, f) = F(m, g)
  <2> DEFINE k == pos(m)
  <2>1. k \in 1..Len(e) /\ \A j \in 1..k-1, negate \in BOOLEAN : As(j, negate) \in 1..m-1
    BY PlacesOfForms DEF Whole, Sound
  <2> HIDE DEF k
  <2>2. CASE e[k] # Raised /\ e[k].kind = "not"
    <3>1. e[k].of \in 1..k-1
      BY <2>1, <2>2, NodeKinds DEF Whole, Sound, IsNary
    <3>2. f[As(e[k].of, ~(m % 2 = 0))] = g[As(e[k].of, ~(m % 2 = 0))]
      BY <1>2, <2>1, <3>1
    <3> QED BY <2>2, <3>2 DEF FormOf, NnfNode, k
  <2>3. CASE ~(e[k] # Raised /\ e[k].kind = "not")
    BY <2>3 DEF FormOf, NnfNode, k
  <2> QED BY <2>2, <2>3
<1> HIDE DEF F
<1>4. 0 \in S
  <2>1. Upto(0, [k \in 1..0 |-> TRUE])
    OBVIOUS
  <2> HIDE DEF Upto
  <2> QED BY <2>1
<1>5. ASSUME NEW m \in Nat, m \in S PROVE m + 1 \in S
  <2> SUFFICES ASSUME m + 1 <= N PROVE \E f : Upto(m + 1, f)
    OBVIOUS
  <2>1. PICK f : Upto(m, f)
    BY <1>0, <1>5
  <2> DEFINE g == [k \in 1..(m + 1) |-> F(k, f)]
             h == [k \in 1..(m + 1) |-> F(k, g)]
  <2>2. \A j \in 1..m : f[j] = g[j]
    BY <2>1
  <2>3. \A k \in 1..(m + 1) : F(k, f) = F(k, g)
    <3> TAKE k \in 1..(m + 1)
    <3>1. k \in 1..N /\ \A j \in 1..k-1 : j \in 1..m
      BY <1>0
    <3> HIDE DEF g, N
    <3> QED BY <1>2, <2>2, <3>1
  <2>5. g = h
    BY <2>3
  <2>6. Upto(m + 1, g)
    BY <2>5
  <2> HIDE DEF g, h, Upto
  <2> QED BY <2>6
<1>6. Upto(N, value)
  <2>1. Nat \subseteq S
    <3> HIDE DEF S
    <3> QED BY <1>4, <1>5, SetInduction
  <2>2. \E f : Upto(N, f)
    BY <1>0, <2>1
  <2> HIDE DEF Upto
  <2> QED BY <2>2
<1> HIDE DEF value
<1> QED BY <1>1, <1>6 DEF F

(* A NOT in a normal form stands before a variable.                        *)
NotsAreInside(d) ==
    \A m \in 1..Len(d) : d[m] # Raised /\ d[m].kind = "not" => d[d[m].of].kind = "var"

(* The same, read at the place of a node and a sign.                       *)
LEMMA FormOfNode ==
    ASSUME NEW e, Whole(e)
    PROVE  LET d == ToNnf(e)
           IN  /\ Len(d) = 2 * Len(e) - 1
               /\ \A k \in 1..Len(e), negate \in BOOLEAN :
                    As(k, negate) \in 1..Len(d) => d[As(k, negate)] = FormOf(e, k, negate, d)
<1> DEFINE d == ToNnf(e)
           N == 2 * Len(e) - 1
<1>1. d = [m \in 1..N |-> FormOf(e, (m + 1) \div 2, m % 2 = 0, d)] /\ N \in Nat
  BY FormsExist DEF Whole, Sound
<1> HIDE DEF d
<1>2. Len(d) = N
  BY <1>1
<1>3. ASSUME NEW k \in 1..Len(e), NEW negate \in BOOLEAN, As(k, negate) \in 1..N
      PROVE  d[As(k, negate)] = FormOf(e, k, negate, d)
  <2> DEFINE m == As(k, negate)
  <2>1. d[m] = FormOf(e, (m + 1) \div 2, m % 2 = 0, d)
    BY <1>1, <1>3
  <2>2. (m + 1) \div 2 = k /\ (m % 2 = 0 <=> negate)
    BY <1>3 DEF As, Whole, Sound
  <2>3. (m % 2 = 0) = negate
    BY <2>2
  <2> HIDE DEF m
  <2>4. d[m] = FormOf(e, k, negate, d)
    BY <2>1, <2>2, <2>3
  <2> QED BY <2>4 DEF m
<1> HIDE DEF N
<1>4. Len(d) = N /\ \A k \in 1..Len(e), negate \in BOOLEAN :
         As(k, negate) \in 1..Len(d) => d[As(k, negate)] = FormOf(e, k, negate, d)
  BY <1>2, <1>3
<1> QED BY <1>4 DEF d, N

(* What becomes of one node, given what has become of those before it.     *)
GoodForm(e, d, k, negate) ==
    LET m == As(k, negate)
    IN  /\ d[m] = Raised <=> e[k] = Raised
        /\ e[k] # Raised =>
             /\ d[m] \in Nodes /\ Operands(d[m]) \subseteq 1..m-1
             /\ \A x \in Operands(d[m]) : d[x] # Raised
             /\ d[m].kind = "not" => d[d[m].of].kind = "var"

(* The form of a node refers only to forms before it, and negates nothing  *)
(* but a variable.                                                         *)
LEMMA FormIsGood ==
    ASSUME NEW e, Whole(e), NEW k \in 1..Len(e), NEW negate \in BOOLEAN,
           As(k, negate) \in 1..Len(ToNnf(e)), Raised \notin Nodes,
           \A j \in 1..k-1, neg \in BOOLEAN : GoodForm(e, ToNnf(e), j, neg)
    PROVE  GoodForm(e, ToNnf(e), k, negate)
<1> DEFINE d == ToNnf(e)
           m == As(k, negate)
           n == e[k]
<1>0. Len(d) = 2 * Len(e) - 1 /\ d[m] = FormOf(e, k, negate, d)
  BY FormOfNode
<1>1. d[m] = FormOf(e, k, negate, d) /\ Len(d) = 2 * Len(e) - 1 /\ k \in Nat /\ Len(e) \in Nat
        /\ m \in Nat /\ m >= 1
  <2>1. k \in Nat /\ k >= 1 /\ Len(e) \in Nat
    BY DEF Whole, Sound
  <2>2. m \in Nat /\ m >= 1
    BY <2>1 DEF As
  <2> QED BY <1>0, <2>1, <2>2
<1>2. CASE n = Raised
  <2>1. d[m] = Raised
    <3> HIDE DEF d, m
    <3> QED BY <1>1, <1>2 DEF FormOf
  <2> QED BY <1>2, <2>1 DEF GoodForm
<1>3. CASE n # Raised
  <2>0. d[m] = NnfNode(n, k, negate, d)
    <3> HIDE DEF d, m
    <3> QED BY <1>1, <1>3 DEF FormOf
  <2>1. n \in Nodes /\ Operands(n) \subseteq 1..k-1 /\ \A x \in Operands(n) : e[x] # Raised
    BY <1>3 DEF Whole, Sound
  <2>2. \A j \in 1..k-1, neg \in BOOLEAN : As(j, neg) \in 1..m-1
    BY <1>1 DEF As
  <2> SUFFICES /\ d[m] \in Nodes /\ Operands(d[m]) \subseteq 1..m-1
               /\ \A x \in Operands(d[m]) : d[x] # Raised
               /\ d[m].kind = "not" => d[d[m].of].kind = "var"
    BY <1>3 DEF GoodForm
  <2> HIDE DEF d, m, n
  <2>3. CASE n.kind = "var" /\ n = Var(n.name) /\ n.name \in Tokens
    <3>1. CASE negate
      <4>1. d[m] = Neg(As(k, FALSE)) /\ As(k, FALSE) \in 1..Len(d) /\ As(k, FALSE) = m - 1
            /\ m - 1 \in Nat
        BY <1>1, <1>3, <2>0, <2>3, <3>1 DEF NnfNode, As, m, d
      <4>2. d[As(k, FALSE)] = NnfNode(n, k, FALSE, d)
        BY <1>3, <4>1, FormOfNode DEF FormOf, d, n
      <4>3. d[m - 1] = n
        BY <1>3, <2>3, <4>1, <4>2 DEF NnfNode
      <4>4. d[m] \in Nodes /\ Operands(d[m]) = {m - 1} /\ d[m].kind = "not" /\ d[m].of = m - 1
        <5> DEFINE x == m - 1
        <5>1. d[m] = Neg(x) /\ x \in Nat
          BY <4>1
        <5> HIDE DEF x
        <5>2. d[m] \in Nodes /\ Operands(d[m]) = {x} /\ d[m].kind = "not" /\ d[m].of = x
          BY <5>1, NegNode
        <5> QED BY <5>2 DEF x
      <4>5. m - 1 \in 1..m-1 /\ d[m - 1] # Raised /\ d[m - 1].kind = "var"
        <5>1. m - 1 \in 1..Len(d) /\ m - 1 \in Nat
          BY <4>1
        <5>2. m - 1 \in 1..m-1
          BY <5>1
        <5>3. d[m - 1] # Raised /\ d[m - 1].kind = "var"
          BY <1>3, <2>3, <4>3
        <5> QED BY <5>2, <5>3
      <4> QED BY <4>4, <4>5
    <3>2. CASE ~negate
      <4>1. d[m] = n
        BY <1>1, <1>3, <2>0, <2>3, <3>2 DEF NnfNode
      <4> QED BY <2>1, <2>3, <4>1 DEF Operands, IsNary
    <3> QED BY <3>1, <3>2
  <2>4. CASE n.kind = "const" /\ n = Const(n.value) /\ n.value \in BOOLEAN
    <3>1. d[m] = Const(n.value # negate)
      BY <1>1, <1>3, <2>0, <2>4 DEF NnfNode
    <3> QED BY <3>1 DEF Const, Nodes, Operands, IsNary
  <2>5. CASE n.kind = "cmp" /\ n = Cmp(n.name, n.op, n.number) /\ n.name \in Tokens
               /\ n.op \in CmpOps /\ n.number \in Int
    <3>1. CmpNeg[n.op] \in CmpOps
      BY <2>5 DEF CmpNeg, CmpOps
    <3>2. d[m] = Cmp(n.name, IF negate THEN CmpNeg[n.op] ELSE n.op, n.number)
      BY <1>1, <1>3, <2>0, <2>5 DEF NnfNode, Cmp
    <3> QED BY <2>5, <3>1, <3>2 DEF Cmp, Nodes, Operands, IsNary
  <2>6. CASE n.kind = "not" /\ n.of \in Nat /\ Operands(n) = {n.of}
    <3>1. n.of \in 1..k-1 /\ e[n.of] # Raised
      BY <2>1, <2>6
    <3>2. d[m] = d[As(n.of, ~negate)]
      BY <1>1, <1>3, <2>0, <2>6 DEF NnfNode
    <3>3. As(n.of, ~negate) \in 1..m-1
      BY <2>2, <3>1
    <3>4. GoodForm(e, d, n.of, ~negate)
      BY <3>1 DEF d
    <3>5. /\ d[m] \in Nodes /\ Operands(d[m]) \subseteq 1..As(n.of, ~negate)-1
          /\ \A x \in Operands(d[m]) : d[x] # Raised
          /\ d[m].kind = "not" => d[d[m].of].kind = "var"
      BY <3>1, <3>2, <3>4 DEF GoodForm
    <3> QED BY <1>1, <3>3, <3>5
  <2>7. CASE IsNary(n) /\ n.kind \in {"and", "or"} /\ n.of \in Seq(Nat)
               /\ Operands(n) = {n.of[i] : i \in DOMAIN n.of}
    <3> DEFINE of == [i \in DOMAIN n.of |-> As(n.of[i], negate)]
               kind == IF (n.kind = "and") # negate THEN "and" ELSE "or"
    <3>1. d[m] = Nary(kind, of)
      BY <1>1, <1>3, <2>0, <2>7 DEF NnfNode
    <3>2. \A i \in DOMAIN n.of : n.of[i] \in 1..k-1 /\ e[n.of[i]] # Raised
      BY <2>1, <2>7
    <3>3. \A i \in DOMAIN n.of : As(n.of[i], negate) \in 1..m-1 /\ d[As(n.of[i], negate)] # Raised
      BY <2>2, <3>2 DEF GoodForm, d
    <3>4. of \in Seq(Nat)
      BY <1>1, <2>7, <3>3
    <3>5. kind \in {"and", "or"}
      OBVIOUS
    <3> HIDE DEF kind
    <3>6. d[m].kind = kind /\ d[m].of = of /\ d[m] \in Nodes
      <4> HIDE DEF of
      <4> QED BY <3>1, <3>4, <3>5 DEF Nary, Nodes
    <3>7. Operands(d[m]) = {of[i] : i \in DOMAIN of}
      BY <3>5, <3>6 DEF Operands, IsNary
    <3>8. d[m].kind # "not"
      BY <3>5, <3>6
    <3> QED BY <3>3, <3>6, <3>7, <3>8
  <2> QED BY <2>1, <2>3, <2>4, <2>5, <2>6, <2>7, NodeKinds
<1> QED BY <1>2, <1>3

(* The negation normal form of an expression is an expression again, its   *)
(* NOTs stand before variables, and it is empty only where the expression  *)
(* was.                                                                    *)
LEMMA FormsAreWhole ==
    ASSUME NEW e, Whole(e), Raised \notin Nodes
    PROVE  /\ Whole(ToNnf(e)) /\ NotsAreInside(ToNnf(e))
           /\ \A k \in 1..Len(e), negate \in BOOLEAN :
                As(k, negate) \in 1..Len(ToNnf(e)) /\ e[k] # Raised => ToNnf(e)[As(k, negate)] # Raised
<1> DEFINE d == ToNnf(e)
           S == {k \in 1..Len(e) : \A negate \in BOOLEAN :
                   As(k, negate) \in 1..Len(d) => GoodForm(e, d, k, negate)}
<1>1. Len(d) = 2 * Len(e) - 1 /\ Len(e) \in Nat \ {0}
  BY FormOfNode DEF Whole, Sound
<1> HIDE DEF d
<1>2. ASSUME NEW k \in 1..Len(e), \A j \in 1..k-1 : j \in S PROVE k \in S
  <2>1. \A j \in 1..k-1, neg \in BOOLEAN : GoodForm(e, d, j, neg)
    <3> TAKE j \in 1..k-1, neg \in BOOLEAN
    <3>1. As(j, neg) \in 1..Len(d) /\ j \in S
      BY <1>1, <1>2 DEF As
    <3> QED BY <3>1
  <2>2. ASSUME NEW negate \in BOOLEAN, As(k, negate) \in 1..Len(d) PROVE GoodForm(e, d, k, negate)
    BY <2>1, <2>2, FormIsGood DEF d
  <2> QED BY <2>2
<1>3. \A k \in 1..Len(e) : k \in S
  <2> HIDE DEF S
  <2> QED BY <1>1, <1>2, PrefixInduction
<1>4. ASSUME NEW m \in 1..Len(d)
      PROVE  \E k \in 1..Len(e), negate \in BOOLEAN : m = As(k, negate) /\ GoodForm(e, d, k, negate)
  <2>1. (m + 1) \div 2 \in 1..Len(e) /\ m = As((m + 1) \div 2, m % 2 = 0)
    BY <1>1, PlacesOfForms
  <2> QED BY <1>3, <2>1
<1>5. d[Len(d)] # Raised
  <2>1. Len(d) = As(Len(e), FALSE) /\ Len(e) \in 1..Len(e)
    BY <1>1 DEF As
  <2>2. Len(e) \in S /\ As(Len(e), FALSE) \in 1..Len(d)
    <3>1. Len(e) \in S
      <4> HIDE DEF S
      <4> QED BY <1>3, <2>1
    <3>2. As(Len(e), FALSE) \in 1..Len(d)
      BY <1>1 DEF As
    <3> QED BY <3>1, <3>2
  <2>3. GoodForm(e, d, Len(e), FALSE)
    BY <2>2
  <2>4. d[Len(d)] = Raised <=> e[Len(e)] = Raised
    BY <2>1, <2>3 DEF GoodForm
  <2> QED BY <2>4 DEF Whole, Sound
<1>6. Whole(d)
  <2>1. \A m \in 1..Len(d) : d[m] # Raised =>
          /\ d[m] \in Nodes /\ Operands(d[m]) \subseteq 1..m-1
          /\ \A x \in Operands(d[m]) : d[x] # Raised
    BY <1>4 DEF GoodForm
  <2> QED BY <1>1, <1>5, <2>1 DEF Whole, Sound
<1>7. NotsAreInside(d)
  BY <1>4 DEF NotsAreInside, GoodForm
<1>8. \A k \in 1..Len(e), negate \in BOOLEAN :
         As(k, negate) \in 1..Len(d) /\ e[k] # Raised => d[As(k, negate)] # Raised
  BY <1>3 DEF GoodForm
<1> QED BY <1>6, <1>7, <1>8 DEF d

(* Worlds as they can be: every analog value is a number.                  *)
IsWorld(w) == w.on \subseteq Tokens /\ w.level \in [Tokens -> Int]

(* _CMP_NEG turns a comparison into its opposite, for all numbers.         *)
LEMMA OppositeComparison ==
    ASSUME NEW l \in Int, NEW op \in CmpOps, NEW r \in Int
    PROVE  Compare(l, CmpNeg[op], r) <=> ~Compare(l, op, r)
<1>1. op \in {"<", ">", "<=", ">=", "=", "<>"}
  BY DEF CmpOps
<1> QED BY <1>1 DEF CmpNeg, CmpOps, Compare

(* A node's form has its value, the negated form the opposite one, if this *)
(* holds of the nodes before it.                                           *)
LEMMA ValueOfForm ==
    ASSUME NEW e, Whole(e), Raised \notin Nodes, NEW w, IsWorld(w),
           NEW v, Values(e, v, w), NEW dv, Values(ToNnf(e), dv, w),
           NEW k \in 1..Len(e), NEW negate \in BOOLEAN,
           As(k, negate) \in 1..Len(ToNnf(e)), e[k] # Raised,
           \A j \in 1..k-1, neg \in BOOLEAN : e[j] # Raised => (dv[As(j, neg)] <=> (v[j] # neg))
    PROVE  dv[As(k, negate)] <=> (v[k] # negate)
<1> DEFINE d == ToNnf(e)
           m == As(k, negate)
           n == e[k]
<1>1. Len(d) = 2 * Len(e) - 1 /\ d[m] = FormOf(e, k, negate, d)
  BY FormOfNode
<1>2. /\ d[m] = NnfNode(n, k, negate, d)
      /\ n \in Nodes /\ Operands(n) \subseteq 1..k-1 /\ \A x \in Operands(n) : e[x] # Raised
  <2> HIDE DEF d, m
  <2> QED BY <1>1 DEF FormOf, Whole, Sound
<1>3. m \in 1..Len(d) /\ (v[k] <=> NodeTrue(n, v, w)) /\ v[k] \in BOOLEAN
  BY DEF Values
<1>4. \A j \in 1..Len(d) : dv[j] \in BOOLEAN /\ (dv[j] <=> d[j] # Raised /\ NodeTrue(d[j], dv, w))
  BY DEF Values
<1>5. Whole(d)
  BY FormsAreWhole
<1> SUFFICES dv[m] <=> (v[k] # negate)
  OBVIOUS
<1> HIDE DEF d, m, n
<1>6. CASE n.kind = "var" /\ n = Var(n.name) /\ n.name \in Tokens
  <2>1. v[k] <=> n.name \in w.on
    BY <1>3, <1>6 DEF NodeTrue
  <2>2. NodeTrue(n, dv, w) <=> n.name \in w.on
    BY <1>6 DEF NodeTrue
  <2>3. CASE negate
    <3> DEFINE x == As(k, FALSE)
    <3>1. d[m] = Neg(x)
      BY <1>2, <1>6, <2>3 DEF NnfNode
    <3>2. x \in 1..Len(d) /\ x \in Nat
      BY <1>1, <1>3, <2>3 DEF As, m
    <3>3. d[x] = FormOf(e, k, FALSE, d)
      BY <3>2, FormOfNode DEF d
    <3> HIDE DEF x
    <3>4. d[x] = n
      BY <1>6, <3>3 DEF FormOf, NnfNode, n
    <3>5. dv[x] <=> n.name \in w.on
      BY <1>4, <2>2, <3>2, <3>4 DEF n
    <3>6. d[m].kind = "not" /\ d[m].of = x /\ d[m] \in Nodes
      BY <3>1, <3>2, NegNode
    <3>7. dv[m] <=> ~dv[x]
      BY <1>3, <1>4, <3>6 DEF NodeTrue
    <3>8. dv[m] <=> ~v[k]
      BY <2>1, <3>5, <3>7
    <3> QED BY <1>3, <2>3, <3>8
  <2>4. CASE ~negate
    <3>1. d[m] = n
      BY <1>2, <1>6, <2>4 DEF NnfNode
    <3>2. dv[m] <=> n.name \in w.on
      BY <1>3, <1>4, <2>2, <3>1 DEF n
    <3> QED BY <1>3, <2>1, <2>4, <3>2
  <2> QED BY <2>3, <2>4
<1>7. CASE n.kind = "const" /\ n = Const(n.value) /\ n.value \in BOOLEAN
  <2>1. v[k] <=> n.value
    BY <1>3, <1>7 DEF NodeTrue
  <2>2. d[m] = Const(n.value # negate)
    BY <1>2, <1>7 DEF NnfNode
  <2>3. d[m].kind = "const" /\ d[m].value = (n.value # negate) /\ d[m] \in Nodes
    BY <2>2 DEF Const, Nodes
  <2>4. dv[m] <=> d[m].value
    BY <1>3, <1>4, <2>3 DEF NodeTrue
  <2>5. v[k] = n.value
    BY <1>3, <1>7, <2>1
  <2> QED BY <2>3, <2>4, <2>5
<1>8. CASE n.kind = "cmp" /\ n = Cmp(n.name, n.op, n.number) /\ n.name \in Tokens
             /\ n.op \in CmpOps /\ n.number \in Int
  <2> DEFINE op == IF negate THEN CmpNeg[n.op] ELSE n.op
  <2>1. v[k] <=> Compare(w.level[n.name], n.op, n.number)
    BY <1>3, <1>8 DEF NodeTrue
  <2>2. d[m] = Cmp(n.name, op, n.number)
    BY <1>2, <1>8 DEF NnfNode, Cmp
  <2>3. CmpNeg[n.op] \in CmpOps
    BY <1>8 DEF CmpNeg, CmpOps
  <2>4. op \in CmpOps
    BY <1>8, <2>3
  <2> HIDE DEF op
  <2>5. d[m] \in Nodes /\ d[m].kind = "cmp" /\ d[m].name = n.name /\ d[m].op = op /\ d[m].number = n.number
    BY <1>8, <2>2, <2>4 DEF Cmp, Nodes
  <2>6. dv[m] <=> Compare(w.level[n.name], op, n.number)
    BY <1>3, <1>4, <2>5 DEF NodeTrue
  <2>7. Compare(w.level[n.name], op, n.number) <=> (Compare(w.level[n.name], n.op, n.number) # negate)
    <3>1. w.level[n.name] \in Int
      BY <1>8 DEF IsWorld
    <3>2. Compare(w.level[n.name], CmpNeg[n.op], n.number) <=> ~Compare(w.level[n.name], n.op, n.number)
      BY <1>8, <3>1, OppositeComparison
    <3>3. CASE negate
      BY <3>2, <3>3 DEF op, Compare
    <3>4. CASE ~negate
      BY <3>4 DEF op, Compare
    <3> QED BY <3>3, <3>4
  <2>8. v[k] = Compare(w.level[n.name], n.op, n.number)
    BY <1>3, <2>1 DEF Compare
  <2> QED BY <2>6, <2>7, <2>8
<1>9. CASE n.kind = "not" /\ n.of \in Nat /\ Operands(n) = {n.of}
  <2>1. n.of \in 1..k-1 /\ e[n.of] # Raised
    BY <1>2, <1>9
  <2>2. v[k] <=> ~v[n.of]
    BY <1>3, <1>9 DEF NodeTrue
  <2>3. d[m] = d[As(n.of, ~negate)]
    BY <1>2, <1>9 DEF NnfNode
  <2>4. As(n.of, ~negate) \in 1..Len(d)
    BY <1>1, <1>3, <2>1, SMTT(30) DEF As, m
  <2>5. dv[m] <=> dv[As(n.of, ~negate)]
    BY <1>3, <1>4, <2>3, <2>4
  <2>6. dv[As(n.of, ~negate)] <=> (v[n.of] # ~negate)
    BY <2>1
  <2>7. v[n.of] \in BOOLEAN
    BY <2>1 DEF Values, Whole, Sound
  <2> QED BY <1>3, <2>2, <2>5, <2>6, <2>7
<1>10. CASE IsNary(n) /\ n.kind \in {"and", "or"} /\ n.of \in Seq(Nat)
               /\ Operands(n) = {n.of[i] : i \in DOMAIN n.of}
  <2> DEFINE of == [i \in DOMAIN n.of |-> As(n.of[i], negate)]
             kind == IF (n.kind = "and") # negate THEN "and" ELSE "or"
  <2>1. d[m] = Nary(kind, of)
    BY <1>2, <1>10 DEF NnfNode
  <2>2. d[m] # Raised
    BY <1>3, FormsAreWhole DEF d, m
  <2>3. d[m].kind = kind /\ d[m].of = of /\ kind \in {"and", "or"}
    <3> HIDE DEF of
    <3> QED BY <2>1 DEF Nary
  <2>4. \A i \in DOMAIN n.of : n.of[i] \in 1..k-1 /\ e[n.of[i]] # Raised
    BY <1>2, <1>10
  <2>5. \A i \in DOMAIN n.of : /\ dv[of[i]] <=> (v[n.of[i]] # negate)
                               /\ v[n.of[i]] \in BOOLEAN
    BY <2>4 DEF Values
  <2>6. DOMAIN of = DOMAIN n.of
    OBVIOUS
  <2> HIDE DEF of, kind
  <2>7. dv[m] <=> \/ kind = "and" /\ \A i \in DOMAIN n.of : dv[of[i]]
                  \/ kind = "or" /\ \E i \in DOMAIN n.of : dv[of[i]]
    <3>1. dv[m] <=> NodeTrue(d[m], dv, w)
      BY <1>3, <1>4, <2>2
    <3> QED BY <2>3, <2>6, <3>1 DEF NodeTrue
  <2>8. v[k] <=> \/ n.kind = "and" /\ \A i \in DOMAIN n.of : v[n.of[i]]
                 \/ n.kind = "or" /\ \E i \in DOMAIN n.of : v[n.of[i]]
    BY <1>3, <1>10 DEF NodeTrue
  <2>9. CASE negate
    <3>1. \A i \in DOMAIN n.of : dv[of[i]] <=> ~v[n.of[i]]
      BY <2>5, <2>9
    <3>2. n.kind = "and" => kind = "or"
      BY <2>9 DEF kind
    <3>3. n.kind = "or" => kind = "and"
      BY <2>9 DEF kind
    <3>4. dv[m] <=> ~v[k]
      BY <1>10, <2>7, <2>8, <3>1, <3>2, <3>3
    <3> QED BY <1>3, <2>9, <3>4
  <2>10. CASE ~negate
    <3>1. \A i \in DOMAIN n.of : dv[of[i]] <=> v[n.of[i]]
      BY <2>5, <2>10
    <3>2. kind = n.kind
      BY <1>10, <2>10 DEF kind
    <3>3. dv[m] <=> v[k]
      BY <1>10, <2>7, <2>8, <3>1, <3>2
    <3> QED BY <1>3, <2>10, <3>3
  <2> QED BY <2>9, <2>10
<1> QED BY <1>2, <1>6, <1>7, <1>8, <1>9, <1>10, NodeKinds

(* _to_nnf keeps the value of an expression in every world.                *)
LEMMA FormsMeanTheSame ==
    ASSUME NEW e, Whole(e), Raised \notin Nodes, NEW w, IsWorld(w)
    PROVE  True(ToNnf(e), w) <=> True(e, w)
<1> DEFINE d == ToNnf(e)
<1>1. PICK v : Values(e, v, w) /\ True(e, w) = v[Len(e)]
  BY ValuesExist DEF Whole
<1>2. PICK dv : Values(d, dv, w) /\ True(d, w) = dv[Len(d)]
  BY FormsAreWhole, ValuesExist DEF Whole
<1>3. Len(d) = 2 * Len(e) - 1 /\ Len(e) \in Nat \ {0}
  BY FormOfNode DEF Whole, Sound
<1> DEFINE S == {k \in 1..Len(e) : \A negate \in BOOLEAN :
                   As(k, negate) \in 1..Len(d) /\ e[k] # Raised =>
                     (dv[As(k, negate)] <=> (v[k] # negate))}
<1>4. ASSUME NEW k \in 1..Len(e), \A j \in 1..k-1 : j \in S PROVE k \in S
  <2>1. \A j \in 1..k-1, neg \in BOOLEAN : e[j] # Raised => (dv[As(j, neg)] <=> (v[j] # neg))
    <3> TAKE j \in 1..k-1, neg \in BOOLEAN
    <3>1. As(j, neg) \in 1..Len(d) /\ j \in S
      <4> HIDE DEF S, d
      <4> QED BY <1>3, <1>4 DEF As
    <3> QED BY <3>1
  <2>2. ASSUME NEW negate \in BOOLEAN, As(k, negate) \in 1..Len(d), e[k] # Raised
        PROVE  dv[As(k, negate)] <=> (v[k] # negate)
    BY <1>1, <1>2, <2>1, <2>2, ValueOfForm
  <2> QED BY <2>2
<1>5. Len(e) \in S /\ Len(d) = As(Len(e), FALSE) /\ Len(d) \in 1..Len(d)
  <2> HIDE DEF S, d
  <2> QED BY <1>3, <1>4, PrefixInduction, SMTT(30) DEF As
<1>6. dv[Len(d)] <=> (v[Len(e)] # FALSE)
  BY <1>5 DEF Whole, Sound
<1>7. v[Len(e)] \in BOOLEAN /\ dv[Len(d)] \in BOOLEAN
  <2>1. Len(e) \in 1..Len(e)
    BY <1>3
  <2> QED BY <1>1, <1>2, <1>5, <2>1 DEF Values
<1> QED BY <1>1, <1>2, <1>6, <1>7

(* The sum of products.  A literal is a variable, negated or not, or a     *)
(* comparison as it stands.                                                *)
Literals ==
    [name: {<<n>> : n \in Tokens}, neg: BOOLEAN]
      \cup [name: Tokens \X CmpOps \X Int, neg: {FALSE}]

(* Products as they should be: the list is empty when the set is.          *)
AreProducts(p) ==
    /\ p.count \in Nat /\ (p.count = 0 <=> p.terms = {})
    /\ \A t \in p.terms : t \subseteq Literals

(* A single product.                                                       *)
LEMMA OnlyProduct ==
    ASSUME NEW t, t \subseteq Literals
    PROVE  AreProducts(Products({t}, 1))
<1> DEFINE p == Products({t}, 1)
<1>1. p.terms = {t} /\ p.count = 1
  BY DEF Products
<1> HIDE DEF p
<1>2. p.count \in Nat /\ p.count # 0
  BY <1>1
<1>3. p.terms # {}
  BY <1>1
<1>4. \A s \in p.terms : s \subseteq Literals
  BY <1>1
<1>5. AreProducts(p)
  BY <1>2, <1>3, <1>4 DEF AreProducts
<1> QED BY <1>5 DEF p

(* A product of two lengths is empty exactly when one of them is.          *)
LEMMA ProductOfCounts ==
    ASSUME NEW a \in Nat, NEW b \in Nat
    PROVE  a * b \in Nat /\ (a * b = 0 <=> a = 0 \/ b = 0)
<1>1. a * b \in Nat
  OBVIOUS
<1>2. a = 0 \/ b = 0 => a * b = 0
  OBVIOUS
<1>3. ASSUME a # 0, b # 0 PROVE a * b # 0
  <2>1. a >= 1 /\ b >= 1
    BY <1>3
  <2>2. a * b >= a * 1
    BY <2>1
  <2> QED BY <2>1, <2>2
<1> QED BY <1>1, <1>2, <1>3

(* Adding products is OR.                                                  *)
LEMMA AddedIsOr ==
    ASSUME NEW a, AreProducts(a), NEW b, AreProducts(b), NEW w, a # Raised, b # Raised
    PROVE  LET c == Added(a, b)
           IN  AreProducts(c) /\ (DnfTrue(c.terms, w) <=> DnfTrue(a.terms, w) \/ DnfTrue(b.terms, w))
<1> DEFINE c == Added(a, b)
<1>1. c.terms = a.terms \cup b.terms /\ c.count = a.count + b.count
  BY DEF Added, Products
<1> HIDE DEF c
<1>2. AreProducts(c)
  <2>1. c.count \in Nat
    BY <1>1 DEF AreProducts
  <2>2. c.count = 0 <=> c.terms = {}
    BY <1>1 DEF AreProducts
  <2>3. \A t \in c.terms : t \subseteq Literals
    BY <1>1 DEF AreProducts
  <2> QED BY <2>1, <2>2, <2>3 DEF AreProducts
<1>3. DnfTrue(c.terms, w) <=> DnfTrue(a.terms, w) \/ DnfTrue(b.terms, w)
  BY <1>1 DEF DnfTrue
<1> QED BY <1>2, <1>3 DEF c

(* Multiplying them out is AND, also when the second factor is not looked  *)
(* at because the first is empty.                                          *)
LEMMA MultipliedIsAnd ==
    ASSUME NEW a, AreProducts(a), NEW b, NEW w, a # Raised, NEW y \in BOOLEAN,
           b # Raised => AreProducts(b) /\ (DnfTrue(b.terms, w) <=> y),
           Multiplied(a, b) # Raised
    PROVE  LET c == Multiplied(a, b)
           IN  AreProducts(c) /\ (DnfTrue(c.terms, w) <=> DnfTrue(a.terms, w) /\ y)
<1> DEFINE c == Multiplied(a, b)
<1>1. CASE a.count = 0
  <2>1. c = a
    BY <1>1 DEF Multiplied
  <2>2. a.terms = {}
    BY <1>1 DEF AreProducts
  <2>3. ~DnfTrue(a.terms, w)
    BY <2>2 DEF DnfTrue
  <2> HIDE DEF c
  <2>4. AreProducts(c) /\ (DnfTrue(c.terms, w) <=> DnfTrue(a.terms, w) /\ y)
    BY <2>1, <2>3
  <2> QED BY <2>4 DEF c
<1>2. CASE a.count # 0
  <2>1. b # Raised /\ c = Products({s \cup t : s \in a.terms, t \in b.terms}, a.count * b.count)
    BY <1>2 DEF Multiplied
  <2>2. c.terms = {s \cup t : s \in a.terms, t \in b.terms} /\ c.count = a.count * b.count
    <3> HIDE DEF c
    <3> QED BY <2>1 DEF Products
  <2> HIDE DEF c
  <2>3. AreProducts(b) /\ (DnfTrue(b.terms, w) <=> y)
    BY <2>1
  <2>4. c.count \in Nat /\ (c.count = 0 <=> a.count = 0 \/ b.count = 0)
    <3>1. a.count \in Nat /\ b.count \in Nat
      BY <2>3 DEF AreProducts
    <3> QED BY <2>2, <3>1, ProductOfCounts
  <2>5. c.terms = {} <=> a.terms = {} \/ b.terms = {}
    <3>1. ASSUME a.terms # {}, b.terms # {} PROVE c.terms # {}
      <4>1. PICK s \in a.terms, t \in b.terms : TRUE
        BY <3>1
      <4>2. s \cup t \in c.terms
        BY <2>2
      <4> QED BY <4>2
    <3>2. ASSUME a.terms = {} \/ b.terms = {} PROVE c.terms = {}
      BY <2>2, <3>2
    <3> QED BY <3>1, <3>2
  <2>6. \A t \in c.terms : t \subseteq Literals
    BY <2>2, <2>3 DEF AreProducts
  <2>7. AreProducts(c)
    BY <2>3, <2>4, <2>5, <2>6 DEF AreProducts
  <2>8. DnfTrue(c.terms, w) <=> DnfTrue(a.terms, w) /\ DnfTrue(b.terms, w)
    <3>1. ASSUME DnfTrue(c.terms, w) PROVE DnfTrue(a.terms, w) /\ DnfTrue(b.terms, w)
      <4>1. PICK s \in a.terms, t \in b.terms : \A x \in s \cup t : LiteralTrue(x, w)
        BY <2>2, <3>1 DEF DnfTrue
      <4> QED BY <4>1 DEF DnfTrue
    <3>2. ASSUME DnfTrue(a.terms, w), DnfTrue(b.terms, w) PROVE DnfTrue(c.terms, w)
      <4>1. PICK s \in a.terms : \A x \in s : LiteralTrue(x, w)
        BY <3>2 DEF DnfTrue
      <4>2. PICK t \in b.terms : \A x \in t : LiteralTrue(x, w)
        BY <3>2 DEF DnfTrue
      <4>3. s \cup t \in c.terms /\ \A x \in s \cup t : LiteralTrue(x, w)
        BY <2>2, <4>1, <4>2
      <4> QED BY <4>3 DEF DnfTrue
    <3> QED BY <3>1, <3>2
  <2>9. AreProducts(c) /\ (DnfTrue(c.terms, w) <=> DnfTrue(a.terms, w) /\ y)
    BY <2>3, <2>7, <2>8
  <2> QED BY <2>9 DEF c
<1> QED BY <1>1, <1>2

(* Operands are combined one after the other.                              *)
CombineStep(kind, a, b) == IF kind = "or" THEN Added(a, b) ELSE Multiplied(a, b)

(* The loop of dist over the operands, step by step.                       *)
LEMMA CombinedRuns ==
    ASSUME NEW kind, NEW parts, Len(parts) \in Nat
    PROVE  \E acc : /\ acc[0] = IF kind = "or" THEN Nothing ELSE Everything
                    /\ \A i \in 1..Len(parts) : acc[i] = CombineStep(kind, acc[i - 1], parts[i])
                    /\ Combined(kind, parts) = acc[Len(parts)]
<1> DEFINE start == IF kind = "or" THEN Nothing ELSE Everything
           N == Len(parts)
           F(i, was) == CombineStep(kind, was, parts[i])
           Upto(m, f) == f = [i \in 0..m |-> IF i = 0 THEN start ELSE F(i, f[i - 1])]
           S == {m \in Nat : \E f : Upto(m, f)}
           value == CHOOSE f : Upto(N, f)
<1>1. Combined(kind, parts) = value[N]
  BY DEF Combined, CombineStep
<1> HIDE DEF F, start
<1>2. 0 \in S
  <2>1. Upto(0, [i \in 0..0 |-> start])
    OBVIOUS
  <2> HIDE DEF Upto
  <2> QED BY <2>1
<1>3. ASSUME NEW m \in Nat, m \in S PROVE m + 1 \in S
  <2>1. PICK f : Upto(m, f)
    BY <1>3
  <2> DEFINE g == [i \in 0..(m + 1) |-> IF i = m + 1 THEN F(i, f[m]) ELSE f[i]]
             h == [i \in 0..(m + 1) |-> IF i = 0 THEN start ELSE F(i, g[i - 1])]
  <2>2. \A i \in 0..(m + 1) : g[i] = h[i]
    <3> SUFFICES ASSUME NEW i \in 0..(m + 1) PROVE g[i] = h[i]
      OBVIOUS
    <3>1. CASE i = 0
      BY <2>1, <3>1
    <3>2. CASE i \in 1..m
      <4>1. i - 1 \in 0..m /\ g[i - 1] = f[i - 1] /\ g[i] = f[i]
        BY <3>2
      <4>2. f[i] = F(i, f[i - 1])
        BY <2>1, <3>2
      <4> QED BY <3>2, <4>1, <4>2
    <3>3. CASE i = m + 1
      <4>1. g[m] = f[m] /\ i # 0 /\ i - 1 = m
        BY <3>3
      <4> QED BY <3>3, <4>1
    <3> QED BY <3>1, <3>2, <3>3
  <2>3. g = [i \in 0..(m + 1) |-> g[i]] /\ h = [i \in 0..(m + 1) |-> h[i]]
    OBVIOUS
  <2>4. g = h
    <3> HIDE DEF g, h
    <3> QED BY <2>2, <2>3
  <2>5. Upto(m + 1, g)
    BY <2>4
  <2> HIDE DEF g, h, Upto
  <2> QED BY <2>5
<1>4. Upto(N, value)
  <2>1. Nat \subseteq S
    <3> HIDE DEF S
    <3> QED BY <1>2, <1>3, SetInduction
  <2>2. \E f : Upto(N, f)
    BY <2>1
  <2> HIDE DEF Upto
  <2> QED BY <2>2
<1> HIDE DEF value
<1>5. value[0] = start /\ \A i \in 1..N : value[i] = F(i, value[i - 1])
  BY <1>4
<1> QED BY <1>1, <1>5 DEF start, F

(* The products of an AND are true where all operands are, those of an OR  *)
(* where one is, unless the guard raised.                                  *)
LEMMA CombinedIsRight ==
    ASSUME NEW kind \in {"and", "or"}, NEW parts, Len(parts) \in Nat, NEW w, NEW y,
           \A i \in 1..Len(parts) :
             /\ y[i] \in BOOLEAN
             /\ parts[i] # Raised => AreProducts(parts[i]) /\ (DnfTrue(parts[i].terms, w) <=> y[i]),
           Combined(kind, parts) # Raised
    PROVE  LET c == Combined(kind, parts)
           IN  /\ AreProducts(c)
               /\ DnfTrue(c.terms, w) <=> IF kind = "or" THEN \E i \in 1..Len(parts) : y[i]
                                          ELSE \A i \in 1..Len(parts) : y[i]
<1>1. PICK acc : /\ acc[0] = IF kind = "or" THEN Nothing ELSE Everything
                 /\ \A i \in 1..Len(parts) : acc[i] = CombineStep(kind, acc[i - 1], parts[i])
                 /\ Combined(kind, parts) = acc[Len(parts)]
  BY CombinedRuns
<1> DEFINE Sum(m) == IF kind = "or" THEN \E i \in 1..m : y[i] ELSE \A i \in 1..m : y[i]
           Good(m) == acc[m] # Raised => AreProducts(acc[m]) /\ (DnfTrue(acc[m].terms, w) <=> Sum(m))
           S == {m \in Nat : m <= Len(parts) => Good(m)}
<1>2. 0 \in S
  <2>1. AreProducts(Nothing) /\ ~DnfTrue(Nothing.terms, w)
    BY DEF AreProducts, Nothing, Products, DnfTrue
  <2>2. AreProducts(Everything) /\ DnfTrue(Everything.terms, w)
    <3>1. Everything.terms = {{}} /\ Everything.count = 1
      BY DEF Everything, Products
    <3>2. \E t \in {{}} : \A x \in t : LiteralTrue(x, w)
      OBVIOUS
    <3>4. DnfTrue(Everything.terms, w)
      BY <3>1, <3>2 DEF DnfTrue
    <3>5. AreProducts(Everything)
      BY OnlyProduct DEF Everything
    <3> QED BY <3>4, <3>5
  <2>3. Sum(0) <=> kind # "or"
    OBVIOUS
  <2> HIDE DEF Sum
  <2> QED BY <1>1, <2>1, <2>2, <2>3
<1>3. ASSUME NEW m \in Nat, m \in S PROVE m + 1 \in S
  <2> SUFFICES ASSUME m + 1 <= Len(parts), acc[m + 1] # Raised
               PROVE  AreProducts(acc[m + 1]) /\ (DnfTrue(acc[m + 1].terms, w) <=> Sum(m + 1))
    OBVIOUS
  <2>1. m + 1 \in 1..Len(parts) /\ acc[m + 1] = CombineStep(kind, acc[m], parts[m + 1])
    <3>1. m + 1 \in 1..Len(parts) /\ (m + 1) - 1 = m
      OBVIOUS
    <3> QED BY <1>1, <3>1
  <2>2. acc[m] # Raised
    BY <2>1 DEF CombineStep, Added, Multiplied
  <2>3. AreProducts(acc[m]) /\ (DnfTrue(acc[m].terms, w) <=> Sum(m))
    BY <1>3, <2>2
  <2>4. /\ y[m + 1] \in BOOLEAN
        /\ parts[m + 1] # Raised => AreProducts(parts[m + 1]) /\ (DnfTrue(parts[m + 1].terms, w) <=> y[m + 1])
    BY <2>1
  <2>5. CASE kind = "or"
    <3>1. acc[m + 1] = Added(acc[m], parts[m + 1]) /\ parts[m + 1] # Raised
      BY <2>1, <2>5 DEF CombineStep, Added
    <3>2. AreProducts(acc[m + 1]) /\ (DnfTrue(acc[m + 1].terms, w) <=> DnfTrue(acc[m].terms, w) \/ y[m + 1])
      BY <2>2, <2>3, <2>4, <3>1, AddedIsOr
    <3>3. Sum(m + 1) <=> Sum(m) \/ y[m + 1]
      BY <2>5
    <3> HIDE DEF Sum
    <3> QED BY <2>3, <3>2, <3>3
  <2>6. CASE kind = "and"
    <3>1. acc[m + 1] = Multiplied(acc[m], parts[m + 1])
      BY <2>1, <2>6 DEF CombineStep
    <3>2. AreProducts(acc[m + 1]) /\ (DnfTrue(acc[m + 1].terms, w) <=> DnfTrue(acc[m].terms, w) /\ y[m + 1])
      BY <2>2, <2>3, <2>4, <3>1, MultipliedIsAnd
    <3>3. Sum(m + 1) <=> Sum(m) /\ y[m + 1]
      BY <2>6
    <3> HIDE DEF Sum
    <3> QED BY <2>3, <3>2, <3>3
  <2> QED BY <2>5, <2>6
<1>4. Good(Len(parts))
  <2>1. Nat \subseteq S
    <3> HIDE DEF S
    <3> QED BY <1>2, <1>3, SetInduction
  <2> QED BY <2>1
<1> QED BY <1>1, <1>4

(* Dist adds up the products of all nodes, each from those of its          *)
(* operands.                                                               *)
LEMMA ProductsExist ==
    ASSUME NEW e, Whole(e)
    PROVE  \E d : /\ \A k \in 1..Len(e) : d[k] = IF e[k] = Raised THEN Raised ELSE DistNode(e, e[k], d)
                  /\ Dist(e) = d[Len(e)]
<1> DEFINE F(k, f) == IF e[k] = Raised THEN Raised ELSE DistNode(e, e[k], f)
           Upto(m, f) == f = [k \in 1..m |-> F(k, f)]
           S == {m \in Nat : m <= Len(e) => \E f : Upto(m, f)}
           value == CHOOSE f : Upto(Len(e), f)
<1>1. Dist(e) = value[Len(e)]
  BY DEF Dist
<1>2. ASSUME NEW k \in 1..Len(e), NEW f, NEW g, \A j \in 1..k-1 : f[j] = g[j]
      PROVE  F(k, f) = F(k, g)
  <2>1. CASE e[k] = Raised
    BY <2>1
  <2>2. CASE e[k] # Raised
    <3>1. e[k] \in Nodes /\ \A x \in Operands(e[k]) : f[x] = g[x]
      BY <1>2, <2>2 DEF Whole, Sound
    <3>2. CASE IsNary(e[k]) /\ Operands(e[k]) = {e[k].of[i] : i \in DOMAIN e[k].of}
      <4>1. [i \in DOMAIN e[k].of |-> f[e[k].of[i]]] = [i \in DOMAIN e[k].of |-> g[e[k].of[i]]]
        BY <3>1, <3>2
      <4>2. DistNode(e, e[k], f) = DistNode(e, e[k], g)
        BY <4>1 DEF DistNode
      <4> QED BY <4>2
    <3>3. CASE e[k].kind \in {"var", "const", "cmp", "not"}
      BY <3>3 DEF DistNode
    <3> QED BY <3>1, <3>2, <3>3, NodeKinds
  <2> QED BY <2>1, <2>2
<1> HIDE DEF F
<1>4. 0 \in S
  <2>1. Upto(0, [k \in 1..0 |-> TRUE])
    OBVIOUS
  <2> HIDE DEF Upto
  <2> QED BY <2>1
<1>5. ASSUME NEW m \in Nat, m \in S PROVE m + 1 \in S
  <2> SUFFICES ASSUME m + 1 <= Len(e) PROVE \E f : Upto(m + 1, f)
    OBVIOUS
  <2>1. PICK f : Upto(m, f)
    BY <1>5 DEF Whole, Sound
  <2> DEFINE g == [k \in 1..(m + 1) |-> F(k, f)]
             h == [k \in 1..(m + 1) |-> F(k, g)]
  <2>2. \A j \in 1..m : f[j] = g[j]
    BY <2>1
  <2>3. \A k \in 1..(m + 1) : F(k, f) = F(k, g)
    <3> TAKE k \in 1..(m + 1)
    <3>1. k \in 1..Len(e) /\ \A j \in 1..k-1 : j \in 1..m
      BY DEF Whole, Sound
    <3> HIDE DEF g
    <3> QED BY <1>2, <2>2, <3>1
  <2>5. g = h
    BY <2>3
  <2>6. Upto(m + 1, g)
    BY <2>5
  <2> HIDE DEF g, h, Upto
  <2> QED BY <2>6
<1>6. Upto(Len(e), value)
  <2>1. Nat \subseteq S
    <3> HIDE DEF S
    <3> QED BY <1>4, <1>5, SetInduction
  <2>2. \E f : Upto(Len(e), f)
    BY <2>1 DEF Whole, Sound
  <2> HIDE DEF Upto
  <2> QED BY <2>2
<1> HIDE DEF value
<1>7. \A k \in 1..Len(e) : value[k] = F(k, value)
  BY <1>6
<1> QED BY <1>1, <1>7 DEF F

(* One literal is a product. *)
LEMMA OneIsRight ==
    ASSUME NEW x \in Literals, NEW w
    PROVE  AreProducts(One(x)) /\ (DnfTrue(One(x).terms, w) <=> LiteralTrue(x, w))
<1>1. One(x).terms = {{x}} /\ One(x).count = 1
  BY DEF One, Products
<1>2. {x} \subseteq Literals
  OBVIOUS
<1>3. AreProducts(One(x))
  BY <1>2, OnlyProduct DEF One
<1>4. DnfTrue(One(x).terms, w) <=> LiteralTrue(x, w)
  BY <1>1 DEF DnfTrue
<1> QED BY <1>3, <1>4

(* A literal has the value of the variable or the comparison it stands     *)
(* for.                                                                    *)
LEMMA LiteralValues ==
    ASSUME NEW n, NEW op, NEW k, NEW w
    PROVE  /\ LiteralTrue(Literal(<<n>>, FALSE), w) <=> n \in w.on
           /\ LiteralTrue(Literal(<<n>>, TRUE), w) <=> n \notin w.on
           /\ LiteralTrue(Literal(<<n, op, k>>, FALSE), w) <=> Compare(w.level[n], op, k)
<1>1. Literal(<<n>>, FALSE).name = <<n>> /\ Literal(<<n>>, FALSE).neg = FALSE
  BY DEF Literal
<1>2. Literal(<<n>>, TRUE).name = <<n>> /\ Literal(<<n>>, TRUE).neg = TRUE
  BY DEF Literal
<1>3. Literal(<<n, op, k>>, FALSE).name = <<n, op, k>> /\ Literal(<<n, op, k>>, FALSE).neg = FALSE
  BY DEF Literal
<1>4. Len(<<n>>) = 1 /\ Len(<<n, op, k>>) = 3 /\ <<n>>[1] = n
        /\ <<n, op, k>>[1] = n /\ <<n, op, k>>[2] = op /\ <<n, op, k>>[3] = k
  OBVIOUS
<1> HIDE DEF Literal
<1>0. \A b \in BOOLEAN : (b # FALSE <=> b) /\ (b # TRUE <=> ~b)
  OBVIOUS
<1>5. LiteralTrue(Literal(<<n>>, FALSE), w) <=> n \in w.on
  <2>1. LiteralTrue(Literal(<<n>>, FALSE), w) <=> (n \in w.on) # FALSE
    BY <1>1, <1>4 DEF LiteralTrue
  <2>2. CASE n \in w.on
    BY <2>1, <2>2
  <2>3. CASE n \notin w.on
    <3>1. (n \in w.on) = FALSE
      BY <2>3
    <3>2. ~((n \in w.on) # FALSE)
      BY <3>1
    <3> QED BY <2>1, <2>3, <3>2, Zenon
  <2> QED BY <2>2, <2>3
<1>6. LiteralTrue(Literal(<<n>>, TRUE), w) <=> n \notin w.on
  <2>1. LiteralTrue(Literal(<<n>>, TRUE), w) <=> (n \in w.on) # TRUE
    BY <1>2, <1>4 DEF LiteralTrue
  <2> QED BY <1>0, <2>1
<1>7. LiteralTrue(Literal(<<n, op, k>>, FALSE), w) <=> Compare(w.level[n], op, k)
  <2> DEFINE x == Literal(<<n, op, k>>, FALSE)
  <2>0. x.name = <<n, op, k>> /\ x.neg = FALSE
    BY <1>3
  <2> HIDE DEF x
  <2>a. Len(x.name) # 1 /\ x.name[1] = n /\ x.name[2] = op /\ x.name[3] = k /\ x.neg = FALSE
    BY <1>4, <2>0
  <2>b. LiteralTrue(x, w) = (Compare(w.level[n], op, k) # FALSE)
    BY <2>a, Zenon DEF LiteralTrue
  <2>1. LiteralTrue(Literal(<<n, op, k>>, FALSE), w) <=> Compare(w.level[n], op, k) # FALSE
    BY <2>b DEF x
  <2>2. Compare(w.level[n], op, k) \in BOOLEAN
    BY DEF Compare
  <2> QED BY <1>0, <2>1, <2>2
<1> QED BY <1>5, <1>6, <1>7

(* What Literal makes of tokens is a literal, and a comparison is never    *)
(* negated.                                                                *)
LEMMA LiteralKinds ==
    /\ \A n \in Tokens, b \in BOOLEAN : Literal(<<n>>, b) \in Literals
    /\ \A n \in Tokens, op \in CmpOps, k \in Int : Literal(<<n, op, k>>, FALSE) \in Literals
    /\ \A x \in Literals : x.neg \in BOOLEAN /\ (Len(x.name) = 3 => ~x.neg)
<1>1. \A n \in Tokens, b \in BOOLEAN : Literal(<<n>>, b) \in Literals
  BY DEF Literals, Literal
<1>2. ASSUME NEW n \in Tokens, NEW op \in CmpOps, NEW k \in Int
      PROVE  Literal(<<n, op, k>>, FALSE) \in Literals
  <2>1. <<n, op, k>> \in Tokens \X CmpOps \X Int
    OBVIOUS
  <2>2. [name |-> <<n, op, k>>, neg |-> FALSE] \in [name: Tokens \X CmpOps \X Int, neg: {FALSE}]
    BY <2>1
  <2> QED BY <2>2 DEF Literals, Literal
<1>3. ASSUME NEW x \in Literals
      PROVE  x.neg \in BOOLEAN /\ (Len(x.name) = 3 => ~x.neg)
  <2>1. CASE x \in [name: {<<n>> : n \in Tokens}, neg: BOOLEAN]
    <3>1. PICK n \in Tokens : x.name = <<n>>
      BY <2>1
    <3>2. Len(x.name) = 1
      BY <3>1
    <3> QED BY <2>1, <3>2
  <2>2. CASE x \in [name: Tokens \X CmpOps \X Int, neg: {FALSE}]
    <3>1. x.neg = FALSE
      BY <2>2
    <3> QED BY <3>1
  <2> QED BY <2>1, <2>2 DEF Literals
<1> QED BY <1>1, <1>2, <1>3

(* The products of a node, given those of its operands.                    *)
LEMMA ProductsOfNode ==
    ASSUME NEW d, Whole(d), NotsAreInside(d), NEW w, NEW v, Values(d, v, w), NEW D,
           NEW k \in 1..Len(d), d[k] # Raised, D[k] = DistNode(d, d[k], D), D[k] # Raised,
           \A j \in 1..k-1 : d[j] # Raised /\ D[j] # Raised =>
             AreProducts(D[j]) /\ (DnfTrue(D[j].terms, w) <=> v[j])
    PROVE  AreProducts(D[k]) /\ (DnfTrue(D[k].terms, w) <=> v[k])
<1> DEFINE n == d[k]
<1>1. n \in Nodes /\ Operands(n) \subseteq 1..k-1 /\ \A x \in Operands(n) : d[x] # Raised
  BY DEF Whole, Sound
<1>2. D[k] = DistNode(d, n, D) /\ (v[k] <=> NodeTrue(n, v, w)) /\ \A j \in 1..k-1 : j \in 1..Len(d)
  BY DEF Values, Whole, Sound
<1>3. n.kind = "not" => d[n.of].kind = "var"
  BY DEF NotsAreInside, Whole, Sound
<1> HIDE DEF n
<1>4. CASE n.kind = "var" /\ n.name \in Tokens
  <2> DEFINE x == Literal(<<n.name>>, FALSE)
  <2>1. D[k] = One(x)
    BY <1>2, <1>4 DEF DistNode
  <2>2. x \in Literals
    BY <1>4, LiteralKinds
  <2>3. LiteralTrue(x, w) <=> n.name \in w.on
    BY LiteralValues
  <2>4. NodeTrue(n, v, w) <=> n.name \in w.on
    BY <1>4 DEF NodeTrue
  <2> HIDE DEF x
  <2> QED BY <1>2, <2>1, <2>2, <2>3, <2>4, OneIsRight
<1>5. CASE n.kind = "not" /\ n.of \in Nat /\ Operands(n) = {n.of}
  <2> DEFINE m == d[n.of]
             x == Literal(<<m.name>>, TRUE)
  <2>1. D[k] = One(x)
    BY <1>2, <1>5 DEF DistNode
  <2>2. n.of \in 1..Len(d) /\ m # Raised /\ m.kind = "var" /\ m \in Nodes
    BY <1>1, <1>2, <1>3, <1>5 DEF Whole, Sound
  <2>3. m.name \in Tokens /\ (v[n.of] <=> m.name \in w.on)
    <3>1. v[n.of] <=> NodeTrue(m, v, w)
      BY <2>2 DEF Values
    <3> HIDE DEF m
    <3> QED BY <2>2, <3>1, NodeKinds DEF NodeTrue, IsNary
  <2>4. x \in Literals
    BY <2>3, LiteralKinds
  <2>5. LiteralTrue(x, w) <=> m.name \notin w.on
    BY LiteralValues
  <2>6. NodeTrue(n, v, w) <=> ~v[n.of]
    BY <1>5 DEF NodeTrue
  <2> HIDE DEF x, m
  <2> QED BY <1>2, <2>1, <2>3, <2>4, <2>5, <2>6, OneIsRight
<1>6. CASE n.kind = "const" /\ n.value \in BOOLEAN
  <2>1. NodeTrue(n, v, w) <=> n.value
    BY <1>6 DEF NodeTrue
  <2>2. AreProducts(Nothing) /\ ~DnfTrue(Nothing.terms, w)
    BY DEF AreProducts, Nothing, Products, DnfTrue
  <2>3. AreProducts(Everything) /\ DnfTrue(Everything.terms, w)
    <3>1. Everything.terms = {{}}
      BY DEF Everything, Products
    <3>2. \E t \in {{}} : \A x \in t : LiteralTrue(x, w)
      OBVIOUS
    <3> QED BY <3>1, <3>2, OnlyProduct DEF Everything, DnfTrue
  <2>4. CASE n.value
    <3>1. D[k] = Everything
      BY <1>2, <1>6, <2>4 DEF DistNode
    <3> QED BY <1>2, <2>1, <2>3, <2>4, <3>1
  <2>5. CASE ~n.value
    <3>1. D[k] = Nothing
      BY <1>2, <1>6, <2>5 DEF DistNode
    <3> QED BY <1>2, <2>1, <2>2, <2>5, <3>1
  <2> QED BY <2>4, <2>5
<1>7. CASE n.kind = "cmp" /\ n.name \in Tokens /\ n.op \in CmpOps /\ n.number \in Int
  <2> DEFINE x == Literal(<<n.name, n.op, n.number>>, FALSE)
  <2>1. D[k] = One(x)
    BY <1>2, <1>7 DEF DistNode, CmpName
  <2>2. x \in Literals
    BY <1>7, LiteralKinds
  <2>3. LiteralTrue(x, w) <=> Compare(w.level[n.name], n.op, n.number)
    BY LiteralValues
  <2>4. NodeTrue(n, v, w) <=> Compare(w.level[n.name], n.op, n.number)
    BY <1>7 DEF NodeTrue
  <2> HIDE DEF x
  <2> QED BY <1>2, <2>1, <2>2, <2>3, <2>4, OneIsRight
<1>8. CASE n.kind \in {"and", "or"} /\ n.of \in Seq(Nat) /\ Operands(n) = {n.of[i] : i \in DOMAIN n.of}
  <2> DEFINE parts == [i \in DOMAIN n.of |-> D[n.of[i]]]
             y == [i \in DOMAIN n.of |-> v[n.of[i]]]
             N == Len(n.of)
  <2>1. D[k] = Combined(n.kind, parts)
    BY <1>2, <1>8 DEF DistNode
  <2>2. Len(parts) = N /\ N \in Nat /\ DOMAIN n.of = 1..N
    BY <1>8
  <2>3. \A i \in 1..N : n.of[i] \in 1..k-1 /\ d[n.of[i]] # Raised /\ n.of[i] \in 1..Len(d)
    BY <1>1, <1>2, <1>8, <2>2
  <2>4. \A i \in 1..N : parts[i] = D[n.of[i]] /\ y[i] = v[n.of[i]]
    BY <2>2
  <2> HIDE DEF parts, y
  <2>5. \A i \in 1..N : y[i] \in BOOLEAN
    BY <2>3, <2>4 DEF Values
  <2>6. \A i \in 1..N : parts[i] # Raised => AreProducts(parts[i]) /\ (DnfTrue(parts[i].terms, w) <=> y[i])
    <3> TAKE i \in 1..N
    <3> DEFINE j == n.of[i]
    <3>1. j \in 1..k-1 /\ d[j] # Raised /\ parts[i] = D[j] /\ y[i] = v[j]
      BY <2>3, <2>4
    <3> HIDE DEF j
    <3> QED BY <3>1
  <2> HIDE DEF N
  <2>a. \A i \in 1..Len(parts) :
             /\ y[i] \in BOOLEAN
             /\ parts[i] # Raised => AreProducts(parts[i]) /\ (DnfTrue(parts[i].terms, w) <=> y[i])
    BY <2>2, <2>5, <2>6
  <2>b. Len(parts) \in Nat /\ Combined(n.kind, parts) # Raised /\ n.kind \in {"and", "or"}
    BY <1>8, <2>1, <2>2
  <2>c. LET c == Combined(n.kind, parts)
        IN  /\ AreProducts(c)
            /\ DnfTrue(c.terms, w) <=> IF n.kind = "or" THEN \E i \in 1..Len(parts) : y[i]
                                       ELSE \A i \in 1..Len(parts) : y[i]
    BY <2>a, <2>b, CombinedIsRight
  <2>7. /\ AreProducts(D[k])
        /\ DnfTrue(D[k].terms, w) <=> IF n.kind = "or" THEN \E i \in 1..N : y[i] ELSE \A i \in 1..N : y[i]
    BY <2>1, <2>2, <2>c
  <2>8. NodeTrue(n, v, w) <=> IF n.kind = "or" THEN \E i \in 1..N : y[i] ELSE \A i \in 1..N : y[i]
    <3>1. NodeTrue(n, v, w) <=> IF n.kind = "or" THEN \E i \in 1..N : v[n.of[i]] ELSE \A i \in 1..N : v[n.of[i]]
      BY <1>8, <2>2 DEF NodeTrue
    <3> QED BY <2>4, <3>1
  <2> QED BY <1>2, <2>7, <2>8
<1> QED BY <1>1, <1>4, <1>5, <1>6, <1>7, <1>8, NodeKinds

(* The products of the whole are true where it is.                         *)
LEMMA ProductsMeanTheSame ==
    ASSUME NEW d, Whole(d), NotsAreInside(d), NEW w, Dist(d) # Raised
    PROVE  AreProducts(Dist(d)) /\ (DnfTrue(Dist(d).terms, w) <=> True(d, w))
<1>1. PICK v : Values(d, v, w) /\ True(d, w) = v[Len(d)]
  BY ValuesExist DEF Whole
<1>2. PICK D : /\ \A k \in 1..Len(d) : D[k] = IF d[k] = Raised THEN Raised ELSE DistNode(d, d[k], D)
               /\ Dist(d) = D[Len(d)]
  BY ProductsExist
<1> DEFINE S == {k \in 1..Len(d) : d[k] # Raised /\ D[k] # Raised =>
                   AreProducts(D[k]) /\ (DnfTrue(D[k].terms, w) <=> v[k])}
<1>3. ASSUME NEW k \in 1..Len(d), \A j \in 1..k-1 : j \in S PROVE k \in S
  <2> SUFFICES ASSUME d[k] # Raised, D[k] # Raised
               PROVE  AreProducts(D[k]) /\ (DnfTrue(D[k].terms, w) <=> v[k])
    OBVIOUS
  <2>1. \A j \in 1..k-1 : d[j] # Raised /\ D[j] # Raised =>
             AreProducts(D[j]) /\ (DnfTrue(D[j].terms, w) <=> v[j])
    BY <1>3
  <2>2. D[k] = DistNode(d, d[k], D)
    BY <1>2
  <2> HIDE DEF S
  <2> QED BY <1>1, <2>1, <2>2, ProductsOfNode
<1>4. Len(d) \in 1..Len(d) /\ d[Len(d)] # Raised /\ Len(d) \in Nat
  BY DEF Whole, Sound
<1>5. Len(d) \in S
  <2> HIDE DEF S
  <2> QED BY <1>3, <1>4, PrefixInduction
<1> QED BY <1>1, <1>2, <1>4, <1>5

(* Dropping the products that contradict themselves changes no value, and  *)
(* what is left can be drawn.                                              *)
LEMMA DnfMeansIt ==
    ASSUME NEW d, Whole(d), NotsAreInside(d), ToDnf(d) # Raised
    PROVE  /\ \A w : DnfTrue(ToDnf(d), w) <=> True(d, w)
           /\ \A t \in ToDnf(d) : \A x \in t :
                Literal(x.name, ~x.neg) \notin t /\ (Len(x.name) = 3 => ~x.neg)
<1> DEFINE raw == Dist(d)
<1>1. raw # Raised /\ ToDnf(d) = {t \in raw.terms : ~Contradictory(t)}
  BY DEF ToDnf
<1>2. AreProducts(raw)
  BY <1>1, ProductsMeanTheSame
<1>3. \A w : DnfTrue(raw.terms, w) <=> True(d, w)
  BY <1>1, ProductsMeanTheSame
<1> HIDE DEF raw
<1>4. ASSUME NEW x \in Literals
      PROVE  /\ x.neg \in BOOLEAN /\ (Len(x.name) = 3 => ~x.neg)
             /\ Literal(x.name, ~x.neg).name = x.name /\ Literal(x.name, ~x.neg).neg = ~x.neg
  <2>1. \A n, b : Literal(n, b).name = n /\ Literal(n, b).neg = b
    BY DEF Literal
  <2> QED BY <2>1, LiteralKinds
<1>5. ASSUME NEW t, t \subseteq Literals, Contradictory(t), NEW w
      PROVE  ~(\A x \in t : LiteralTrue(x, w))
  <2>1. PICK x \in t : Literal(x.name, ~x.neg) \in t
    BY <1>5 DEF Contradictory
  <2> DEFINE o == Literal(x.name, ~x.neg)
  <2>2. o.name = x.name /\ o.neg = ~x.neg /\ x.neg \in BOOLEAN
    BY <1>4, <1>5
  <2>3. o \in t
    BY <2>1
  <2> HIDE DEF o
  <2>4. ~(LiteralTrue(x, w) /\ LiteralTrue(o, w))
    <3>1. CASE Len(x.name) = 1
      <4>1. LiteralTrue(x, w) <=> (x.name[1] \in w.on) # x.neg
        BY <3>1 DEF LiteralTrue
      <4>2. LiteralTrue(o, w) <=> (x.name[1] \in w.on) # (~x.neg)
        BY <2>2, <3>1 DEF LiteralTrue
      <4> QED BY <2>2, <4>1, <4>2
    <3>2. CASE Len(x.name) # 1
      <4> DEFINE c == Compare(w.level[x.name[1]], x.name[2], x.name[3])
      <4>1. LiteralTrue(x, w) <=> c # x.neg
        BY <3>2 DEF LiteralTrue
      <4>2. LiteralTrue(o, w) <=> c # (~x.neg)
        BY <2>2, <3>2 DEF LiteralTrue
      <4>3. c \in BOOLEAN
        BY DEF Compare
      <4> HIDE DEF c
      <4> QED BY <2>2, <4>1, <4>2, <4>3
    <3> QED BY <3>1, <3>2
  <2> QED BY <2>3, <2>4
<1>6. \A w : DnfTrue(ToDnf(d), w) <=> True(d, w)
  <2> TAKE w
  <2>1. DnfTrue(ToDnf(d), w) <=> DnfTrue(raw.terms, w)
    BY <1>1, <1>2, <1>5 DEF DnfTrue, AreProducts
  <2> QED BY <1>3, <2>1
<1>7. \A t \in ToDnf(d) : \A x \in t : Literal(x.name, ~x.neg) \notin t /\ (Len(x.name) = 3 => ~x.neg)
  <2> TAKE t \in ToDnf(d)
  <2> TAKE x \in t
  <2>1. t \subseteq Literals /\ ~Contradictory(t)
    BY <1>1, <1>2 DEF AreProducts
  <2>2. Literal(x.name, ~x.neg) \notin t
    BY <2>1 DEF Contradictory
  <2> QED BY <1>4, <2>1, <2>2
<1> QED BY <1>6, <1>7

(* The parser's table has a place for every level and position.            *)
LEMMA RefPlaces ==
    ASSUME NEW toks, Len(toks) \in Nat
    PROVE  /\ \A level \in 1..3, i \in 1..Len(toks) :
                /\ Ref(toks, level, i) \in 1..3 * Len(toks)
                /\ \A l2 \in 1..3, i2 \in 1..Len(toks) :
                     (Ref(toks, l2, i2) < Ref(toks, level, i) <=> i2 > i \/ (i2 = i /\ l2 < level))
           /\ \A k \in 1..3 * Len(toks) :
                /\ ((k - 1) % 3) + 1 \in 1..3 /\ Len(toks) - ((k - 1) \div 3) \in 1..Len(toks)
                /\ Ref(toks, ((k - 1) % 3) + 1, Len(toks) - ((k - 1) \div 3)) = k
<1>1. ASSUME NEW level \in 1..3, NEW i \in 1..Len(toks)
      PROVE  Ref(toks, level, i) \in 1..3 * Len(toks)
  BY DEF Ref
<1>2. ASSUME NEW level \in 1..3, NEW i \in 1..Len(toks), NEW l2 \in 1..3, NEW i2 \in 1..Len(toks)
      PROVE  Ref(toks, l2, i2) < Ref(toks, level, i) <=> i2 > i \/ (i2 = i /\ l2 < level)
  BY DEF Ref
<1>3. ASSUME NEW k \in 1..3 * Len(toks)
      PROVE  /\ ((k - 1) % 3) + 1 \in 1..3 /\ Len(toks) - ((k - 1) \div 3) \in 1..Len(toks)
             /\ Ref(toks, ((k - 1) % 3) + 1, Len(toks) - ((k - 1) \div 3)) = k
  <2> DEFINE q == (k - 1) \div 3
             r == (k - 1) % 3
  <2>1. q \in Int /\ r \in 0..2 /\ k - 1 = 3 * q + r
    OBVIOUS
  <2> HIDE DEF q, r
  <2>2. q >= 0 /\ q < Len(toks)
    BY <2>1
  <2>3. r + 1 \in 1..3 /\ Len(toks) - q \in 1..Len(toks) /\ Ref(toks, r + 1, Len(toks) - q) = k
    BY <2>1, <2>2 DEF Ref
  <2> QED BY <2>3 DEF q, r
<1> QED BY <1>1, <1>2, <1>3

(* What the parser returns at a place: it moves forward, and refers to     *)
(* places filled before, where it did not raise.                           *)
IsResult(toks, level, i, f, r) ==
    \/ r = Fail
    \/ /\ r.node \in Nodes /\ Operands(r.node) \subseteq 1..Ref(toks, level, i) - 1
       /\ \A x \in Operands(r.node) : f[x].node # Raised
       /\ r.list \in Seq(1..Ref(toks, level, i) - 1) /\ (level # 1 => r.list # <<>>)
       /\ \A j \in DOMAIN r.list : f[r.list[j]].node # Raised
       /\ r.next \in i + 1..Len(toks) + 1

ReadBefore(toks, level, i, l2, i2) == i2 > i \/ (i2 = i /\ l2 < level)

(* A comparison, with the number on either side, is read as a node or      *)
(* raises.                                                                 *)
LEMMA ParseCmpResult ==
    ASSUME ExprAssumption, NEW toks \in Seq(Tokens), NEW i \in 1..Len(toks), NEW f,
           i + 1 <= Len(toks), toks[i + 1] \in CmpOps
    PROVE  IsResult(toks, 1, i, f, ParseCmp(toks, i))
<1> DEFINE left == toks[i]
           op == toks[i + 1]
           right == Peek(toks, i + 2)
           r == ParseCmp(toks, i)
<1>0. left \in Tokens /\ op \in CmpOps /\ Len(toks) \in Nat
  OBVIOUS
<1>1. right \in Tokens \/ right = Raised
  BY DEF Peek
<1>2. Raised \notin Tokens
  BY DEF ExprAssumption
<1>3. right \in DOMAIN NumberOf \/ IsName(right) => right \in Tokens /\ i + 2 <= Len(toks)
  <2>1. DOMAIN NumberOf \subseteq Tokens /\ (IsName(right) => right \in Tokens)
    BY DEF Tokens, IsName
  <2> QED BY <1>2, <2>1 DEF Peek
<1>4. ASSUME NEW n \in Tokens, NEW o \in CmpOps, NEW k \in Int
      PROVE  Cmp(n, o, k) \in Nodes /\ Operands(Cmp(n, o, k)) = {}
  BY DEF Cmp, Nodes, Operands, IsNary
<1>5. \/ r = Fail
      \/ i + 2 <= Len(toks) /\ \E n \in Tokens, o \in CmpOps, k \in Int : r = Result(Cmp(n, o, k), <<>>, i + 3)
  <2> HIDE DEF left, op, right
  <2>1. CASE IsNumber(left) /\ IsName(right)
    <3>1. r = Result(Cmp(right, Mirror[op], NumberOf[left]), <<>>, i + 3)
      BY <2>1 DEF ParseCmp, left, op, right
    <3>2. Mirror[op] \in CmpOps /\ NumberOf[left] \in Int /\ right \in Tokens
      BY <1>0, <1>3, <2>1 DEF Mirror, CmpOps, ExprAssumption, IsNumber
    <3> QED BY <1>3, <2>1, <3>1, <3>2
  <2>2. CASE ~IsNumber(left) /\ IsNumber(right)
    <3>1. r = Result(Cmp(left, op, NumberOf[right]), <<>>, i + 3)
      BY <2>2 DEF ParseCmp, left, op, right
    <3>2. NumberOf[right] \in Int
      BY <2>2 DEF ExprAssumption, IsNumber
    <3> QED BY <1>0, <1>3, <2>2, <3>1, <3>2 DEF IsNumber
  <2>3. CASE ~(IsNumber(left) /\ IsName(right)) /\ ~(~IsNumber(left) /\ IsNumber(right))
    <3>1. r = Fail
      BY <2>3 DEF ParseCmp, left, op, right
    <3> QED BY <3>1
  <2> QED BY <2>1, <2>2, <2>3
<1> HIDE DEF r
<1>6. CASE r # Fail
  <2>1. PICK n \in Tokens, o \in CmpOps, k \in Int : r = Result(Cmp(n, o, k), <<>>, i + 3)
    BY <1>5, <1>6
  <2>2. r.node = Cmp(n, o, k) /\ r.list = <<>> /\ r.next = i + 3
    BY <2>1 DEF Result
  <2>3. r.next \in i + 1..Len(toks) + 1
    BY <1>5, <1>6, <1>0, <2>2
  <2> HIDE DEF r
  <2>4. r.node \in Nodes /\ Operands(r.node) = {} /\ r.list \in Seq(1..Ref(toks, 1, i) - 1) /\ DOMAIN r.list = {}
    BY <1>4, <2>2
  <2>5. IsResult(toks, 1, i, f, r)
    BY <2>3, <2>4 DEF IsResult
  <2> QED BY <2>5 DEF r
<1>7. CASE r = Fail
  BY <1>7 DEF IsResult, r
<1> QED BY <1>6, <1>7

(* The place of a call is in the table, and those of the calls before it   *)
(* are below.                                                              *)
LEMMA RefIn ==
    ASSUME NEW toks \in Seq(Tokens), NEW level \in 1..3, NEW i \in 1..Len(toks)
    PROVE  /\ Len(toks) \in Nat /\ i \in Nat /\ level \in Nat
           /\ Ref(toks, level, i) \in 1..3 * Len(toks) /\ Ref(toks, level, i) \in Nat
           /\ \A l2 \in 1..3, i2 \in 1..Len(toks) :
                ReadBefore(toks, level, i, l2, i2) => Ref(toks, l2, i2) \in 1..Ref(toks, level, i) - 1
<1>1. Len(toks) \in Nat
  OBVIOUS
<1>2. ASSUME NEW l2 \in 1..3, NEW i2 \in 1..Len(toks), ReadBefore(toks, level, i, l2, i2)
      PROVE  Ref(toks, l2, i2) \in 1..Ref(toks, level, i) - 1
  BY <1>1, <1>2 DEF ReadBefore, Ref
<1>3. Ref(toks, level, i) \in 1..3 * Len(toks) /\ Ref(toks, level, i) \in Nat
  BY <1>1 DEF Ref
<1> QED BY <1>1, <1>2, <1>3

(* A sequence over a set is one over any larger set.                       *)
LEMMA WiderSeq ==
    ASSUME NEW S, NEW T, S \subseteq T, NEW s \in Seq(S)
    PROVE  s \in Seq(T)
OBVIOUS

AllReadBefore(toks, level, i, f) ==
    \A l2 \in 1..3, i2 \in 1..Len(toks) :
      ReadBefore(toks, level, i, l2, i2) => IsResult(toks, l2, i2, f, f[Ref(toks, l2, i2)])

(* What a call returns that began further on, or on a level below.         *)
LEMMA BeforeResult ==
    ASSUME ExprAssumption, NEW toks \in Seq(Tokens), NEW level \in 1..3, NEW i \in 1..Len(toks), NEW f,
           AllReadBefore(toks, level, i, f), NEW l2 \in 1..3, NEW i2 \in Nat, ReadBefore(toks, level, i, l2, i2),
           Made(toks, l2, i2, f).node # Raised
    PROVE  LET r == Made(toks, l2, i2, f)
               m == Ref(toks, level, i)
           IN  /\ i2 \in 1..Len(toks) /\ r = f[Ref(toks, l2, i2)] /\ Ref(toks, l2, i2) \in 1..m-1
               /\ r.node \in Nodes /\ Operands(r.node) \subseteq 1..m-1
               /\ \A x \in Operands(r.node) : f[x].node # Raised
               /\ r.list \in Seq(1..m-1) /\ (l2 # 1 => r.list # <<>>)
               /\ \A j \in DOMAIN r.list : f[r.list[j]].node # Raised
               /\ r.next \in i2 + 1..Len(toks) + 1
<1> DEFINE r == Made(toks, l2, i2, f)
           m == Ref(toks, level, i)
           m2 == Ref(toks, l2, i2)
<1>0. Fail.node = Raised
  BY DEF Fail, Result
<1>1. i2 \in 1..Len(toks) /\ r = f[m2]
  BY <1>0 DEF Made
<1>2. m2 \in 1..3 * Len(toks) /\ m \in 1..3 * Len(toks) /\ m2 < m /\ Len(toks) \in Nat
  BY <1>1, RefIn, SMTT(30)
<1>3. IsResult(toks, l2, i2, f, r) /\ r # Fail
  BY <1>0, <1>1 DEF AllReadBefore
<1> HIDE DEF r
<1>4. /\ r.node \in Nodes /\ Operands(r.node) \subseteq 1..m2 - 1
      /\ \A x \in Operands(r.node) : f[x].node # Raised
      /\ r.list \in Seq(1..m2 - 1) /\ (l2 # 1 => r.list # <<>>)
      /\ \A j \in DOMAIN r.list : f[r.list[j]].node # Raised
      /\ r.next \in i2 + 1..Len(toks) + 1
  BY <1>3 DEF IsResult
<1> HIDE DEF m, m2
<1>5. m2 \in 1..m-1 /\ 1..m2-1 \subseteq 1..m-1
  BY <1>2
<1>6. r.list \in Seq(1..m-1)
  <2> DEFINE S == 1..m2-1
             T == 1..m-1
  <2>1. S \subseteq T /\ r.list \in Seq(S)
    BY <1>4, <1>5
  <2> HIDE DEF S, T
  <2>2. r.list \in Seq(T)
    BY <2>1, WiderSeq
  <2> QED BY <2>2 DEF T
<1>7. Operands(r.node) \subseteq 1..m-1
  BY <1>4, <1>5
<1>8. /\ i2 \in 1..Len(toks) /\ r = f[m2] /\ m2 \in 1..m-1
      /\ r.node \in Nodes /\ Operands(r.node) \subseteq 1..m-1
      /\ \A x \in Operands(r.node) : f[x].node # Raised
      /\ r.list \in Seq(1..m-1) /\ (l2 # 1 => r.list # <<>>)
      /\ \A j \in DOMAIN r.list : f[r.list[j]].node # Raised
      /\ r.next \in i2 + 1..Len(toks) + 1
  BY <1>1, <1>4, <1>5, <1>6, <1>7
<1> QED BY <1>8 DEF r, m, m2

(* A result put together from its parts.                                   *)
LEMMA ResultParts ==
    ASSUME NEW toks, NEW level, NEW i, NEW f, NEW n \in Nodes, NEW list, NEW next,
           Operands(n) \subseteq 1..Ref(toks, level, i) - 1,
           \A x \in Operands(n) : f[x].node # Raised,
           list \in Seq(1..Ref(toks, level, i) - 1), level # 1 => list # <<>>,
           \A j \in DOMAIN list : f[list[j]].node # Raised,
           next \in i + 1..Len(toks) + 1
    PROVE  IsResult(toks, level, i, f, Result(n, list, next))
<1> DEFINE r == Result(n, list, next)
<1>1. r.node = n /\ r.list = list /\ r.next = next
  BY DEF Result
<1> HIDE DEF r
<1>2. IsResult(toks, level, i, f, r)
  BY <1>1 DEF IsResult
<1> QED BY <1>2 DEF r

(* parse_not moves forward and refers to what was read before it, or       *)
(* raises.                                                                 *)
LEMMA ParseNotResult ==
    ASSUME ExprAssumption, NEW toks \in Seq(Tokens), NEW i \in 1..Len(toks), NEW f,
           AllReadBefore(toks, 1, i, f)
    PROVE  IsResult(toks, 1, i, f, ParseNot(toks, i, f))
<1> DEFINE r == ParseNot(toks, i, f)
           m == Ref(toks, 1, i)
<1>0. Len(toks) \in Nat /\ i + 1 \in Nat /\ toks[i] \in Tokens /\ m \in Nat /\ 1 \in 1..3 /\ 3 \in 1..3
  <2> HIDE DEF m
  <2>1. m \in Nat
    BY RefIn DEF m
  <2> QED BY <2>1
<1>1. \A l2 \in 1..3 : ReadBefore(toks, 1, i, l2, i + 1)
  BY DEF ReadBefore
<1>2. <<>> \in Seq(1..m-1) /\ DOMAIN <<>> = {}
  OBVIOUS
<1>3. IsResult(toks, 1, i, f, Fail)
  BY DEF IsResult
<1>4. ASSUME NEW n \in Nodes, Operands(n) = {} PROVE IsResult(toks, 1, i, f, Result(n, <<>>, i + 1))
  <2>1. /\ Operands(n) \subseteq 1..m-1 /\ (\A x \in Operands(n) : f[x].node # Raised)
        /\ \A j \in DOMAIN <<>> : f[<<>>[j]].node # Raised
        /\ i + 1 \in i + 1..Len(toks) + 1
    BY <1>0, <1>2, <1>4
  <2> QED BY <1>2, <2>1, ResultParts
<1>5. ASSUME toks[i] = "NOT" PROVE IsResult(toks, 1, i, f, r)
  <2> DEFINE inner == Made(toks, 1, i + 1, f)
             x == Ref(toks, 1, i + 1)
  <2>1. r = ParseNotOf(toks, i, f)
    BY <1>5 DEF ParseNot
  <2>2. CASE inner.node = Raised
    BY <1>3, <2>1, <2>2 DEF ParseNotOf
  <2>3. CASE inner.node # Raised
    <3>1. /\ i + 1 \in 1..Len(toks) /\ inner = f[x] /\ x \in 1..m-1
          /\ inner.next \in (i + 1) + 1..Len(toks) + 1
      BY <1>0, <1>1, <2>3, BeforeResult
    <3>2. r = Result(Neg(x), <<>>, inner.next)
      BY <2>1, <2>3 DEF ParseNotOf
    <3> HIDE DEF inner, x, m, r
    <3>3. Neg(x) \in Nodes /\ Operands(Neg(x)) = {x} /\ f[x].node # Raised
      BY <2>3, <3>1, NegNode
    <3>4. inner.next \in i + 1..Len(toks) + 1
      BY <1>0, <3>1
    <3> QED BY <1>2, <3>1, <3>2, <3>3, <3>4, ResultParts DEF m
  <2> QED BY <2>2, <2>3
<1>6. ASSUME toks[i] = "(" PROVE IsResult(toks, 1, i, f, r)
  <2> DEFINE inner == Made(toks, 3, i + 1, f)
  <2>1. r = ParseGroup(toks, i, f)
    BY <1>6 DEF ParseNot
  <2>2. CASE inner.node = Raised \/ Peek(toks, inner.next) # ")"
    BY <1>3, <2>1, <2>2 DEF ParseGroup
  <2>3. CASE inner.node # Raised /\ Peek(toks, inner.next) = ")"
    <3>1. /\ inner.node \in Nodes /\ Operands(inner.node) \subseteq 1..m-1
          /\ \A x \in Operands(inner.node) : f[x].node # Raised
          /\ inner.next \in (i + 1) + 1..Len(toks) + 1
      BY <1>0, <1>1, <2>3, BeforeResult
    <3>2. r = Result(inner.node, <<>>, inner.next + 1)
      BY <2>1, <2>3 DEF ParseGroup
    <3>3. ")" # Raised
      BY DEF ExprAssumption, Tokens
    <3>4. inner.next \in 1..Len(toks)
      BY <2>3, <3>3 DEF Peek
    <3> HIDE DEF inner, m, r
    <3>5. inner.next + 1 \in i + 1..Len(toks) + 1
      BY <1>0, <3>1, <3>4
    <3> QED BY <1>2, <3>1, <3>2, <3>5, ResultParts DEF m
  <2> QED BY <2>2, <2>3
<1>7. ASSUME toks[i] \in {"TRUE", "FALSE"} PROVE IsResult(toks, 1, i, f, r)
  <2>1. \A b \in BOOLEAN : Const(b) \in Nodes /\ Operands(Const(b)) = {}
    BY DEF Const, Nodes, Operands, IsNary
  <2>2. \E b \in BOOLEAN : r = Result(Const(b), <<>>, i + 1)
    BY <1>7 DEF ParseNot
  <2> QED BY <1>4, <2>1, <2>2
<1>8. ASSUME toks[i] \notin {"NOT", "(", "TRUE", "FALSE"} PROVE IsResult(toks, 1, i, f, r)
  <2>0. r = IF Peek(toks, i + 1) \in CmpOps THEN ParseCmp(toks, i)
            ELSE IF IsNumber(toks[i]) THEN Fail ELSE Result(Var(toks[i]), <<>>, i + 1)
    BY <1>8 DEF ParseNot
  <2>1. CASE Peek(toks, i + 1) \in CmpOps
    <3>1. Raised \notin CmpOps
      BY DEF ExprAssumption, Tokens
    <3>2. i + 1 <= Len(toks) /\ toks[i + 1] \in CmpOps
      BY <2>1, <3>1 DEF Peek
    <3> QED BY <2>0, <2>1, <3>2, ParseCmpResult
  <2>2. CASE Peek(toks, i + 1) \notin CmpOps /\ IsNumber(toks[i])
    BY <1>3, <2>0, <2>2
  <2>3. CASE Peek(toks, i + 1) \notin CmpOps /\ ~IsNumber(toks[i])
    <3>1. Var(toks[i]) \in Nodes /\ Operands(Var(toks[i])) = {}
      BY <1>0 DEF Var, Nodes, Operands, IsNary
    <3> QED BY <1>4, <2>0, <2>3, <3>1
  <2> QED BY <2>1, <2>2, <2>3
<1> QED BY <1>5, <1>6, <1>7, <1>8

(* An AND or OR as a node.                                                 *)
LEMMA ListNode ==
    ASSUME NEW kind \in {"and", "or"}, NEW list \in Seq(Nat)
    PROVE  /\ Nary(kind, list) \in Nodes /\ IsNary(Nary(kind, list))
           /\ Nary(kind, list).kind = kind /\ Nary(kind, list).of = list
           /\ Operands(Nary(kind, list)) = {list[i] : i \in DOMAIN list}
<1> DEFINE n == Nary(kind, list)
<1>1. n \in [kind: {"and", "or"}, of: Seq(Nat)] /\ n.kind = kind /\ n.of = list
  BY DEF Nary
<1> HIDE DEF n
<1>2. n \in Nodes /\ IsNary(n) /\ n.kind # "not"
  BY <1>1 DEF Nodes, IsNary
<1>3. Operands(n) = {list[i] : i \in DOMAIN list}
  BY <1>1, <1>2 DEF Operands
<1> QED BY <1>1, <1>2, <1>3 DEF n

(* So do parse_and and parse_or.                                           *)
LEMMA ParseListResult ==
    ASSUME ExprAssumption, NEW toks \in Seq(Tokens), NEW level \in 2..3, NEW i \in 1..Len(toks), NEW f,
           AllReadBefore(toks, level, i, f)
    PROVE  IsResult(toks, level, i, f, ParseList(toks, level, i, f))
<1> DEFINE r == ParseList(toks, level, i, f)
           m == Ref(toks, level, i)
           first == Ref(toks, level - 1, i)
           one == f[first]
           word == IF level = 2 THEN "AND" ELSE "OR"
           more == Made(toks, level, one.next + 1, f)
           list == <<first>> \o more.list
           kind == IF level = 2 THEN "and" ELSE "or"
<1>0. Len(toks) \in Nat /\ level - 1 \in 1..3 /\ level \in 1..3 /\ m \in Nat /\ i \in Nat
  <2> HIDE DEF m
  <2>1. level - 1 \in 1..3 /\ level \in 1..3
    OBVIOUS
  <2>2. m \in Nat
    BY <2>1, RefIn DEF m
  <2> QED BY <2>1, <2>2
<1>1. IsResult(toks, level, i, f, Fail)
  BY DEF IsResult
<1>2. r = IF one.node = Raised THEN Fail
          ELSE IF Peek(toks, one.next) # word THEN Result(one.node, <<first>>, one.next)
          ELSE IF more.node = Raised THEN Fail
          ELSE Result(Nary(kind, list), list, more.next)
  BY DEF ParseList
<1>3. CASE one.node = Raised
  BY <1>1, <1>2, <1>3
<1>4. CASE one.node # Raised
  <2>0. one = Made(toks, level - 1, i, f)
    BY DEF Made
  <2>1. ReadBefore(toks, level, i, level - 1, i)
    BY DEF ReadBefore
  <2>2. /\ first \in 1..m-1
        /\ one.node \in Nodes /\ Operands(one.node) \subseteq 1..m-1
        /\ \A x \in Operands(one.node) : f[x].node # Raised
        /\ one.next \in i + 1..Len(toks) + 1
    <3> HIDE DEF one, m, first
    <3>1. Made(toks, level - 1, i, f).node # Raised
      BY <1>4, <2>0
    <3> QED BY <1>0, <2>0, <2>1, <3>1, BeforeResult, SMTT(30) DEF m, first
  <2>3. CASE Peek(toks, one.next) # word
    <3>1. r = Result(one.node, <<first>>, one.next)
      BY <1>2, <1>4, <2>3
    <3> HIDE DEF r, m, first, one
    <3>2. <<first>> \in Seq(1..m-1) /\ <<first>> # <<>> /\ \A j \in DOMAIN <<first>> : <<first>>[j] = first
      BY <2>2
    <3>3. f[first].node # Raised
      BY <1>4 DEF one
    <3>4. \A j \in DOMAIN <<first>> : f[<<first>>[j]].node # Raised
      BY <3>2, <3>3
    <3> QED BY <3>4, <2>2, <3>1, <3>2, <3>3, ResultParts DEF m, r
  <2>4. CASE Peek(toks, one.next) = word /\ more.node = Raised
    BY <1>1, <1>2, <1>4, <2>4
  <2>5. CASE Peek(toks, one.next) = word /\ more.node # Raised
    <3>1. r = Result(Nary(kind, list), list, more.next)
      BY <1>2, <1>4, <2>5
    <3>2. one.next + 1 \in Nat /\ ReadBefore(toks, level, i, level, one.next + 1)
      <4> HIDE DEF one
      <4> QED BY <1>0, <2>2 DEF ReadBefore
    <3>3. /\ more.list \in Seq(1..m-1)
          /\ \A j \in DOMAIN more.list : f[more.list[j]].node # Raised
          /\ more.next \in (one.next + 1) + 1..Len(toks) + 1
      <4> DEFINE z == one.next + 1
      <4>1. z \in Nat /\ ReadBefore(toks, level, i, level, z) /\ more = Made(toks, level, z, f)
        BY <3>2
      <4> HIDE DEF one, z, more, m
      <4>2. Made(toks, level, z, f).node # Raised
        BY <2>5, <4>1
      <4>3. /\ more.list \in Seq(1..m-1)
            /\ \A j \in DOMAIN more.list : f[more.list[j]].node # Raised
            /\ more.next \in z + 1..Len(toks) + 1
        <5> DEFINE q == Made(toks, level, z, f)
        <5>1. /\ q.list \in Seq(1..Ref(toks, level, i)-1)
              /\ \A j \in DOMAIN q.list : f[q.list[j]].node # Raised
              /\ q.next \in z + 1..Len(toks) + 1
          BY <1>0, <4>1, <4>2, BeforeResult, SMTT(30)
        <5>2. more = q
          BY <4>1
        <5> HIDE DEF q
        <5> QED BY <5>1, <5>2 DEF m
      <4> QED BY <4>3 DEF z
    <3> HIDE DEF r, m, more, one
    <3>4. list \in Seq(1..m-1) /\ list # <<>> /\ Len(list) = Len(more.list) + 1 /\ list[1] = first
          /\ \A j \in DOMAIN list : j # 1 => j - 1 \in DOMAIN more.list /\ list[j] = more.list[j - 1]
      <4> HIDE DEF first
      <4> QED BY <2>2, <3>3, SMTT(30)
    <3>5. \A j \in DOMAIN list : f[list[j]].node # Raised
      <4> HIDE DEF list, first
      <4>1. f[first].node # Raised
        BY <1>4 DEF one
      <4> QED BY <3>3, <3>4, <4>1
    <3>6. more.next \in i + 1..Len(toks) + 1
      BY <1>0, <2>2, <3>3
    <3> HIDE DEF list, first, kind
    <3>7. list \in Seq(Nat) /\ \A j \in DOMAIN list : list[j] \in 1..m-1
      BY <1>0, <3>4
    <3>8. Nary(kind, list) \in Nodes /\ Operands(Nary(kind, list)) = {list[j] : j \in DOMAIN list}
      <4>1. kind \in {"and", "or"}
        BY DEF kind
      <4> QED BY <3>7, <4>1, ListNode
    <3>9. /\ Operands(Nary(kind, list)) \subseteq 1..m-1
          /\ \A x \in Operands(Nary(kind, list)) : f[x].node # Raised
      BY <3>5, <3>7, <3>8
    <3>10. IsResult(toks, level, i, f, Result(Nary(kind, list), list, more.next))
      <4> DEFINE n == Nary(kind, list)
      <4>1. n \in Nodes /\ Operands(n) \subseteq 1..Ref(toks, level, i) - 1
            /\ \A x \in Operands(n) : f[x].node # Raised
        BY <3>8, <3>9 DEF m
      <4>2. list \in Seq(1..Ref(toks, level, i) - 1)
        BY <3>4 DEF m
      <4> HIDE DEF n
      <4>3. IsResult(toks, level, i, f, Result(n, list, more.next))
        BY <3>4, <3>5, <3>6, <4>1, <4>2, ResultParts
      <4> QED BY <4>3 DEF n
    <3> QED BY <3>1, <3>10 DEF r
  <2> QED BY <2>3, <2>4, <2>5
<1> QED BY <1>3, <1>4

(* So does the call on any level.                                          *)
LEMMA ParseAtResult ==
    ASSUME ExprAssumption, NEW toks \in Seq(Tokens), NEW level \in 1..3, NEW i \in 1..Len(toks), NEW f,
           AllReadBefore(toks, level, i, f)
    PROVE  IsResult(toks, level, i, f, ParseAt(toks, level, i, f))
<1>1. CASE level = 1
  BY <1>1, ParseNotResult DEF ParseAt
<1>2. CASE level # 1
  <2>1. level \in 2..3
    BY <1>2
  <2>2. ParseAt(toks, level, i, f) = ParseList(toks, level, i, f)
    BY <1>2 DEF ParseAt
  <2> QED BY <2>1, <2>2, ParseListResult
<1> QED BY <1>1, <1>2

(* A call looks at no place but those filled before.                       *)
LEMMA ParseLocal ==
    ASSUME ExprAssumption, NEW toks \in Seq(Tokens), NEW level \in 1..3, NEW i \in 1..Len(toks), NEW f, NEW g,
           AllReadBefore(toks, level, i, f), \A j \in 1..Ref(toks, level, i) - 1 : f[j] = g[j]
    PROVE  ParseAt(toks, level, i, f) = ParseAt(toks, level, i, g)
<1>1. ASSUME NEW l2 \in 1..3, NEW i2 \in Nat, ReadBefore(toks, level, i, l2, i2)
      PROVE  Made(toks, l2, i2, f) = Made(toks, l2, i2, g)
  <2>1. CASE i2 \in 1..Len(toks)
    <3>1. Ref(toks, l2, i2) \in 1..Ref(toks, level, i) - 1
      BY <1>1, <2>1, RefIn
    <3> QED BY <2>1, <3>1 DEF Made
  <2>2. CASE i2 \notin 1..Len(toks)
    BY <2>2 DEF Made
  <2> QED BY <2>1, <2>2
<1>2. CASE level = 1
  <2>1. \A l2 \in 1..3 : Made(toks, l2, i + 1, f) = Made(toks, l2, i + 1, g)
    <3>1. i + 1 \in Nat /\ \A l2 \in 1..3 : ReadBefore(toks, level, i, l2, i + 1)
      BY DEF ReadBefore
    <3> QED BY <1>1, <3>1
  <2>2. ParseNotOf(toks, i, f) = ParseNotOf(toks, i, g)
    BY <2>1 DEF ParseNotOf
  <2>3. ParseGroup(toks, i, f) = ParseGroup(toks, i, g)
    BY <2>1 DEF ParseGroup
  <2>4. ParseNot(toks, i, f) = ParseNot(toks, i, g)
    BY <2>2, <2>3 DEF ParseNot
  <2> QED BY <1>2, <2>4 DEF ParseAt
<1>3. CASE level # 1
  <2> DEFINE first == Ref(toks, level - 1, i)
             one == f[first]
             next == one.next + 1
  <2>1. level - 1 \in 1..3 /\ ReadBefore(toks, level, i, level - 1, i) /\ i \in Nat
    BY <1>3 DEF ReadBefore
  <2>2. f[first] = g[first]
    <3>1. first \in 1..Ref(toks, level, i) - 1
      BY <2>1, RefIn
    <3> QED BY <3>1
  <2>3. CASE one.node = Raised
    BY <1>3, <2>2, <2>3 DEF ParseAt, ParseList
  <2>4. CASE one.node # Raised
    <3>1. one = Made(toks, level - 1, i, f)
      BY DEF Made
    <3>2. one.next \in i + 1..Len(toks) + 1
      <4> HIDE DEF one
      <4>1. Made(toks, level - 1, i, f).node # Raised
        BY <2>4, <3>1
      <4>2. Made(toks, level - 1, i, f).next \in i + 1..Len(toks) + 1
        BY <2>1, <4>1, BeforeResult
      <4> QED BY <3>1, <4>2
    <3>3. next \in Nat /\ ReadBefore(toks, level, i, level, next)
      <4> HIDE DEF one
      <4> QED BY <3>2 DEF ReadBefore
    <3>4. Made(toks, level, next, f) = Made(toks, level, next, g)
      <4> HIDE DEF next
      <4> QED BY <1>1, <3>3
    <3> QED BY <1>3, <2>2, <3>4 DEF ParseAt, ParseList
  <2> QED BY <2>3, <2>4
<1> QED BY <1>2, <1>3

(* A result is one as well in a table that agrees below its place.         *)
LEMMA ResultLocal ==
    ASSUME NEW toks, NEW level, NEW i, NEW f, NEW g, NEW r, IsResult(toks, level, i, f, r),
           \A j \in 1..Ref(toks, level, i) - 1 : f[j] = g[j]
    PROVE  IsResult(toks, level, i, g, r)
<1>1. CASE r = Fail
  BY <1>1 DEF IsResult
<1>2. CASE r # Fail
  <2> DEFINE m == Ref(toks, level, i)
  <2>1. /\ r.node \in Nodes /\ Operands(r.node) \subseteq 1..m - 1
        /\ \A x \in Operands(r.node) : f[x].node # Raised
        /\ r.list \in Seq(1..m - 1) /\ (level # 1 => r.list # <<>>)
        /\ \A j \in DOMAIN r.list : f[r.list[j]].node # Raised
        /\ r.next \in i + 1..Len(toks) + 1
    BY <1>2 DEF IsResult
  <2>2. \A j \in 1..m-1 : f[j] = g[j]
    OBVIOUS
  <2> HIDE DEF m
  <2>3. \A x \in Operands(r.node) : g[x].node # Raised
    BY <2>1, <2>2
  <2>4. \A j \in DOMAIN r.list : g[r.list[j]].node # Raised
    <3>1. \A j \in DOMAIN r.list : r.list[j] \in 1..m-1
      <4> DEFINE P == 1..m-1
      <4>1. r.list \in Seq(P)
        BY <2>1
      <4> HIDE DEF P
      <4>2. \A j \in DOMAIN r.list : r.list[j] \in P
        BY <4>1
      <4> QED BY <4>2 DEF P
    <3> QED BY <2>1, <2>2, <3>1
  <2> QED BY <2>1, <2>3, <2>4 DEF IsResult, m
<1> QED BY <1>1, <1>2

(* The table as far as it is filled.                                       *)
Filled(toks, k, f) ==
    \A level \in 1..3, i \in 1..Len(toks) :
      Ref(toks, level, i) <= k =>
        /\ f[Ref(toks, level, i)] = ParseAt(toks, level, i, f)
        /\ IsResult(toks, level, i, f, f[Ref(toks, level, i)])

(* Filling the next place keeps those filled before.                       *)
LEMMA FillOne ==
    ASSUME ExprAssumption, NEW toks \in Seq(Tokens), NEW k \in 1..3 * Len(toks), NEW f, NEW g,
           Filled(toks, k - 1, f), \A j \in 1..k-1 : g[j] = f[j],
           g[k] = ParseAt(toks, ((k - 1) % 3) + 1, Len(toks) - ((k - 1) \div 3), f)
    PROVE  Filled(toks, k, g)
<1>0. Len(toks) \in Nat /\ k \in Nat
  OBVIOUS
<1> SUFFICES ASSUME NEW level \in 1..3, NEW i \in 1..Len(toks), Ref(toks, level, i) <= k
             PROVE  /\ g[Ref(toks, level, i)] = ParseAt(toks, level, i, g)
                    /\ IsResult(toks, level, i, g, g[Ref(toks, level, i)])
  BY DEF Filled
<1> DEFINE m == Ref(toks, level, i)
<1>1. m \in Nat /\ m >= 1 /\ m <= k
  <2> HIDE DEF m
  <2>1. m \in 1..3 * Len(toks)
    BY RefIn DEF m
  <2> QED BY <1>0, <2>1 DEF m
<1>2. \A j \in 1..m-1 : f[j] = g[j]
  <2> TAKE j \in 1..m-1
  <2>1. j \in 1..k-1
    <3> HIDE DEF m
    <3> QED BY <1>0, <1>1
  <2> QED BY <2>1
<1>3. AllReadBefore(toks, level, i, f)
  <2>1. ASSUME NEW l2 \in 1..3, NEW i2 \in 1..Len(toks), ReadBefore(toks, level, i, l2, i2)
        PROVE  Ref(toks, l2, i2) <= k - 1
    <3> DEFINE m2 == Ref(toks, l2, i2)
    <3>1. m2 \in 1..m-1
      BY <2>1, RefIn
    <3> HIDE DEF m, m2
    <3>2. m2 <= k - 1
      BY <1>0, <1>1, <3>1
    <3> QED BY <3>2 DEF m2
  <2> QED BY <2>1 DEF AllReadBefore, Filled
<1>4. g[m] = ParseAt(toks, level, i, f)
  <2>1. CASE m <= k - 1
    <3>1. f[m] = ParseAt(toks, level, i, f)
      BY <2>1 DEF Filled
    <3>2. g[m] = f[m]
      <4> HIDE DEF m
      <4> QED BY <1>0, <1>1, <2>1
    <3> QED BY <3>1, <3>2
  <2>2. CASE m = k
    <3>1. level = ((k - 1) % 3) + 1 /\ i = Len(toks) - ((k - 1) \div 3)
      BY <1>0, <2>2 DEF Ref
    <3>2. g[k] = ParseAt(toks, level, i, f)
      BY <3>1
    <3> QED BY <2>2, <3>2
  <2>3. m <= k - 1 \/ m = k
    <3> HIDE DEF m
    <3> QED BY <1>0, <1>1
  <2> QED BY <2>1, <2>2, <2>3
<1>5. g[m] = ParseAt(toks, level, i, f)
  BY <1>4
<1>6. ParseAt(toks, level, i, f) = ParseAt(toks, level, i, g)
  BY <1>2, <1>3, ParseLocal
<1>7. IsResult(toks, level, i, f, ParseAt(toks, level, i, f))
  BY <1>3, ParseAtResult
<1>8. IsResult(toks, level, i, g, ParseAt(toks, level, i, f))
  BY <1>2, <1>7, ResultLocal
<1> QED BY <1>5, <1>6, <1>8

Results == [node: Nodes \cup {Raised}, list: Seq(Nat), next: Nat]

(* A result has a node or Raised, a list of places and a position.         *)
LEMMA ResultTypes ==
    ASSUME NEW toks \in Seq(Tokens), NEW level \in 1..3, NEW i \in 1..Len(toks), NEW f, NEW r,
           IsResult(toks, level, i, f, r), \E n, list, next : r = Result(n, list, next)
    PROVE  r \in Results
<1>1. CASE r = Fail
  <2>1. <<>> \in Seq(Nat) /\ Raised \in Nodes \cup {Raised}
    OBVIOUS
  <2>2. Result(Raised, <<>>, 0) \in Results
    <3> DEFINE l == <<>>
               ns == Nodes \cup {Raised}
    <3>1. l \in Seq(Nat) /\ Raised \in ns
      BY <2>1
    <3> HIDE DEF l, ns
    <3>2. [node |-> Raised, list |-> l, next |-> 0] \in [node: ns, list: Seq(Nat), next: Nat]
      BY <3>1
    <3> QED BY <3>2 DEF Result, Results, l, ns
  <2> QED BY <1>1, <2>2 DEF Fail
<1>2. CASE r # Fail
  <2> DEFINE m == Ref(toks, level, i)
  <2>1. r.node \in Nodes /\ r.list \in Seq(1..m - 1) /\ r.next \in i + 1..Len(toks) + 1
    BY <1>2 DEF IsResult
  <2>2. m \in Nat /\ Len(toks) \in Nat /\ i \in Nat
    BY RefIn
  <2> HIDE DEF m
  <2>3. r.list \in Seq(Nat)
    <3>1. 1..m - 1 \subseteq Nat
      BY <2>2
    <3> QED BY <2>1, <3>1, WiderSeq
  <2>4. r.next \in Nat
    BY <2>1, <2>2
  <2>5. r = [node |-> r.node, list |-> r.list, next |-> r.next]
    BY DEF Result
  <2> QED BY <2>1, <2>3, <2>4, <2>5 DEF Results
<1> QED BY <1>1, <1>2

(* Whatever a comparison is read as has these three fields.                *)
LEMMA CmpIsRecord ==
    ASSUME NEW toks, NEW i
    PROVE  \E n, list, next : ParseCmp(toks, i) = Result(n, list, next)
<1>1. \A n, list, next : \E n2, list2, next2 : Result(n, list, next) = Result(n2, list2, next2)
  OBVIOUS
<1> HIDE DEF Result
<1>2. \E n, list, next : Fail = Result(n, list, next)
  BY DEF Fail
<1> DEFINE left == toks[i]
           op == toks[i + 1]
           right == Peek(toks, i + 2)
           a == IsNumber(left) /\ IsName(right)
           b == ~IsNumber(left) /\ IsNumber(right)
<1>3. ParseCmp(toks, i) =
        CASE a -> Result(Cmp(right, Mirror[op], NumberOf[left]), <<>>, i + 3)
          [] b -> Result(Cmp(left, op, NumberOf[right]), <<>>, i + 3)
          [] OTHER -> Fail
  BY DEF ParseCmp
<1>4. ~(a /\ b)
  OBVIOUS
<1> HIDE DEF a, b, left, op, right
<1>5. CASE a
  BY <1>3, <1>4, <1>5
<1>6. CASE b
  BY <1>3, <1>4, <1>6
<1>7. CASE ~a /\ ~b
  BY <1>2, <1>3, <1>7
<1> QED BY <1>5, <1>6, <1>7

(* Whatever is read has them.                                              *)
LEMMA ParseIsRecord ==
    ASSUME NEW toks, NEW level, NEW i, NEW f
    PROVE  \E n, list, next : ParseAt(toks, level, i, f) = Result(n, list, next)
<1> HIDE DEF Result
<1>1. \E n, list, next : Fail = Result(n, list, next)
  BY DEF Fail
<1>2. \E n, list, next : ParseNotOf(toks, i, f) = Result(n, list, next)
  BY <1>1 DEF ParseNotOf
<1>3. \E n, list, next : ParseGroup(toks, i, f) = Result(n, list, next)
  BY <1>1 DEF ParseGroup
<1>4. \E n, list, next : ParseNot(toks, i, f) = Result(n, list, next)
  <2>1. CASE toks[i] = "NOT"
    <3>1. ParseNot(toks, i, f) = ParseNotOf(toks, i, f)
      BY <2>1 DEF ParseNot
    <3> QED BY <1>2, <3>1
  <2>2. CASE toks[i] = "("
    <3>1. ParseNot(toks, i, f) = ParseGroup(toks, i, f)
      BY <2>2 DEF ParseNot
    <3> QED BY <1>3, <3>1
  <2>3. CASE toks[i] = "TRUE"
    <3>1. ParseNot(toks, i, f) = Result(Const(TRUE), <<>>, i + 1)
      BY <2>3 DEF ParseNot
    <3> QED BY <3>1
  <2>4. CASE toks[i] = "FALSE"
    <3>1. ParseNot(toks, i, f) = Result(Const(FALSE), <<>>, i + 1)
      BY <2>4 DEF ParseNot
    <3> QED BY <3>1
  <2>5. CASE toks[i] \notin {"NOT", "(", "TRUE", "FALSE"}
    <3>1. ParseNot(toks, i, f) =
            IF Peek(toks, i + 1) \in CmpOps THEN ParseCmp(toks, i)
            ELSE IF IsNumber(toks[i]) THEN Fail ELSE Result(Var(toks[i]), <<>>, i + 1)
      BY <2>5 DEF ParseNot
    <3> QED BY <1>1, <3>1, CmpIsRecord
  <2> QED BY <2>1, <2>2, <2>3, <2>4, <2>5
<1>5. \E n, list, next : ParseList(toks, level, i, f) = Result(n, list, next)
  BY <1>1 DEF ParseList
<1> QED BY <1>4, <1>5 DEF ParseAt

(* The table has one result for every level and position.                  *)
LEMMA ParsedIsFilled ==
    ASSUME ExprAssumption, NEW toks \in Seq(Tokens)
    PROVE  /\ Parsed(toks) \in Seq(Results) /\ Len(Parsed(toks)) = 3 * Len(toks)
           /\ Filled(toks, 3 * Len(toks), Parsed(toks))
<1> DEFINE N == 3 * Len(toks)
           F(k, before) == Append(before, ParseAt(toks, ((k - 1) % 3) + 1, Len(toks) - ((k - 1) \div 3), before))
           Upto(m, f) == f = [k \in 0..m |-> IF k = 0 THEN <<>> ELSE F(k, f[k - 1])]
           S == {m \in Nat : \E f : Upto(m, f)}
           made == CHOOSE f : Upto(N, f)
<1>0. N \in Nat /\ Len(toks) \in Nat
  OBVIOUS
<1>1. Parsed(toks) = made[N]
  BY DEF Parsed
<1> HIDE DEF F
<1>2. 0 \in S
  <2>1. Upto(0, [k \in 0..0 |-> <<>>])
    OBVIOUS
  <2> HIDE DEF Upto
  <2> QED BY <2>1
<1>3. ASSUME NEW m \in Nat, m \in S PROVE m + 1 \in S
  <2>1. PICK f : Upto(m, f)
    BY <1>3
  <2> DEFINE g == [k \in 0..(m + 1) |-> IF k = m + 1 THEN F(k, f[m]) ELSE f[k]]
             h == [k \in 0..(m + 1) |-> IF k = 0 THEN <<>> ELSE F(k, g[k - 1])]
  <2>2. \A k \in 0..(m + 1) : g[k] = h[k]
    <3> SUFFICES ASSUME NEW k \in 0..(m + 1) PROVE g[k] = h[k]
      OBVIOUS
    <3>1. CASE k = 0
      BY <2>1, <3>1
    <3>2. CASE k \in 1..m
      <4>1. k - 1 \in 0..m /\ g[k - 1] = f[k - 1] /\ g[k] = f[k]
        BY <3>2
      <4>2. f[k] = F(k, f[k - 1])
        BY <2>1, <3>2
      <4> QED BY <3>2, <4>1, <4>2
    <3>3. CASE k = m + 1
      <4>1. g[m] = f[m] /\ k # 0 /\ k - 1 = m
        BY <3>3
      <4> QED BY <3>3, <4>1
    <3> QED BY <3>1, <3>2, <3>3
  <2>3. g = [k \in 0..(m + 1) |-> g[k]] /\ h = [k \in 0..(m + 1) |-> h[k]]
    OBVIOUS
  <2>4. g = h
    <3> HIDE DEF g, h
    <3> QED BY <2>2, <2>3
  <2>5. Upto(m + 1, g)
    BY <2>4
  <2> HIDE DEF g, h, Upto
  <2> QED BY <2>5
<1>4. Upto(N, made)
  <2>1. Nat \subseteq S
    <3> HIDE DEF S
    <3> QED BY <1>2, <1>3, SetInduction
  <2>2. \E f : Upto(N, f)
    BY <1>0, <2>1
  <2> HIDE DEF Upto
  <2> QED BY <2>2
<1> HIDE DEF made
<1>5. made[0] = <<>> /\ \A k \in 1..N : made[k] = F(k, made[k - 1])
  <2> HIDE DEF N
  <2> QED BY <1>0, <1>4
<1> DEFINE Good(k) == made[k] \in Seq(Results) /\ Len(made[k]) = k /\ Filled(toks, k, made[k])
           G == {k \in Nat : k <= N => Good(k)}
<1>6. 0 \in G
  <2>1. Filled(toks, 0, <<>>)
    <3>1. \A level \in 1..3, i \in 1..Len(toks) : ~(Ref(toks, level, i) <= 0)
      BY DEF Ref
    <3> QED BY <3>1 DEF Filled
  <2>2. <<>> \in Seq(Results) /\ Len(<<>>) = 0
    OBVIOUS
  <2>3. Good(0)
    BY <1>5, <2>1, <2>2
  <2> HIDE DEF Good
  <2> QED BY <2>3
<1>7. ASSUME NEW m \in Nat, m \in G PROVE m + 1 \in G
  <2> SUFFICES ASSUME m + 1 <= N PROVE Good(m + 1)
    OBVIOUS
  <2> DEFINE k == m + 1
             level == ((k - 1) % 3) + 1
             i == Len(toks) - ((k - 1) \div 3)
             f == made[m]
             x == ParseAt(toks, level, i, f)
             g == made[k]
  <2>1. k \in 1..N /\ k - 1 = m
    BY <1>0
  <2>2. f \in Seq(Results) /\ Len(f) = m /\ Filled(toks, m, f)
    BY <1>0, <1>7
  <2>3. g = Append(f, x)
    <3>1. g = F(k, f)
      BY <1>5, <2>1
    <3> QED BY <3>1 DEF F
  <2>4. level \in 1..3 /\ i \in 1..Len(toks) /\ Ref(toks, level, i) = k
    <3> HIDE DEF k
    <3> QED BY <1>0, <2>1, RefPlaces
  <2> HIDE DEF level, i, f, g, N, made
  <2>5. x \in Results
    <3>1. AllReadBefore(toks, level, i, f)
      <4> SUFFICES ASSUME NEW l2 \in 1..3, NEW i2 \in 1..Len(toks), ReadBefore(toks, level, i, l2, i2)
                   PROVE  IsResult(toks, l2, i2, f, f[Ref(toks, l2, i2)])
        BY DEF AllReadBefore
      <4> DEFINE m2 == Ref(toks, l2, i2)
      <4>1. m2 \in 1..k - 1
        <5>1. m2 \in 1..Ref(toks, level, i) - 1
          BY <2>4, RefIn
        <5> QED BY <2>4, <5>1
      <4>2. m2 <= m
        <5> HIDE DEF m2
        <5> QED BY <4>1
      <4> QED BY <2>2, <4>2 DEF Filled
    <3>2. IsResult(toks, level, i, f, x)
      BY <2>4, <3>1, ParseAtResult
    <3>3. \E n, list, next : x = Result(n, list, next)
      BY ParseIsRecord
    <3> QED BY <2>4, <3>2, <3>3, ResultTypes
  <2>6. g \in Seq(Results) /\ Len(g) = k /\ g[k] = x /\ \A j \in 1..k-1 : g[j] = f[j]
    <3> HIDE DEF x
    <3> QED BY <2>2, <2>3, <2>5
  <2>7. Filled(toks, k, g)
    <3> HIDE DEF k
    <3>1. Filled(toks, k - 1, f)
      BY <2>1, <2>2
    <3> QED BY <2>1, <2>6, <3>1, FillOne DEF N, level, i
  <2> QED BY <2>6, <2>7 DEF g
<1>8. Good(N)
  <2>1. Nat \subseteq G
    <3> HIDE DEF G
    <3> QED BY <1>6, <1>7, SetInduction
  <2> HIDE DEF Good, N
  <2> QED BY <1>0, <2>1
<1> QED BY <1>1, <1>8

(* The nodes of the table.                                                 *)
NodesOf(toks) == [k \in 1..Len(Parsed(toks)) |-> Parsed(toks)[k].node]
At(toks, level, i) == Parsed(toks)[Ref(toks, level, i)]

(* What the finished table holds at a level and position: the result of    *)
(* the call there.                                                         *)
LEMMA TableFacts ==
    ASSUME ExprAssumption, NEW toks \in Seq(Tokens), NEW level \in 1..3, NEW i \in 1..Len(toks)
    PROVE  /\ At(toks, level, i) = ParseAt(toks, level, i, Parsed(toks))
           /\ IsResult(toks, level, i, Parsed(toks), At(toks, level, i))
           /\ Ref(toks, level, i) \in 1..Len(NodesOf(toks))
           /\ NodesOf(toks)[Ref(toks, level, i)] = At(toks, level, i).node
           /\ AllReadBefore(toks, level, i, Parsed(toks))
<1> DEFINE T == Parsed(toks)
           m == Ref(toks, level, i)
<1>1. Len(T) = 3 * Len(toks) /\ Len(T) \in Nat /\ Filled(toks, 3 * Len(toks), T)
  BY ParsedIsFilled
<1>2. ASSUME NEW l2 \in 1..3, NEW i2 \in 1..Len(toks)
      PROVE  /\ T[Ref(toks, l2, i2)] = ParseAt(toks, l2, i2, T)
             /\ IsResult(toks, l2, i2, T, T[Ref(toks, l2, i2)])
  <2>1. Ref(toks, l2, i2) <= 3 * Len(toks)
    <3> DEFINE m2 == Ref(toks, l2, i2)
    <3>1. m2 \in 1..3 * Len(toks)
      BY RefIn
    <3> HIDE DEF m2
    <3>2. m2 <= 3 * Len(toks)
      BY <3>1
    <3> QED BY <3>2 DEF m2
  <2> HIDE DEF T
  <2> QED BY <1>1, <2>1 DEF Filled
<1>3. m \in 1..3 * Len(toks)
  BY RefIn
<1> HIDE DEF T, m
<1>4. Len(NodesOf(toks)) = Len(T) /\ \A k \in 1..Len(T) : NodesOf(toks)[k] = T[k].node
  BY <1>1 DEF NodesOf, T
<1>5. m \in 1..Len(NodesOf(toks)) /\ NodesOf(toks)[m] = T[m].node
  BY <1>1, <1>3, <1>4
<1>6. AllReadBefore(toks, level, i, T)
  BY <1>2 DEF AllReadBefore
<1> QED BY <1>2, <1>5, <1>6 DEF At, T, m

(* The nodes of the table refer to places before them, the last being the  *)
(* whole text.                                                             *)
LEMMA TableIsSound ==
    ASSUME ExprAssumption, NEW toks \in Seq(Tokens), toks # <<>>
    PROVE  /\ Sound(NodesOf(toks)) /\ Len(NodesOf(toks)) = 3 * Len(toks)
           /\ Len(NodesOf(toks)) = Ref(toks, 3, 1) /\ Len(Parsed(toks)) = Len(NodesOf(toks))
<1> DEFINE e == NodesOf(toks)
<1>1. Len(e) = 3 * Len(toks) /\ Len(Parsed(toks)) = 3 * Len(toks) /\ Len(toks) \in Nat \ {0}
        /\ Len(e) \in Nat \ {0}
  BY ParsedIsFilled DEF NodesOf
<1>2. Len(e) = Ref(toks, 3, 1)
  BY <1>1 DEF Ref
<1>3. ASSUME NEW k \in 1..Len(e), e[k] # Raised
      PROVE  /\ e[k] \in Nodes /\ Operands(e[k]) \subseteq 1..k-1
             /\ \A x \in Operands(e[k]) : e[x] # Raised
  <2>1. PICK level \in 1..3, i \in 1..Len(toks) : Ref(toks, level, i) = k
    BY <1>1, RefPlaces
  <2> DEFINE r == At(toks, level, i)
  <2>2. IsResult(toks, level, i, Parsed(toks), r) /\ e[k] = r.node
    BY <2>1, TableFacts
  <2>3. r # Fail
    BY <1>3, <2>2 DEF Fail, Result
  <2> HIDE DEF r
  <2>4. r.node \in Nodes /\ Operands(r.node) \subseteq 1..k-1 /\ \A x \in Operands(r.node) : Parsed(toks)[x].node # Raised
    BY <2>1, <2>2, <2>3 DEF IsResult
  <2>5. \A x \in 1..k-1 : x \in 1..Len(Parsed(toks))
    BY <1>1
  <2>6. \A x \in 1..k-1 : e[x] = Parsed(toks)[x].node
    BY <2>5 DEF NodesOf
  <2> HIDE DEF e
  <2> QED BY <2>2, <2>4, <2>6
<1> HIDE DEF e
<1>4. Sound(e)
  BY <1>1, <1>3 DEF Sound
<1> QED BY <1>1, <1>2, <1>4 DEF e

(* What parse returns is an expression.                                    *)
LEMMA ParseIsWhole ==
    ASSUME ExprAssumption, NEW toks \in Seq(Tokens), Parse(toks) # Raised
    PROVE  Whole(Parse(toks))
<1> DEFINE T == Parsed(toks)
<1>1. T # <<>> /\ T[Len(T)].node # Raised /\ Parse(toks) = NodesOf(toks)
  BY DEF Parse, NodesOf
<1>2. toks # <<>>
  <2>1. Len(T) = 3 * Len(toks) /\ T \in Seq(Results)
    BY ParsedIsFilled
  <2>2. ASSUME toks = <<>> PROVE FALSE
    <3>1. Len(T) = 0
      BY <2>1, <2>2
    <3> HIDE DEF T
    <3>2. T = <<>>
      BY <2>1, <3>1
    <3> QED BY <1>1, <3>2
  <2> QED BY <2>2
<1>3. /\ Sound(NodesOf(toks)) /\ Len(T) = Len(NodesOf(toks)) /\ Len(T) \in Nat /\ Len(T) >= 1
  <2>1. Sound(NodesOf(toks)) /\ Len(T) = Len(NodesOf(toks))
    BY <1>2, TableIsSound
  <2> QED BY <2>1 DEF Sound
<1>4. NodesOf(toks)[Len(T)] = T[Len(T)].node
  BY <1>3 DEF NodesOf
<1> QED BY <1>1, <1>3, <1>4 DEF Whole

(* Where the text t stands in the tokens.                                  *)
Occurs(toks, i, t) ==
    i + Len(t) <= Len(toks) + 1 /\ \A j \in 1..Len(t) : toks[i + j - 1] = t[j]

Word(level) == IF level = 2 THEN "AND" ELSE "OR"

(* The tokens at which a reading on this level ends.                       *)
Ends(level, tok) == tok \notin CmpOps /\ (level >= 2 => tok # "AND") /\ (level = 3 => tok # "OR")

(* What is read from i on, and what it is worth.                           *)
Reads(toks, tv, level, i, len, b) ==
    /\ i \in 1..Len(toks) /\ At(toks, level, i).node # Raised /\ At(toks, level, i).next = i + len
    /\ tv[Ref(toks, level, i)] <=> b

Over(level, tv, list) ==
    IF level = 2 THEN \A j \in DOMAIN list : tv[list[j]] ELSE \E j \in DOMAIN list : tv[list[j]]

Lists(toks, tv, level, i, len, b) ==
    /\ i \in 1..Len(toks) /\ At(toks, level, i).node # Raised /\ At(toks, level, i).next = i + len
    /\ Over(level, tv, At(toks, level, i).list) <=> b

ReadsAs(toks, tv, level, t, b) ==
    \A i \in 1..Len(toks) :
      Occurs(toks, i, t) /\ Ends(level, Peek(toks, i + Len(t))) => Reads(toks, tv, level, i, Len(t), b)

ListsAs(toks, tv, level, t, b) ==
    \A i \in 1..Len(toks) :
      Occurs(toks, i, t) /\ Ends(level, Peek(toks, i + Len(t))) => Lists(toks, tv, level, i, Len(t), b)

(* A list of one operand.                                                  *)
LEMMA ListOfOne ==
    ASSUME ExprAssumption, NEW toks \in Seq(Tokens), NEW tv, NEW level \in 2..3, NEW i, NEW len, NEW b,
           Reads(toks, tv, level - 1, i, len, b), Peek(toks, i + len) # Word(level)
    PROVE  Lists(toks, tv, level, i, len, b)
<1> DEFINE first == Ref(toks, level - 1, i)
           one == Parsed(toks)[first]
<1>1. /\ i \in 1..Len(toks) /\ one.node # Raised /\ one.next = i + len /\ (tv[first] <=> b)
  BY DEF Reads, At
<1>2. At(toks, level, i) = ParseList(toks, level, i, Parsed(toks))
  <2>1. level \in 1..3 /\ level # 1
    OBVIOUS
  <2> QED BY <1>1, <2>1, TableFacts DEF ParseAt
<1>3. At(toks, level, i) = Result(one.node, <<first>>, one.next)
  BY <1>1, <1>2 DEF ParseList, Word
<1> HIDE DEF first, one
<1>4. /\ At(toks, level, i).node # Raised /\ At(toks, level, i).next = i + len
      /\ At(toks, level, i).list = <<first>>
  BY <1>1, <1>3 DEF Result
<1>5. Over(level, tv, <<first>>) <=> tv[first]
  <2>1. DOMAIN <<first>> = {1} /\ <<first>>[1] = first
    OBVIOUS
  <2> QED BY <2>1 DEF Over
<1> QED BY <1>1, <1>4, <1>5 DEF Lists

(* A list that goes on after the word.                                     *)
LEMMA ListOfMore ==
    ASSUME ExprAssumption, NEW toks \in Seq(Tokens), NEW tv, NEW level \in 2..3, NEW i, NEW len \in Nat, NEW len2 \in Nat,
           NEW b \in BOOLEAN, NEW b2 \in BOOLEAN,
           Reads(toks, tv, level - 1, i, len, b), Peek(toks, i + len) = Word(level),
           Lists(toks, tv, level, i + len + 1, len2, b2)
    PROVE  Lists(toks, tv, level, i, len + 1 + len2, IF level = 2 THEN b /\ b2 ELSE b \/ b2)
<1> DEFINE first == Ref(toks, level - 1, i)
           one == Parsed(toks)[first]
           more == At(toks, level, i + len + 1)
           list == <<first>> \o more.list
           kind == IF level = 2 THEN "and" ELSE "or"
<1>1. /\ i \in 1..Len(toks) /\ one.node # Raised /\ one.next = i + len /\ (tv[first] <=> b)
  BY DEF Reads, At
<1>2. /\ i + len + 1 \in 1..Len(toks) /\ more.node # Raised /\ more.next = (i + len + 1) + len2
      /\ Over(level, tv, more.list) <=> b2
  BY DEF Lists
<1>3. level \in 1..3 /\ level # 1 /\ i \in Nat
  BY <1>1
<1>4. At(toks, level, i) = ParseList(toks, level, i, Parsed(toks))
  BY <1>1, <1>3, TableFacts DEF ParseAt
<1>5. Made(toks, level, one.next + 1, Parsed(toks)) = more
  BY <1>1, <1>2 DEF Made, At
<1>6. At(toks, level, i) = Result(Nary(kind, list), list, more.next)
  BY <1>1, <1>2, <1>4, <1>5 DEF ParseList, Word
<1>7. IsResult(toks, level, i + len + 1, Parsed(toks), more)
  BY <1>2, <1>3, TableFacts
<1> HIDE DEF first, one, more
<1>8. \E S : more.list \in Seq(S)
  <2>1. more # Fail
    BY <1>2 DEF Fail, Result
  <2> QED BY <1>7, <2>1 DEF IsResult
<1>9. /\ DOMAIN list = 1..Len(more.list) + 1 /\ Len(more.list) \in Nat /\ DOMAIN more.list = 1..Len(more.list)
      /\ list[1] = first /\ \A j \in 1..Len(more.list) : list[j + 1] = more.list[j]
  BY <1>8
<1> HIDE DEF list
<1>10. Over(level, tv, list) <=> IF level = 2 THEN b /\ b2 ELSE b \/ b2
  <2>1. \A j \in DOMAIN list : j = 1 \/ (j - 1 \in DOMAIN more.list /\ list[j] = more.list[j - 1])
    BY <1>9
  <2>2. \A j \in DOMAIN more.list : j + 1 \in DOMAIN list /\ list[j + 1] = more.list[j]
    BY <1>9
  <2>3. 1 \in DOMAIN list /\ list[1] = first
    BY <1>9
  <2>4. CASE level = 2
    <3>1. Over(level, tv, list) <=> \A j \in DOMAIN list : tv[list[j]]
      BY <2>4 DEF Over
    <3>2. b2 <=> \A j \in DOMAIN more.list : tv[more.list[j]]
      BY <1>2, <2>4 DEF Over
    <3>3. (\A j \in DOMAIN list : tv[list[j]]) <=> b /\ b2
      BY <1>1, <2>1, <2>2, <2>3, <3>2
    <3> QED BY <2>4, <3>1, <3>3
  <2>5. CASE level # 2
    <3>1. Over(level, tv, list) <=> \E j \in DOMAIN list : tv[list[j]]
      BY <2>5 DEF Over
    <3>2. b2 <=> \E j \in DOMAIN more.list : tv[more.list[j]]
      BY <1>2, <2>5 DEF Over
    <3>3. (\E j \in DOMAIN list : tv[list[j]]) <=> b \/ b2
      BY <1>1, <2>1, <2>2, <2>3, <3>2
    <3> QED BY <2>5, <3>1, <3>3
  <2> QED BY <2>4, <2>5
<1>11. /\ At(toks, level, i).next = i + (len + 1 + len2) /\ At(toks, level, i).list = list
       /\ At(toks, level, i).node = Nary(kind, list)
  <2>1. At(toks, level, i).next = more.next
    BY <1>6 DEF Result
  <2>2. more.next = i + (len + 1 + len2)
    BY <1>2, <1>1
  <2> QED BY <1>6, <2>1, <2>2 DEF Result
<1>12. At(toks, level, i).node # Raised
  <2>1. IsResult(toks, level, i, Parsed(toks), At(toks, level, i))
    BY <1>1, <1>3, TableFacts
  <2>2. Nary(kind, list) # Raised
    <3>1. At(toks, level, i) # Fail
      <4>1. Fail.next = 0 /\ i + (len + 1 + len2) # 0
        BY <1>3, <1>1 DEF Fail, Result
      <4> QED BY <1>11, <4>1
    <3>2. At(toks, level, i).node \in Nodes
      BY <2>1, <3>1 DEF IsResult
    <3> QED BY <1>11, <3>2 DEF ExprAssumption
  <2> QED BY <1>11, <2>2
<1> QED BY <1>1, <1>10, <1>11, <1>12 DEF Lists

(* The value of a list is the value of the node made of it.                *)
LEMMA ListValue ==
    ASSUME ExprAssumption, NEW toks \in Seq(Tokens), NEW w, NEW tv, Values(NodesOf(toks), tv, w),
           NEW level \in 2..3, NEW i, NEW len, NEW b, Lists(toks, tv, level, i, len, b)
    PROVE  Reads(toks, tv, level, i, len, b)
<1> DEFINE m == Ref(toks, level, i)
           first == Ref(toks, level - 1, i)
           r == At(toks, level, i)
           one == At(toks, level - 1, i)
           more == Made(toks, level, one.next + 1, Parsed(toks))
           list == <<first>> \o more.list
           kind == IF level = 2 THEN "and" ELSE "or"
<1>1. i \in 1..Len(toks) /\ r.node # Raised /\ r.next = i + len /\ (Over(level, tv, r.list) <=> b)
  BY DEF Lists
<1>2. level \in 1..3 /\ level # 1 /\ level - 1 \in 1..3
  OBVIOUS
<1>3. r = ParseList(toks, level, i, Parsed(toks))
  BY <1>1, <1>2, TableFacts DEF ParseAt
<1>4. /\ m \in 1..Len(NodesOf(toks)) /\ NodesOf(toks)[m] = r.node
      /\ first \in 1..Len(NodesOf(toks)) /\ NodesOf(toks)[first] = one.node
      /\ IsResult(toks, level, i, Parsed(toks), r)
  BY <1>1, <1>2, TableFacts
<1>5. Fail.node = Raised
  BY DEF Fail, Result
<1>6. \/ one.node # Raised /\ r = Result(one.node, <<first>>, one.next)
      \/ r = Result(Nary(kind, list), list, more.next)
  BY <1>1, <1>3, <1>5 DEF ParseList, At
<1>7. tv[m] \in BOOLEAN /\ (tv[m] <=> NodeTrue(r.node, tv, w))
  BY <1>1, <1>4 DEF Values
<1> HIDE DEF m, first, one, more, list, r
<1>8. tv[m] <=> Over(level, tv, r.list)
  <2>1. CASE one.node # Raised /\ r = Result(one.node, <<first>>, one.next)
    <3>1. r.node = one.node /\ r.list = <<first>>
      BY <2>1 DEF Result
    <3>2. tv[first] <=> NodeTrue(one.node, tv, w)
      BY <1>4, <2>1 DEF Values
    <3>3. Over(level, tv, <<first>>) <=> tv[first]
      <4>1. DOMAIN <<first>> = {1} /\ <<first>>[1] = first
        OBVIOUS
      <4> QED BY <4>1 DEF Over
    <3> QED BY <1>7, <3>1, <3>2, <3>3
  <2>2. CASE r = Result(Nary(kind, list), list, more.next)
    <3>1. r.node = Nary(kind, list) /\ r.list = list
      BY <2>2 DEF Result
    <3>2. Nary(kind, list).kind = kind /\ Nary(kind, list).of = list
      BY DEF Nary
    <3>3. CASE level = 2
      BY <1>7, <3>1, <3>2, <3>3 DEF NodeTrue, Over
    <3>4. CASE level # 2
      BY <1>7, <3>1, <3>2, <3>4 DEF NodeTrue, Over
    <3> QED BY <3>3, <3>4
  <2> QED BY <1>6, <2>1, <2>2
<1> QED BY <1>1, <1>8 DEF Reads, m, r

(* Two texts written one after the other stand one after the other.        *)
LEMMA OccursInTwo ==
    ASSUME NEW toks \in Seq(Tokens), NEW i \in Nat, NEW s \in Seq(Tokens), NEW t \in Seq(Tokens),
           Occurs(toks, i, s \o t)
    PROVE  /\ Occurs(toks, i, s) /\ Occurs(toks, i + Len(s), t) /\ Len(s \o t) = Len(s) + Len(t)
<1>1. /\ Len(s) \in Nat /\ Len(t) \in Nat /\ Len(toks) \in Nat /\ Len(s \o t) = Len(s) + Len(t)
      /\ \A j \in 1..Len(s) : (s \o t)[j] = s[j]
      /\ \A j \in 1..Len(t) : (s \o t)[Len(s) + j] = t[j]
  OBVIOUS
<1> DEFINE u == s \o t
<1>2. i + Len(u) <= Len(toks) + 1 /\ \A j \in 1..Len(u) : toks[i + j - 1] = u[j]
  BY DEF Occurs
<1> HIDE DEF u
<1>3. Len(u) = Len(s) + Len(t) /\ (\A j \in 1..Len(s) : u[j] = s[j]) /\ \A j \in 1..Len(t) : u[Len(s) + j] = t[j]
  BY <1>1 DEF u
<1>4. Occurs(toks, i, s)
  <2>1. \A j \in 1..Len(s) : j \in 1..Len(u)
    BY <1>1, <1>3
  <2> QED BY <1>1, <1>2, <1>3, <2>1 DEF Occurs
<1>5. Occurs(toks, i + Len(s), t)
  <2>1. i + Len(s) + Len(t) <= Len(toks) + 1
    BY <1>1, <1>2, <1>3
  <2>2. ASSUME NEW j \in 1..Len(t) PROVE toks[i + Len(s) + j - 1] = t[j]
    <3>1. Len(s) + j \in 1..Len(u)
      BY <1>1, <1>3
    <3>2. toks[i + (Len(s) + j) - 1] = u[Len(s) + j]
      BY <1>2, <3>1
    <3>3. i + (Len(s) + j) - 1 = i + Len(s) + j - 1
      BY <1>1
    <3> QED BY <1>3, <3>2, <3>3
  <2> QED BY <2>1, <2>2 DEF Occurs
<1> QED BY <1>1, <1>4, <1>5

(* A text of one token.                                                    *)
LEMMA OccursOne ==
    ASSUME NEW toks \in Seq(Tokens), NEW i \in Nat \ {0}, NEW x, Occurs(toks, i, <<x>>)
    PROVE  i \in 1..Len(toks) /\ toks[i] = x /\ Peek(toks, i) = x
<1>1. Len(<<x>>) = 1 /\ <<x>>[1] = x /\ 1 \in 1..1 /\ Len(toks) \in Nat /\ i + 1 - 1 = i
  OBVIOUS
<1>2. i + 1 <= Len(toks) + 1 /\ toks[i + 1 - 1] = x
  BY <1>1 DEF Occurs
<1> QED BY <1>1, <1>2 DEF Peek

(* What reads on one level reads on the next.                              *)
LEMMA ReadsUp ==
    ASSUME ExprAssumption, NEW toks \in Seq(Tokens), NEW w, NEW tv, Values(NodesOf(toks), tv, w),
           NEW level \in 2..3, NEW t, NEW b, ReadsAs(toks, tv, level - 1, t, b)
    PROVE  ListsAs(toks, tv, level, t, b) /\ ReadsAs(toks, tv, level, t, b)
<1>1. ASSUME NEW i \in 1..Len(toks), Occurs(toks, i, t), Ends(level, Peek(toks, i + Len(t)))
      PROVE  Lists(toks, tv, level, i, Len(t), b)
  <2>1. Ends(level - 1, Peek(toks, i + Len(t))) /\ Peek(toks, i + Len(t)) # Word(level)
    BY <1>1 DEF Ends, Word
  <2>2. Reads(toks, tv, level - 1, i, Len(t), b)
    BY <1>1, <2>1 DEF ReadsAs
  <2> QED BY <2>1, <2>2, ListOfOne
<1>2. ASSUME NEW i \in 1..Len(toks), Occurs(toks, i, t), Ends(level, Peek(toks, i + Len(t)))
      PROVE  Reads(toks, tv, level, i, Len(t), b)
  BY <1>1, <1>2, ListValue
<1> QED BY <1>1, <1>2 DEF ListsAs, ReadsAs

(* A list in the text.                                                     *)
LEMMA JoinOne ==
    ASSUME ExprAssumption, NEW toks \in Seq(Tokens), NEW w, NEW tv, Values(NodesOf(toks), tv, w),
           NEW level \in 2..3, NEW p \in Seq(Tokens) \ {<<>>}, NEW t \in Seq(Tokens) \ {<<>>},
           NEW b \in BOOLEAN, NEW b2 \in BOOLEAN,
           ReadsAs(toks, tv, level - 1, p, b), ListsAs(toks, tv, level, t, b2)
    PROVE  LET u == p \o <<Word(level)>> \o t
           IN  /\ u \in Seq(Tokens) \ {<<>>}
               /\ ListsAs(toks, tv, level, u, IF level = 2 THEN b /\ b2 ELSE b \/ b2)
<1> DEFINE x == Word(level)
           s == p \o <<x>>
           u == s \o t
<1>0. x \in Tokens /\ <<x>> \in Seq(Tokens) /\ s \in Seq(Tokens) /\ u \in Seq(Tokens)
      /\ Len(<<x>>) = 1 /\ Len(s) = Len(p) + 1 /\ Len(u) = Len(s) + Len(t)
      /\ Len(p) \in Nat \ {0} /\ Len(t) \in Nat \ {0} /\ Len(toks) \in Nat
  <2>1. x \in Tokens
    BY DEF Word, Tokens, Keywords
  <2> HIDE DEF x
  <2> QED BY <2>1
<1>1. u # <<>>
  BY <1>0
<1>2. ASSUME NEW i \in 1..Len(toks), Occurs(toks, i, u), Ends(level, Peek(toks, i + Len(u)))
      PROVE  Lists(toks, tv, level, i, Len(u), IF level = 2 THEN b /\ b2 ELSE b \/ b2)
  <2> DEFINE i2 == i + Len(p) + 1
  <2> HIDE DEF x
  <2>0. i \in Nat /\ p \in Seq(Tokens) /\ t \in Seq(Tokens)
    BY <1>0
  <2>1. Occurs(toks, i, s) /\ Occurs(toks, i + Len(s), t)
    <3>1. s \in Seq(Tokens) /\ Occurs(toks, i, s \o t)
      BY <1>0, <1>2
    <3> HIDE DEF s
    <3> QED BY <2>0, <3>1, OccursInTwo
  <2>2. Occurs(toks, i, p) /\ Occurs(toks, i + Len(p), <<x>>)
    <3> DEFINE y == <<x>>
    <3>1. y \in Seq(Tokens) /\ Occurs(toks, i, p \o y)
      BY <1>0, <2>1
    <3> HIDE DEF y
    <3>2. Occurs(toks, i, p) /\ Occurs(toks, i + Len(p), y)
      BY <2>0, <3>1, OccursInTwo
    <3> QED BY <3>2 DEF y
  <2> HIDE DEF s, u
  <2>3. i2 = i + Len(s) /\ i2 + Len(t) = i + Len(u) /\ i2 \in 1..Len(toks) /\ i + Len(p) \in Nat \ {0}
    <3>1. i + Len(s) + Len(t) <= Len(toks) + 1
      BY <2>1 DEF Occurs
    <3> QED BY <1>0, <3>1
  <2>4. Peek(toks, i + Len(p)) = x
    BY <2>2, <2>3, OccursOne
  <2>5. Ends(level - 1, x)
    BY DEF Ends, Word, CmpOps, x
  <2>6. Reads(toks, tv, level - 1, i, Len(p), b)
    BY <2>2, <2>4, <2>5 DEF ReadsAs
  <2>7. Lists(toks, tv, level, i2, Len(t), b2)
    <3> HIDE DEF i2
    <3>1. Occurs(toks, i2, t) /\ Ends(level, Peek(toks, i2 + Len(t)))
      BY <1>2, <2>1, <2>3
    <3> QED BY <2>3, <3>1 DEF ListsAs
  <2>8. Lists(toks, tv, level, i, Len(p) + 1 + Len(t), IF level = 2 THEN b /\ b2 ELSE b \/ b2)
    <3>1. Len(p) \in Nat /\ Len(t) \in Nat /\ Peek(toks, i + Len(p)) = Word(level)
      BY <1>0, <2>4 DEF x
    <3>2. Lists(toks, tv, level, i + Len(p) + 1, Len(t), b2)
      BY <2>7
    <3> HIDE DEF i2
    <3> QED BY <2>6, <3>1, <3>2, ListOfMore
  <2>9. Len(p) + 1 + Len(t) = Len(u)
    BY <1>0
  <2> QED BY <2>8, <2>9
<1> QED BY <1>0, <1>1, <1>2 DEF ListsAs

(* The text of a list, from its last operand to its first.                 *)
LEMMA JoinedRuns ==
    ASSUME NEW word, NEW parts, Len(parts) \in Nat \ {0}
    PROVE  \E js : /\ js[1] = parts[Len(parts)]
                   /\ \A j \in 2..Len(parts) : js[j] = parts[Len(parts) + 1 - j] \o <<word>> \o js[j - 1]
                   /\ Joined(word, parts) = js[Len(parts)]
<1> DEFINE N == Len(parts)
           F(j, was) == parts[N + 1 - j] \o <<word>> \o was
           Upto(m, f) == f = [j \in 1..m |-> IF j = 1 THEN parts[N + 1 - j] ELSE F(j, f[j - 1])]
           S == {m \in Nat : \E f : Upto(m, f)}
           value == CHOOSE f : Upto(N, f)
<1>1. Joined(word, parts) = value[N]
  BY DEF Joined
<1> HIDE DEF F, N
<1>2. 0 \in S
  <2>1. Upto(0, [j \in 1..0 |-> <<>>])
    OBVIOUS
  <2> HIDE DEF Upto
  <2> QED BY <2>1
<1>3. ASSUME NEW m \in Nat, m \in S PROVE m + 1 \in S
  <2>1. PICK f : Upto(m, f)
    BY <1>3
  <2> DEFINE g == [j \in 1..(m + 1) |-> IF j = m + 1 /\ j # 1 THEN F(j, f[m]) ELSE IF j = 1 THEN parts[N + 1 - j] ELSE f[j]]
             h == [j \in 1..(m + 1) |-> IF j = 1 THEN parts[N + 1 - j] ELSE F(j, g[j - 1])]
  <2>2. \A j \in 1..(m + 1) : g[j] = h[j]
    <3> SUFFICES ASSUME NEW j \in 1..(m + 1) PROVE g[j] = h[j]
      OBVIOUS
    <3>0. \A k \in 1..m : g[k] = f[k]
      BY <2>1
    <3>1. CASE j = 1
      BY <3>1
    <3>2. CASE j \in 2..m
      <4>1. j - 1 \in 1..m /\ g[j - 1] = f[j - 1] /\ g[j] = f[j]
        <5> HIDE DEF g
        <5> QED BY <3>0, <3>2
      <4>2. f[j] = F(j, f[j - 1])
        BY <2>1, <3>2
      <4> QED BY <3>2, <4>1, <4>2
    <3>3. CASE j = m + 1 /\ j # 1
      <4>1. g[m] = f[m] /\ j - 1 = m
        <5> HIDE DEF g
        <5> QED BY <3>0, <3>3
      <4> QED BY <3>3, <4>1
    <3> QED BY <3>1, <3>2, <3>3
  <2>3. g = [j \in 1..(m + 1) |-> g[j]] /\ h = [j \in 1..(m + 1) |-> h[j]]
    OBVIOUS
  <2>4. g = h
    <3> HIDE DEF g, h
    <3> QED BY <2>2, <2>3
  <2>5. Upto(m + 1, g)
    BY <2>4
  <2> HIDE DEF g, h, Upto
  <2> QED BY <2>5
<1>4. Upto(N, value)
  <2>1. Nat \subseteq S
    <3> HIDE DEF S
    <3> QED BY <1>2, <1>3, SetInduction
  <2>2. \E f : Upto(N, f)
    BY <2>1 DEF N
  <2> HIDE DEF Upto
  <2> QED BY <2>2
<1> HIDE DEF value
<1>5. value[1] = parts[N] /\ \A j \in 2..N : value[j] = F(j, value[j - 1])
  <2>1. N \in Nat \ {0}
    BY DEF N
  <2>2. 1 \in 1..N /\ N + 1 - 1 = N
    BY <2>1
  <2>3. value[1] = parts[N]
    BY <1>4, <2>2
  <2>4. \A j \in 2..N : value[j] = F(j, value[j - 1])
    BY <1>4, <2>1
  <2> QED BY <2>3, <2>4
<1> QED BY <1>1, <1>5 DEF F, N

Written == Seq(Tokens) \ {<<>>}

(* It is made of tokens and not empty.                                     *)
LEMMA JoinedTypes ==
    ASSUME NEW word \in Tokens, NEW parts, Len(parts) \in Nat \ {0}, \A j \in 1..Len(parts) : parts[j] \in Written
    PROVE  Joined(word, parts) \in Written
<1>1. PICK js : /\ js[1] = parts[Len(parts)]
                /\ \A j \in 2..Len(parts) : js[j] = parts[Len(parts) + 1 - j] \o <<word>> \o js[j - 1]
                /\ Joined(word, parts) = js[Len(parts)]
  BY JoinedRuns
<1> DEFINE N == Len(parts)
           S == {j \in Nat : j \in 1..N => js[j] \in Written}
<1> HIDE DEF N
<1>2. N \in Nat \ {0} /\ Len(parts) = N
  BY DEF N
<1>3. 0 \in S
  OBVIOUS
<1>4. ASSUME NEW m \in Nat, m \in S PROVE m + 1 \in S
  <2> SUFFICES ASSUME m + 1 <= N PROVE js[m + 1] \in Written
    BY <1>2
  <2>1. CASE m = 0
    BY <1>1, <1>2, <2>1
  <2>2. CASE m # 0
    <3> DEFINE p == parts[N - m]
               t == js[m]
    <3>1. p \in Written /\ t \in Written
      BY <1>2, <1>4, <2>2
    <3>2. js[m + 1] = p \o <<word>> \o t
      <4>1. m + 1 \in 2..N /\ N + 1 - (m + 1) = N - m /\ (m + 1) - 1 = m
        BY <1>2, <2>2
      <4> QED BY <1>1, <1>2, <4>1
    <3> HIDE DEF p, t
    <3>3. p \o <<word>> \o t \in Seq(Tokens) /\ Len(p \o <<word>> \o t) = Len(p) + 1 + Len(t)
      BY <3>1 DEF Written
    <3>4. p \o <<word>> \o t # <<>>
      BY <3>1, <3>3 DEF Written
    <3> QED BY <3>2, <3>3, <3>4 DEF Written
  <2> QED BY <2>1, <2>2
<1>5. Joined(word, parts) \in Written
  <2>1. Nat \subseteq S
    <3> HIDE DEF S
    <3> QED BY <1>3, <1>4, SetInduction
  <2>2. N \in S /\ N \in 1..N
    BY <1>2, <2>1
  <2> QED BY <1>1, <1>2, <2>2
<1> QED BY <1>5

(* Reading a text depends on its value only.                               *)
LEMMA SameMeaning ==
    ASSUME NEW toks, NEW tv, NEW level, NEW t, NEW b, NEW b2, b <=> b2
    PROVE  /\ ListsAs(toks, tv, level, t, b) => ListsAs(toks, tv, level, t, b2)
           /\ ReadsAs(toks, tv, level, t, b) => ReadsAs(toks, tv, level, t, b2)
<1>1. \A i, len : Lists(toks, tv, level, i, len, b) => Lists(toks, tv, level, i, len, b2)
  BY DEF Lists
<1>2. \A i, len : Reads(toks, tv, level, i, len, b) => Reads(toks, tv, level, i, len, b2)
  BY DEF Reads
<1>3. ListsAs(toks, tv, level, t, b) => ListsAs(toks, tv, level, t, b2)
  BY <1>1 DEF ListsAs
<1>4. ReadsAs(toks, tv, level, t, b) => ReadsAs(toks, tv, level, t, b2)
  BY <1>2 DEF ReadsAs
<1> QED BY <1>3, <1>4

(* All operands of a list are read, each for what it is worth.             *)
LEMMA JoinReads ==
    ASSUME ExprAssumption, NEW toks \in Seq(Tokens), NEW w, NEW tv, Values(NodesOf(toks), tv, w),
           NEW level \in 2..3, NEW parts, Len(parts) \in Nat \ {0}, NEW y,
           \A j \in 1..Len(parts) :
             parts[j] \in Written /\ y[j] \in BOOLEAN /\ ReadsAs(toks, tv, level - 1, parts[j], y[j])
    PROVE  ReadsAs(toks, tv, level, Joined(Word(level), parts),
                   IF level = 2 THEN \A j \in 1..Len(parts) : y[j] ELSE \E j \in 1..Len(parts) : y[j])
<1> DEFINE N == Len(parts)
           x == Word(level)
           Sum(j) == IF level = 2 THEN \A k \in N + 1 - j..N : y[k] ELSE \E k \in N + 1 - j..N : y[k]
<1> HIDE DEF N, x
<1>1. PICK js : /\ js[1] = parts[N]
                /\ \A j \in 2..N : js[j] = parts[N + 1 - j] \o <<x>> \o js[j - 1]
                /\ Joined(x, parts) = js[N]
  BY JoinedRuns DEF N
<1>2. N \in Nat \ {0} /\ Len(parts) = N
  BY DEF N
<1>3. \A j \in 1..N : parts[j] \in Written /\ y[j] \in BOOLEAN /\ ReadsAs(toks, tv, level - 1, parts[j], y[j])
  BY <1>2
<1> DEFINE S == {j \in Nat : j \in 1..N => js[j] \in Written /\ ListsAs(toks, tv, level, js[j], Sum(j))}
<1>4. 0 \in S
  OBVIOUS
<1>5. ASSUME NEW m \in Nat, m \in S PROVE m + 1 \in S
  <2> SUFFICES ASSUME m + 1 <= N
               PROVE  js[m + 1] \in Written /\ ListsAs(toks, tv, level, js[m + 1], Sum(m + 1))
    <3> HIDE DEF Sum
    <3> QED BY <1>2
  <2> DEFINE k == N - m
             p == parts[k]
             b == y[k]
  <2>0. k \in 1..N /\ N + 1 - (m + 1) = k
    BY <1>2
  <2>1. p \in Written /\ b \in BOOLEAN /\ ReadsAs(toks, tv, level - 1, p, b)
    <3> HIDE DEF k
    <3> QED BY <1>3, <2>0
  <2>2. CASE m = 0
    <3>1. js[m + 1] = p
      BY <1>1, <1>2, <2>2
    <3>2. b <=> Sum(m + 1)
      <4>1. (N + 1 - (m + 1))..N = {k}
        BY <1>2, <2>2
      <4> HIDE DEF k
      <4>2. (\A j \in {k} : y[j]) <=> y[k]
        OBVIOUS
      <4>3. (\E j \in {k} : y[j]) <=> y[k]
        OBVIOUS
      <4> QED BY <4>1, <4>2, <4>3
    <3>3. ListsAs(toks, tv, level, p, b)
      <4> HIDE DEF p, b
      <4> QED BY <2>1, ReadsUp
    <3>4. ListsAs(toks, tv, level, p, Sum(m + 1))
      <4> HIDE DEF p, b, Sum
      <4> QED BY <3>2, <3>3, SameMeaning
    <3> HIDE DEF Sum, p
    <3> QED BY <2>1, <3>1, <3>4
  <2>3. CASE m # 0
    <3> DEFINE t == js[m]
               b2 == Sum(m)
               u == p \o <<x>> \o t
               both == IF level = 2 THEN b /\ b2 ELSE b \/ b2
    <3>1. t \in Written /\ ListsAs(toks, tv, level, t, b2)
      <4>1. m \in 1..N
        BY <1>2, <2>3
      <4> HIDE DEF Sum
      <4> QED BY <1>5, <4>1
    <3>2. js[m + 1] = u
      <4>1. m + 1 \in 2..N /\ (m + 1) - 1 = m
        BY <1>2, <2>3
      <4> HIDE DEF k
      <4> QED BY <1>1, <2>0, <4>1
    <3>3. b2 \in BOOLEAN
      OBVIOUS
    <3>4. both <=> Sum(m + 1)
      <4>1. (N + 1 - (m + 1))..N = {k} \cup ((N + 1 - m)..N)
        BY <1>2
      <4> DEFINE R == (N + 1 - m)..N
      <4> HIDE DEF k
      <4>2. (\A j \in {k} \cup R : y[j]) <=> y[k] /\ \A j \in R : y[j]
        <5> HIDE DEF R
        <5> QED OBVIOUS
      <4>3. (\E j \in {k} \cup R : y[j]) <=> y[k] \/ \E j \in R : y[j]
        <5> HIDE DEF R
        <5> QED OBVIOUS
      <4> QED BY <4>1, <4>2, <4>3
    <3> HIDE DEF p, b, b2, t, both
    <3>5. u \in Written /\ ListsAs(toks, tv, level, u, both)
      <4>1. p \in Seq(Tokens) \ {<<>>} /\ t \in Seq(Tokens) \ {<<>>} /\ b \in BOOLEAN
            /\ ReadsAs(toks, tv, level - 1, p, b)
        BY <2>1, <3>1 DEF Written
      <4>2. p \o <<Word(level)>> \o t \in Seq(Tokens) \ {<<>>}
        BY <3>1, <3>3, <4>1, JoinOne
      <4>3. ListsAs(toks, tv, level, p \o <<Word(level)>> \o t, IF level = 2 THEN b /\ b2 ELSE b \/ b2)
        BY <3>1, <3>3, <4>1, JoinOne
      <4> QED BY <4>2, <4>3 DEF Written, x, both
    <3> HIDE DEF u, Sum
    <3> QED BY <3>2, <3>4, <3>5, SameMeaning
  <2> QED BY <2>2, <2>3
<1>6. ListsAs(toks, tv, level, js[N], Sum(N))
  <2>1. Nat \subseteq S
    <3> HIDE DEF S
    <3> QED BY <1>4, <1>5, SetInduction
  <2>2. N \in S /\ N \in 1..N
    <3> HIDE DEF S
    <3> QED BY <1>2, <2>1
  <2> HIDE DEF Sum
  <2> QED BY <2>2
<1>7. Sum(N) <=> IF level = 2 THEN \A j \in 1..N : y[j] ELSE \E j \in 1..N : y[j]
  <2>1. N + 1 - N = 1
    BY <1>2
  <2> QED BY <2>1
<1> HIDE DEF Sum
<1>8. ReadsAs(toks, tv, level, js[N], Sum(N))
  BY <1>6, ListValue DEF ReadsAs, ListsAs
<1>9. ReadsAs(toks, tv, level, js[N], IF level = 2 THEN \A j \in 1..N : y[j] ELSE \E j \in 1..N : y[j])
  BY <1>7, <1>8, SameMeaning
<1> QED BY <1>1, <1>9 DEF N, x

(* A place that did not raise has the value of its node.                   *)
LEMMA NodeValue ==
    ASSUME ExprAssumption, NEW toks \in Seq(Tokens), NEW w, NEW tv, Values(NodesOf(toks), tv, w),
           NEW level \in 1..3, NEW i \in 1..Len(toks), At(toks, level, i).node # Raised
    PROVE  tv[Ref(toks, level, i)] <=> NodeTrue(At(toks, level, i).node, tv, w)
<1> DEFINE m == Ref(toks, level, i)
           r == At(toks, level, i)
<1>1. m \in 1..Len(NodesOf(toks)) /\ NodesOf(toks)[m] = r.node
  BY TableFacts
<1>2. r.node # Raised
  OBVIOUS
<1> HIDE DEF m, r
<1>3. tv[m] <=> NodeTrue(r.node, tv, w)
  BY <1>1, <1>2 DEF Values
<1> QED BY <1>3 DEF m, r

(* An operand on the lowest level.                                         *)
LEMMA OperandAt ==
    ASSUME ExprAssumption, NEW toks \in Seq(Tokens), NEW i \in 1..Len(toks)
    PROVE  At(toks, 1, i) = ParseNot(toks, i, Parsed(toks))
<1>1. 1 \in 1..3
  OBVIOUS
<1> QED BY <1>1, TableFacts DEF ParseAt

(* What parse_not returns as a node of its own is read for the value of    *)
(* this node.                                                              *)
LEMMA OperandReads ==
    ASSUME ExprAssumption, NEW toks \in Seq(Tokens), NEW w, NEW tv, Values(NodesOf(toks), tv, w),
           NEW i \in 1..Len(toks), NEW n \in Nodes, NEW len, NEW b,
           At(toks, 1, i) = Result(n, <<>>, i + len), NodeTrue(n, tv, w) <=> b
    PROVE  Reads(toks, tv, 1, i, len, b)
<1>1. At(toks, 1, i).node = n /\ At(toks, 1, i).next = i + len /\ n # Raised /\ 1 \in 1..3
  BY DEF Result, ExprAssumption
<1>2. tv[Ref(toks, 1, i)] <=> NodeTrue(n, tv, w)
  BY <1>1, NodeValue
<1> QED BY <1>1, <1>2 DEF Reads

(* Parentheses keep the value.                                             *)
LEMMA GroupReads ==
    ASSUME ExprAssumption, NEW toks \in Seq(Tokens), NEW w, NEW tv, Values(NodesOf(toks), tv, w),
           NEW t \in Written, NEW b, ReadsAs(toks, tv, 3, t, b)
    PROVE  ReadsAs(toks, tv, 1, <<"(">> \o t \o <<")">>, b)
<1> DEFINE open == <<"(">>
           close == <<")">>
           u == open \o t \o close
<1>0. /\ open \in Seq(Tokens) /\ close \in Seq(Tokens) /\ Len(open) = 1 /\ Len(close) = 1
      /\ t \in Seq(Tokens) /\ Len(t) \in Nat \ {0} /\ Len(toks) \in Nat
      /\ open \o t \in Seq(Tokens) /\ Len(open \o t) = Len(t) + 1 /\ Len(u) = Len(t) + 2
  <2>1. "(" \in Tokens /\ ")" \in Tokens
    BY DEF Tokens
  <2> QED BY <2>1 DEF Written
<1>1. ASSUME NEW i \in 1..Len(toks), Occurs(toks, i, u) PROVE Reads(toks, tv, 1, i, Len(u), b)
  <2>0. i \in Nat /\ i # 0 /\ i + 1 \in Nat /\ i + Len(t) + 1 \in Nat \ {0}
    BY <1>0
  <2>1. Occurs(toks, i, open \o t) /\ Occurs(toks, i + Len(t) + 1, close)
    <3> DEFINE s == open \o t
    <3>1. s \in Seq(Tokens) /\ Occurs(toks, i, s \o close) /\ Len(s) = Len(t) + 1
      BY <1>0, <1>1
    <3>2. i + Len(s) = i + Len(t) + 1
      BY <1>0, <2>0, <3>1
    <3> HIDE DEF s, close
    <3>3. Occurs(toks, i, s) /\ Occurs(toks, i + Len(s), close)
      BY <1>0, <2>0, <3>1, OccursInTwo
    <3> QED BY <3>2, <3>3 DEF s
  <2>2. Occurs(toks, i, open) /\ Occurs(toks, i + 1, t)
    <3> HIDE DEF open
    <3>1. Occurs(toks, i, open) /\ Occurs(toks, i + Len(open), t)
      BY <1>0, <2>0, <2>1, OccursInTwo
    <3> QED BY <1>0, <3>1
  <2>3. toks[i] = "(" /\ Peek(toks, i + Len(t) + 1) = ")"
    BY <2>0, <2>1, <2>2, OccursOne
  <2>4. i + 1 \in 1..Len(toks)
    BY <1>0, <2>2 DEF Occurs
  <2>5. (i + 1) + Len(t) = i + Len(t) + 1 /\ i + Len(u) = (i + Len(t) + 1) + 1
    BY <1>0, <2>0
  <2> DEFINE inner == At(toks, 3, i + 1)
  <2>6. inner.node # Raised /\ inner.next = i + Len(t) + 1 /\ (tv[Ref(toks, 3, i + 1)] <=> b)
    <3>1. Ends(3, ")")
      BY DEF Ends, CmpOps
    <3>2. Reads(toks, tv, 3, i + 1, Len(t), b)
      BY <2>2, <2>3, <2>4, <2>5, <3>1 DEF ReadsAs
    <3> QED BY <2>5, <3>2 DEF Reads
  <2>7. At(toks, 1, i) = Result(inner.node, <<>>, i + Len(u))
    <3>1. At(toks, 1, i) = ParseGroup(toks, i, Parsed(toks))
      BY <2>3, OperandAt DEF ParseNot
    <3>2. Made(toks, 3, i + 1, Parsed(toks)) = inner
      BY <2>4 DEF Made, At
    <3> HIDE DEF inner, u
    <3> QED BY <2>3, <2>5, <2>6, <3>1, <3>2 DEF ParseGroup
  <2>8. inner.node \in Nodes /\ (NodeTrue(inner.node, tv, w) <=> b)
    <3>1. 3 \in 1..3
      OBVIOUS
    <3>2. IsResult(toks, 3, i + 1, Parsed(toks), inner)
      BY <2>4, <3>1, TableFacts
    <3>3. inner # Fail
      BY <2>6 DEF Fail, Result
    <3>4. tv[Ref(toks, 3, i + 1)] <=> NodeTrue(inner.node, tv, w)
      BY <2>4, <2>6, <3>1, NodeValue
    <3> HIDE DEF inner
    <3> QED BY <2>6, <3>2, <3>3, <3>4 DEF IsResult
  <2> HIDE DEF inner, u
  <2> QED BY <2>7, <2>8, OperandReads
<1> QED BY <1>1 DEF ReadsAs

(* NOT before an operand reads as its opposite.                            *)
LEMMA NotReads ==
    ASSUME ExprAssumption, NEW toks \in Seq(Tokens), NEW w, NEW tv, Values(NodesOf(toks), tv, w),
           NEW t \in Written, NEW b, ReadsAs(toks, tv, 1, t, b)
    PROVE  ReadsAs(toks, tv, 1, <<"NOT">> \o t, ~b)
<1> DEFINE word == <<"NOT">>
           u == word \o t
<1>0. /\ word \in Seq(Tokens) /\ Len(word) = 1
      /\ t \in Seq(Tokens) /\ Len(t) \in Nat \ {0} /\ Len(toks) \in Nat /\ Len(u) = Len(t) + 1
  <2>1. "NOT" \in Tokens
    BY DEF Tokens, Keywords
  <2> QED BY <2>1 DEF Written
<1>1. ASSUME NEW i \in 1..Len(toks), Occurs(toks, i, u), Ends(1, Peek(toks, i + Len(u)))
      PROVE  Reads(toks, tv, 1, i, Len(u), ~b)
  <2>0. i \in Nat /\ i # 0 /\ (i + 1) + Len(t) = i + Len(u)
    BY <1>0
  <2>1. Occurs(toks, i, word) /\ Occurs(toks, i + 1, t)
    <3> HIDE DEF word
    <3>1. Occurs(toks, i, word) /\ Occurs(toks, i + Len(word), t)
      BY <1>0, <1>1, <2>0, OccursInTwo
    <3> QED BY <1>0, <3>1
  <2>2. toks[i] = "NOT"
    BY <2>0, <2>1, OccursOne
  <2>3. i + 1 \in 1..Len(toks)
    BY <1>0, <2>1 DEF Occurs
  <2> DEFINE inner == At(toks, 1, i + 1)
             x == Ref(toks, 1, i + 1)
  <2>4. inner.node # Raised /\ inner.next = i + Len(u) /\ (tv[x] <=> b)
    <3> HIDE DEF u
    <3>1. Reads(toks, tv, 1, i + 1, Len(t), b)
      BY <1>1, <2>0, <2>1, <2>3 DEF ReadsAs
    <3> QED BY <2>0, <3>1 DEF Reads
  <2>5. At(toks, 1, i) = Result(Neg(x), <<>>, i + Len(u))
    <3>1. At(toks, 1, i) = ParseNotOf(toks, i, Parsed(toks))
      BY <2>2, OperandAt DEF ParseNot
    <3>2. Made(toks, 1, i + 1, Parsed(toks)) = inner
      BY <2>3 DEF Made, At
    <3> HIDE DEF inner, u
    <3> QED BY <2>4, <3>1, <3>2 DEF ParseNotOf
  <2>6. x \in Nat
    <3>1. 1 \in 1..3
      OBVIOUS
    <3> QED BY <2>3, <3>1, RefIn
  <2> HIDE DEF x, u
  <2>7. Neg(x) \in Nodes /\ (NodeTrue(Neg(x), tv, w) <=> ~b)
    <3>1. Neg(x) \in Nodes /\ Neg(x).kind = "not" /\ Neg(x).of = x
      BY <2>6, NegNode
    <3> QED BY <2>4, <3>1 DEF NodeTrue
  <2> QED BY <2>5, <2>7, OperandReads
<1> QED BY <1>1 DEF ReadsAs

(* The operands that are not made of others.                               *)
LEMMA VarReads ==
    ASSUME ExprAssumption, NEW toks \in Seq(Tokens), NEW w, NEW tv, Values(NodesOf(toks), tv, w),
           NEW n \in Idents
    PROVE  ReadsAs(toks, tv, 1, <<n>>, n \in w.on)
<1> SUFFICES ASSUME NEW i \in 1..Len(toks), Occurs(toks, i, <<n>>), Ends(1, Peek(toks, i + 1))
             PROVE  Reads(toks, tv, 1, i, 1, n \in w.on)
  BY DEF ReadsAs
<1>1. toks[i] = n
  BY OccursOne
<1>2. n \notin {"NOT", "(", "TRUE", "FALSE"} /\ ~IsNumber(n) /\ n \in Tokens
  BY DEF ExprAssumption, Keywords, IsNumber, Tokens
<1>3. Peek(toks, i + 1) \notin CmpOps
  BY DEF Ends
<1>4. At(toks, 1, i) = Result(Var(n), <<>>, i + 1)
  BY <1>1, <1>2, <1>3, OperandAt DEF ParseNot
<1>5. Var(n) \in Nodes /\ (NodeTrue(Var(n), tv, w) <=> n \in w.on)
  BY <1>2 DEF Var, Nodes, NodeTrue
<1> QED BY <1>4, <1>5, OperandReads

(* TRUE and FALSE read as what they say.                                   *)
LEMMA ConstReads ==
    ASSUME ExprAssumption, NEW toks \in Seq(Tokens), NEW w, NEW tv, Values(NodesOf(toks), tv, w),
           NEW b \in BOOLEAN
    PROVE  ReadsAs(toks, tv, 1, IF b THEN <<"TRUE">> ELSE <<"FALSE">>, b)
<1> DEFINE x == IF b THEN "TRUE" ELSE "FALSE"
<1>0. (IF b THEN <<"TRUE">> ELSE <<"FALSE">>) = <<x>>
  OBVIOUS
<1>1. ASSUME NEW i \in 1..Len(toks), Occurs(toks, i, <<x>>)
      PROVE  Reads(toks, tv, 1, i, 1, b)
  <2>1. toks[i] = x
    <3> HIDE DEF x
    <3> QED BY <1>1, OccursOne
  <2>2. At(toks, 1, i) = Result(Const(b), <<>>, i + 1)
    BY <2>1, OperandAt DEF ParseNot
  <2>3. Const(b) \in Nodes /\ (NodeTrue(Const(b), tv, w) <=> b)
    BY DEF Const, Nodes, NodeTrue
  <2> QED BY <2>2, <2>3, OperandReads
<1>2. ReadsAs(toks, tv, 1, <<x>>, b)
  <2>1. Len(<<x>>) = 1
    OBVIOUS
  <2> HIDE DEF x
  <2> QED BY <1>1, <2>1 DEF ReadsAs
<1> QED BY <1>0, <1>2

(* A comparison reads as the comparison of the level with the number its   *)
(* numeral stands for.                                                     *)
LEMMA CmpReads ==
    ASSUME ExprAssumption, NEW toks \in Seq(Tokens), NEW w, NEW tv, Values(NodesOf(toks), tv, w),
           NEW n \in Idents, NEW op \in CmpOps, NEW k \in Int, \E s \in DOMAIN NumberOf : NumberOf[s] = k
    PROVE  ReadsAs(toks, tv, 1, <<n, op, Numeral(k)>>, Compare(w.level[n], op, k))
<1> DEFINE q == Numeral(k)
<1>0. q \in DOMAIN NumberOf /\ NumberOf[q] = k
  BY DEF Numeral
<1> HIDE DEF q
<1> SUFFICES ASSUME NEW i \in 1..Len(toks), Occurs(toks, i, <<n, op, q>>)
             PROVE  Reads(toks, tv, 1, i, 3, Compare(w.level[n], op, k))
  BY DEF ReadsAs, q
<1>1. toks[i] = n /\ toks[i + 1] = op /\ toks[i + 2] = q /\ i + 2 <= Len(toks) /\ i \in Nat /\ Len(toks) \in Nat
  <2> DEFINE s == <<n, op, q>>
  <2>1. Len(s) = 3 /\ s[1] = n /\ s[2] = op /\ s[3] = q
    OBVIOUS
  <2>2. i + Len(s) <= Len(toks) + 1 /\ \A j \in 1..Len(s) : toks[i + j - 1] = s[j]
    BY DEF Occurs
  <2> HIDE DEF s
  <2>3. i + 1 - 1 = i /\ i + 2 - 1 = i + 1 /\ i + 3 - 1 = i + 2
    OBVIOUS
  <2>4. i + 3 <= Len(toks) + 1 /\ \A j \in 1..3 : toks[i + j - 1] = s[j]
    BY <2>1, <2>2
  <2>5. toks[i] = s[1] /\ toks[i + 1] = s[2] /\ toks[i + 2] = s[3]
    BY <2>3, <2>4
  <2> QED BY <2>1, <2>4, <2>5
<1>2. n \notin {"NOT", "(", "TRUE", "FALSE"} /\ ~IsNumber(n) /\ n \in Tokens
  BY DEF ExprAssumption, Keywords, IsNumber, Tokens
<1>3. Peek(toks, i + 1) = op /\ Peek(toks, i + 2) = q
  BY <1>1 DEF Peek
<1>4. At(toks, 1, i) = ParseCmp(toks, i)
  BY <1>1, <1>2, <1>3, OperandAt DEF ParseNot
<1>5. ParseCmp(toks, i) = Result(Cmp(n, op, k), <<>>, i + 3)
  BY <1>0, <1>1, <1>2, <1>3 DEF ParseCmp, IsNumber
<1>6. Cmp(n, op, k) \in Nodes /\ (NodeTrue(Cmp(n, op, k), tv, w) <=> Compare(w.level[n], op, k))
  BY <1>2 DEF Cmp, Nodes, NodeTrue
<1> QED BY <1>4, <1>5, <1>6, OperandReads

(* An expression that can be written.                                      *)
IsTree(e) ==
    /\ e \in Seq(Nodes) /\ e # <<>>
    /\ \A k \in 1..Len(e) : Writable(e[k]) /\ Operands(e[k]) \subseteq 1..k-1

(* An expression that can be written has no empty place.                   *)
LEMMA TreeIsWhole ==
    ASSUME ExprAssumption, NEW e, IsTree(e)
    PROVE  Whole(e) /\ \A k \in 1..Len(e) : e[k] \in Nodes /\ e[k] # Raised
<1>1. Len(e) \in Nat \ {0}
  BY DEF IsTree
<1>2. \A k \in 1..Len(e) : e[k] \in Nodes /\ e[k] # Raised
  BY DEF IsTree, ExprAssumption
<1>3. ASSUME NEW k \in 1..Len(e) PROVE \A x \in Operands(e[k]) : e[x] # Raised
  <2>1. 1..k-1 \subseteq 1..Len(e)
    BY <1>1
  <2> QED BY <1>2, <2>1 DEF IsTree
<1>4. Sound(e)
  BY <1>1, <1>2, <1>3 DEF Sound, IsTree
<1>5. e[Len(e)] # Raised
  BY <1>1, <1>2
<1> QED BY <1>2, <1>4, <1>5 DEF Whole

(* The texts of all nodes.                                                 *)
AreTexts(e, t) == \A k \in 1..Len(e) : t[k] = UnparseNode(e, e[k], t)

(* Unparse writes all nodes, each from the texts of its operands.          *)
LEMMA TextsExist ==
    ASSUME ExprAssumption, NEW e, IsTree(e)
    PROVE  \E t : AreTexts(e, t) /\ Unparse(e) = t[Len(e)]
<1> DEFINE F(k, f) == UnparseNode(e, e[k], f)
           Upto(m, f) == f = [k \in 1..m |-> F(k, f)]
           S == {m \in Nat : m <= Len(e) => \E f : Upto(m, f)}
           value == CHOOSE f : Upto(Len(e), f)
<1>0. Len(e) \in Nat
  BY DEF IsTree
<1>1. Unparse(e) = value[Len(e)]
  BY DEF Unparse
<1>2. ASSUME NEW k \in 1..Len(e), NEW f, NEW g, \A j \in 1..k-1 : f[j] = g[j]
      PROVE  F(k, f) = F(k, g)
  <2>1. e[k] \in Nodes /\ \A x \in Operands(e[k]) : f[x] = g[x]
    BY <1>2, TreeIsWhole DEF IsTree
  <2>2. CASE IsNary(e[k]) /\ Operands(e[k]) = {e[k].of[i] : i \in DOMAIN e[k].of}
    <3>1. [i \in DOMAIN e[k].of |-> Operand(e[k], e[e[k].of[i]], f[e[k].of[i]])]
            = [i \in DOMAIN e[k].of |-> Operand(e[k], e[e[k].of[i]], g[e[k].of[i]])]
      BY <2>1, <2>2
    <3>2. e[k].kind \in {"and", "or"}
      BY <2>2 DEF IsNary
    <3> QED BY <3>1, <3>2 DEF UnparseNode
  <2>3. CASE e[k].kind = "not" /\ Operands(e[k]) = {e[k].of}
    <3>1. f[e[k].of] = g[e[k].of]
      BY <2>1, <2>3
    <3>2. F(k, f) = <<"NOT">> \o Within(e[e[k].of], f[e[k].of])
      BY <2>3 DEF UnparseNode
    <3>3. F(k, g) = <<"NOT">> \o Within(e[e[k].of], g[e[k].of])
      BY <2>3 DEF UnparseNode
    <3> QED BY <3>1, <3>2, <3>3
  <2>4. CASE e[k].kind \in {"var", "const", "cmp"}
    BY <2>4 DEF UnparseNode
  <2> QED BY <2>1, <2>2, <2>3, <2>4, NodeKinds
<1> HIDE DEF F
<1>4. 0 \in S
  <2>1. Upto(0, [k \in 1..0 |-> TRUE])
    OBVIOUS
  <2> HIDE DEF Upto
  <2> QED BY <2>1
<1>5. ASSUME NEW m \in Nat, m \in S PROVE m + 1 \in S
  <2> SUFFICES ASSUME m + 1 <= Len(e) PROVE \E f : Upto(m + 1, f)
    OBVIOUS
  <2>1. PICK f : Upto(m, f)
    BY <1>0, <1>5
  <2> DEFINE g == [k \in 1..(m + 1) |-> F(k, f)]
             h == [k \in 1..(m + 1) |-> F(k, g)]
  <2>2. \A j \in 1..m : f[j] = g[j]
    BY <2>1
  <2>3. \A k \in 1..(m + 1) : F(k, f) = F(k, g)
    <3> TAKE k \in 1..(m + 1)
    <3>1. k \in 1..Len(e) /\ \A j \in 1..k-1 : j \in 1..m
      BY <1>0
    <3> HIDE DEF g
    <3> QED BY <1>2, <2>2, <3>1
  <2>5. g = h
    BY <2>3
  <2>6. Upto(m + 1, g)
    BY <2>5
  <2> HIDE DEF g, h, Upto
  <2> QED BY <2>6
<1>6. Upto(Len(e), value)
  <2>1. Nat \subseteq S
    <3> HIDE DEF S
    <3> QED BY <1>4, <1>5, SetInduction
  <2>2. \E f : Upto(Len(e), f)
    BY <1>0, <2>1
  <2> HIDE DEF Upto
  <2> QED BY <2>2
<1> HIDE DEF value
<1>7. \A k \in 1..Len(e) : value[k] = F(k, value)
  BY <1>6
<1> QED BY <1>1, <1>7 DEF F, AreTexts

(* A text in parentheses is one.                                           *)
LEMMA GroupTypes ==
    ASSUME NEW n, NEW t \in Written
    PROVE  Within(n, t) \in Written
<1>1. "(" \in Tokens /\ ")" \in Tokens
  BY DEF Tokens
<1>2. <<"(">> \o t \o <<")">> \in Seq(Tokens) /\ Len(<<"(">> \o t \o <<")">>) = Len(t) + 2 /\ Len(t) \in Nat
  BY <1>1 DEF Written
<1>3. <<"(">> \o t \o <<")">> # <<>>
  BY <1>2
<1> QED BY <1>2, <1>3 DEF Within, Written

(* Texts are made of tokens.                                               *)
LEMMA TextTypes ==
    ASSUME ExprAssumption, NEW e, IsTree(e), NEW t, AreTexts(e, t)
    PROVE  \A k \in 1..Len(e) : t[k] \in Written
<1> DEFINE S == {k \in 1..Len(e) : t[k] \in Written}
<1>1. ASSUME NEW k \in 1..Len(e), \A j \in 1..k-1 : j \in S PROVE k \in S
  <2> DEFINE n == e[k]
  <2>1. n \in Nodes /\ t[k] = UnparseNode(e, n, t) /\ Writable(n) /\ \A x \in Operands(n) : t[x] \in Written
    BY <1>1, TreeIsWhole DEF AreTexts, IsTree
  <2> HIDE DEF n, S
  <2>2. CASE n.kind = "var"
    <3>1. t[k] = <<n.name>> /\ n.name \in Tokens
      BY <2>1, <2>2 DEF UnparseNode, Writable, Tokens
    <3>2. <<n.name>> \in Seq(Tokens) /\ <<n.name>> # <<>>
      BY <3>1
    <3> QED BY <3>1, <3>2 DEF S, Written
  <2>3. CASE n.kind = "const"
    <3>1. t[k] = <<"TRUE">> \/ t[k] = <<"FALSE">>
      BY <2>1, <2>3 DEF UnparseNode
    <3>2. "TRUE" \in Tokens /\ "FALSE" \in Tokens
      BY DEF Tokens, Keywords
    <3>3. <<"TRUE">> \in Written /\ <<"FALSE">> \in Written
      BY <3>2 DEF Written
    <3> QED BY <3>1, <3>3 DEF S
  <2>4. CASE n.kind = "cmp"
    <3> DEFINE q == Numeral(n.number)
    <3>1. t[k] = <<n.name, n.op, q>> /\ n.name \in Tokens /\ n.op \in CmpOps
      BY <2>1, <2>4, NodeKinds DEF UnparseNode, Writable, Tokens, IsNary
    <3>2. q \in DOMAIN NumberOf
      BY <2>1, <2>4 DEF Numeral, Writable
    <3> HIDE DEF q
    <3>3. n.op \in Tokens /\ q \in Tokens
      BY <3>1, <3>2 DEF Tokens
    <3>4. <<n.name, n.op, q>> \in Seq(Tokens) /\ <<n.name, n.op, q>> # <<>>
      BY <3>1, <3>3
    <3> QED BY <3>1, <3>4 DEF S, Written
  <2>5. CASE n.kind = "not" /\ Operands(n) = {n.of}
    <3> DEFINE u == Within(e[n.of], t[n.of])
    <3>1. t[k] = <<"NOT">> \o u
      BY <2>1, <2>5 DEF UnparseNode
    <3>2. u \in Written /\ "NOT" \in Tokens
      BY <2>1, <2>5, GroupTypes DEF Tokens, Keywords
    <3> HIDE DEF u
    <3>3. <<"NOT">> \o u \in Seq(Tokens) /\ Len(<<"NOT">> \o u) = Len(u) + 1 /\ Len(u) \in Nat
      BY <3>2 DEF Written
    <3>4. <<"NOT">> \o u # <<>>
      BY <3>3
    <3> QED BY <3>1, <3>3, <3>4 DEF S, Written
  <2>6. CASE n.kind \in {"and", "or"} /\ n.of \in Seq(Nat) /\ Operands(n) = {n.of[i] : i \in DOMAIN n.of}
    <3> DEFINE parts == [i \in DOMAIN n.of |-> Operand(n, e[n.of[i]], t[n.of[i]])]
               word == IF n.kind = "and" THEN "AND" ELSE "OR"
    <3>1. t[k] = Joined(word, parts)
      BY <2>1, <2>6 DEF UnparseNode
    <3>2. Len(parts) \in Nat \ {0} /\ Len(parts) = Len(n.of) /\ DOMAIN n.of = 1..Len(n.of)
      BY <2>1, <2>6 DEF Writable, IsNary
    <3>3. \A i \in 1..Len(n.of) : parts[i] \in Written
      <4> TAKE i \in 1..Len(n.of)
      <4>1. t[n.of[i]] \in Written
        BY <2>1, <2>6, <3>2
      <4>2. parts[i] = Operand(n, e[n.of[i]], t[n.of[i]])
        BY <3>2
      <4> QED BY <4>1, <4>2, GroupTypes DEF Operand
    <3>4. word \in Tokens
      BY DEF Tokens, Keywords
    <3> HIDE DEF parts, word
    <3> QED BY <3>1, <3>2, <3>3, <3>4, JoinedTypes DEF S
  <2> QED BY <2>1, <2>2, <2>3, <2>4, <2>5, <2>6, NodeKinds
<1>2. Len(e) \in Nat
  BY DEF IsTree
<1>3. \A k \in 1..Len(e) : k \in S
  <2> HIDE DEF S
  <2> QED BY <1>1, <1>2, PrefixInduction
<1> QED BY <1>3

(* How the text of a node is read: in parentheses as an operand, below an  *)
(* OR as a product, and on its own.                                        *)
NodeReads(toks, tv, n, t, b) ==
    /\ ReadsAs(toks, tv, 1, Within(n, t), b)
    /\ n.kind # "or" => ReadsAs(toks, tv, 2, t, b)
    /\ ReadsAs(toks, tv, 3, t, b)

(* A node that is no list reads on every level as it does on the lowest.   *)
LEMMA OperandNodeReads ==
    ASSUME ExprAssumption, NEW toks \in Seq(Tokens), NEW w, NEW tv, Values(NodesOf(toks), tv, w),
           NEW n, n.kind \notin {"and", "or"}, NEW t, NEW b, ReadsAs(toks, tv, 1, t, b)
    PROVE  NodeReads(toks, tv, n, t, b)
<1>1. Within(n, t) = t
  BY DEF Within, IsNary
<1>2. 2 \in 2..3 /\ 3 \in 2..3 /\ 2 - 1 = 1 /\ 3 - 1 = 2
  OBVIOUS
<1>3. ReadsAs(toks, tv, 2, t, b)
  BY <1>2, ReadsUp
<1>4. ReadsAs(toks, tv, 3, t, b)
  BY <1>2, <1>3, ReadsUp
<1> QED BY <1>1, <1>3, <1>4 DEF NodeReads

(* The text of a node is read for the value of the node, if this holds of  *)
(* the nodes before it.                                                    *)
LEMMA NodeIsRead ==
    ASSUME ExprAssumption, NEW toks \in Seq(Tokens), NEW w, NEW tv, Values(NodesOf(toks), tv, w),
           NEW e, IsTree(e), NEW t, AreTexts(e, t), NEW v, Values(e, v, w), NEW k \in 1..Len(e),
           \A j \in 1..k-1 : NodeReads(toks, tv, e[j], t[j], v[j])
    PROVE  NodeReads(toks, tv, e[k], t[k], v[k])
<1> DEFINE n == e[k]
<1>1. /\ n \in Nodes /\ n # Raised /\ t[k] = UnparseNode(e, n, t) /\ Writable(n)
      /\ Operands(n) \subseteq 1..k-1
  BY TreeIsWhole DEF AreTexts, IsTree
<1>2. /\ \A x \in Operands(n) : NodeReads(toks, tv, e[x], t[x], v[x]) /\ t[x] \in Written /\ v[x] \in BOOLEAN
      /\ v[k] \in BOOLEAN /\ (v[k] <=> NodeTrue(n, v, w))
  <2>1. Len(e) \in Nat /\ \A x \in 1..k-1 : x \in 1..Len(e)
    BY DEF IsTree
  <2> HIDE DEF n
  <2>2. \A x \in Operands(n) : NodeReads(toks, tv, e[x], t[x], v[x]) /\ t[x] \in Written /\ v[x] \in BOOLEAN
    BY <1>1, <2>1, TextTypes DEF Values
  <2>3. v[k] \in BOOLEAN /\ (v[k] <=> NodeTrue(n, v, w))
    BY <1>1 DEF Values, n
  <2> QED BY <2>2, <2>3
<1> HIDE DEF n
<1>3. ASSUME NEW b, ReadsAs(toks, tv, 1, t[k], b), NodeTrue(n, v, w) <=> b, n.kind \notin {"and", "or"}
      PROVE  NodeReads(toks, tv, n, t[k], v[k])
  <2>1. ReadsAs(toks, tv, 1, t[k], v[k])
    BY <1>2, <1>3, SameMeaning
  <2> QED BY <1>3, <2>1, OperandNodeReads
<1>4. CASE n.kind = "var"
  <2>1. t[k] = <<n.name>> /\ n.name \in Idents /\ (NodeTrue(n, v, w) <=> n.name \in w.on)
    BY <1>1, <1>4 DEF UnparseNode, Writable, NodeTrue
  <2>2. ReadsAs(toks, tv, 1, <<n.name>>, n.name \in w.on)
    BY <2>1, VarReads
  <2>3. ReadsAs(toks, tv, 1, t[k], n.name \in w.on)
    BY <2>1, <2>2
  <2>4. NodeReads(toks, tv, n, t[k], v[k])
    <3> DEFINE b == n.name \in w.on
    <3>1. ReadsAs(toks, tv, 1, t[k], b) /\ (NodeTrue(n, v, w) <=> b)
      BY <2>1, <2>3
    <3> HIDE DEF b
    <3> QED BY <1>3, <1>4, <3>1
  <2> QED BY <2>4 DEF n
<1>5. CASE n.kind = "const" /\ n.value \in BOOLEAN
  <2>1. t[k] = (IF n.value THEN <<"TRUE">> ELSE <<"FALSE">>) /\ (NodeTrue(n, v, w) <=> n.value)
    BY <1>1, <1>5 DEF UnparseNode, NodeTrue
  <2>2. ReadsAs(toks, tv, 1, t[k], n.value)
    BY <1>5, <2>1, ConstReads
  <2>3. NodeReads(toks, tv, n, t[k], v[k])
    <3> DEFINE b == n.value
    <3>1. ReadsAs(toks, tv, 1, t[k], b) /\ (NodeTrue(n, v, w) <=> b)
      BY <2>1, <2>2
    <3> HIDE DEF b
    <3> QED BY <1>3, <1>5, <3>1
  <2> QED BY <2>3 DEF n
<1>6. CASE n.kind = "cmp" /\ n.op \in CmpOps /\ n.number \in Int
  <2> DEFINE b == Compare(w.level[n.name], n.op, n.number)
  <2>1. /\ t[k] = <<n.name, n.op, Numeral(n.number)>> /\ n.name \in Idents
        /\ \E s \in DOMAIN NumberOf : NumberOf[s] = n.number
        /\ NodeTrue(n, v, w) <=> b
    BY <1>1, <1>6 DEF UnparseNode, Writable, NodeTrue
  <2>2. ReadsAs(toks, tv, 1, t[k], b)
    BY <1>6, <2>1, CmpReads
  <2> HIDE DEF b
  <2>3. NodeReads(toks, tv, n, t[k], v[k])
    <3>1. (NodeTrue(n, v, w) <=> b) /\ n.kind \notin {"and", "or"}
      BY <1>6, <2>1
    <3> QED BY <1>3, <2>2, <3>1
  <2> QED BY <2>3 DEF n
<1>7. CASE n.kind = "not" /\ Operands(n) = {n.of}
  <2> DEFINE x == n.of
             u == Within(e[x], t[x])
  <2>1. t[k] = <<"NOT">> \o u /\ (NodeTrue(n, v, w) <=> ~v[x])
    BY <1>1, <1>7 DEF UnparseNode, NodeTrue
  <2>2. u \in Written /\ ReadsAs(toks, tv, 1, u, v[x])
    BY <1>2, <1>7, GroupTypes DEF NodeReads
  <2> HIDE DEF u
  <2>3. ReadsAs(toks, tv, 1, t[k], ~v[x])
    BY <2>1, <2>2, NotReads
  <2>4. NodeReads(toks, tv, n, t[k], v[k])
    BY <1>3, <1>7, <2>1, <2>3
  <2> QED BY <2>4 DEF n
<1>8. CASE n.kind \in {"and", "or"} /\ n.of \in Seq(Nat) /\ Operands(n) = {n.of[i] : i \in DOMAIN n.of}
  <2> DEFINE parts == [i \in DOMAIN n.of |-> Operand(n, e[n.of[i]], t[n.of[i]])]
             y == [i \in DOMAIN n.of |-> v[n.of[i]]]
             level == IF n.kind = "and" THEN 2 ELSE 3
             M == Len(n.of)
             sum == IF level = 2 THEN \A i \in 1..M : y[i] ELSE \E i \in 1..M : y[i]
  <2>1. t[k] = Joined(Word(level), parts)
    BY <1>1, <1>8 DEF UnparseNode, Word
  <2>2. M \in Nat \ {0} /\ Len(parts) = M /\ DOMAIN n.of = 1..M /\ level \in 2..3
    BY <1>1, <1>8 DEF Writable, IsNary
  <2>3. \A i \in 1..M : n.of[i] \in Operands(n) /\ parts[i] = Operand(n, e[n.of[i]], t[n.of[i]]) /\ y[i] = v[n.of[i]]
    BY <1>8, <2>2
  <2>4. NodeTrue(n, v, w) <=> sum
    <3>1. CASE n.kind = "and"
      <4>1. NodeTrue(n, v, w) <=> \A i \in 1..M : v[n.of[i]]
        BY <2>2, <3>1 DEF NodeTrue
      <4>2. (\A i \in 1..M : y[i]) <=> \A i \in 1..M : v[n.of[i]]
        BY <2>3
      <4> HIDE DEF y, M
      <4> QED BY <3>1, <4>1, <4>2
    <3>2. CASE n.kind = "or"
      <4>1. NodeTrue(n, v, w) <=> \E i \in 1..M : v[n.of[i]]
        BY <2>2, <3>2 DEF NodeTrue
      <4>2. (\E i \in 1..M : y[i]) <=> \E i \in 1..M : v[n.of[i]]
        BY <2>3
      <4> HIDE DEF y, M
      <4> QED BY <3>2, <4>1, <4>2
    <3> QED BY <1>8, <3>1, <3>2
  <2>0. level = 2 <=> n.kind = "and"
    OBVIOUS
  <2> HIDE DEF parts, y, M, level
  <2>5. ASSUME NEW i \in 1..M
        PROVE  parts[i] \in Written /\ y[i] \in BOOLEAN /\ ReadsAs(toks, tv, level - 1, parts[i], y[i])
    <3> DEFINE x == n.of[i]
    <3>1. /\ parts[i] = Operand(n, e[x], t[x]) /\ y[i] = v[x]
          /\ NodeReads(toks, tv, e[x], t[x], v[x]) /\ t[x] \in Written /\ v[x] \in BOOLEAN
      BY <1>2, <2>3
    <3> HIDE DEF x
    <3>2. parts[i] \in Written
      BY <3>1, GroupTypes DEF Operand
    <3>3. CASE n.kind = "and"
      <4>1. parts[i] = Within(e[x], t[x]) /\ level - 1 = 1
        BY <2>0, <3>1, <3>3 DEF Operand, level
      <4> QED BY <3>1, <3>2, <4>1 DEF NodeReads
    <3>4. CASE n.kind = "or" /\ e[x].kind = "and"
      <4>1. parts[i] = t[x] /\ level - 1 = 2
        BY <3>1, <3>4 DEF Operand, level
      <4> QED BY <3>1, <3>2, <3>4, <4>1 DEF NodeReads
    <3>5. CASE n.kind = "or" /\ e[x].kind # "and"
      <4>1. parts[i] = Within(e[x], t[x]) /\ level - 1 = 2
        BY <3>1, <3>5 DEF Operand, level
      <4>2. ReadsAs(toks, tv, 1, Within(e[x], t[x]), v[x])
        BY <3>1 DEF NodeReads
      <4>3. 2 \in 2..3 /\ 2 - 1 = 1
        OBVIOUS
      <4>4. ReadsAs(toks, tv, 2, Within(e[x], t[x]), v[x])
        BY <4>2, <4>3, ReadsUp
      <4> QED BY <3>1, <3>2, <4>1, <4>4
    <3> QED BY <1>8, <3>3, <3>4, <3>5
  <2>6. ReadsAs(toks, tv, level, t[k], sum)
    <3>1. \A i \in 1..Len(parts) :
            parts[i] \in Written /\ y[i] \in BOOLEAN /\ ReadsAs(toks, tv, level - 1, parts[i], y[i])
      BY <2>2, <2>5
    <3>2. ReadsAs(toks, tv, level, Joined(Word(level), parts),
                  IF level = 2 THEN \A j \in 1..Len(parts) : y[j] ELSE \E j \in 1..Len(parts) : y[j])
      BY <2>2, <3>1, JoinReads
    <3> QED BY <2>1, <2>2, <3>2
  <2> HIDE DEF sum
  <2>7. ReadsAs(toks, tv, level, t[k], v[k])
    BY <1>2, <2>4, <2>6, SameMeaning
  <2>8. /\ ReadsAs(toks, tv, 3, t[k], v[k])
        /\ n.kind # "or" => ReadsAs(toks, tv, 2, t[k], v[k])
    <3>1. CASE n.kind = "and"
      <4>1. level = 2 /\ 3 \in 2..3 /\ 3 - 1 = 2
        BY <3>1 DEF level
      <4>2. ReadsAs(toks, tv, 2, t[k], v[k])
        BY <2>7, <4>1
      <4>3. ReadsAs(toks, tv, 3, t[k], v[k])
        BY <4>1, <4>2, ReadsUp
      <4> QED BY <4>2, <4>3
    <3>2. CASE n.kind = "or"
      <4>1. level = 3
        BY <3>2 DEF level
      <4> QED BY <2>7, <3>2, <4>1
    <3> QED BY <1>8, <3>1, <3>2
  <2>9. ReadsAs(toks, tv, 1, Within(n, t[k]), v[k])
    <3>1. t[k] \in Written
      BY TextTypes
    <3>2. Within(n, t[k]) = <<"(">> \o t[k] \o <<")">>
      BY <1>8 DEF Within, IsNary
    <3>3. ReadsAs(toks, tv, 1, <<"(">> \o t[k] \o <<")">>, v[k])
      BY <2>8, <3>1, GroupReads
    <3> QED BY <3>2, <3>3
  <2> QED BY <2>8, <2>9 DEF NodeReads, n
<1> QED BY <1>1, <1>4, <1>5, <1>6, <1>7, <1>8, NodeKinds

(* The round trip: the text of an expression is parsed to one of the same  *)
(* value.                                                                  *)
LEMMA ParseMeansTheSame ==
    ASSUME ExprAssumption, NEW e, IsTree(e), NEW w
    PROVE  /\ Unparse(e) \in Seq(Tokens) /\ Parse(Unparse(e)) # Raised
           /\ True(Parse(Unparse(e)), w) <=> True(e, w)
<1> DEFINE toks == Unparse(e)
           N == Len(toks)
<1>1. PICK t : AreTexts(e, t) /\ toks = t[Len(e)]
  BY TextsExist
<1>2. Len(e) \in Nat \ {0} /\ Len(e) \in 1..Len(e)
  BY DEF IsTree
<1>3. toks \in Seq(Tokens) /\ toks # <<>> /\ N \in Nat \ {0}
  <2>1. toks \in Written
    <3> HIDE DEF toks
    <3> QED BY <1>1, <1>2, TextTypes
  <2> HIDE DEF toks
  <2> QED BY <2>1 DEF Written
<1>4. PICK v : Values(e, v, w) /\ True(e, w) = v[Len(e)]
  BY TreeIsWhole, ValuesExist DEF Whole
<1> HIDE DEF toks
<1>5. PICK tv : Values(NodesOf(toks), tv, w) /\ True(NodesOf(toks), w) = tv[Len(NodesOf(toks))]
  BY <1>3, TableIsSound, ValuesExist
<1> DEFINE S == {k \in 1..Len(e) : NodeReads(toks, tv, e[k], t[k], v[k])}
<1>6. ASSUME NEW k \in 1..Len(e), \A j \in 1..k-1 : j \in S PROVE k \in S
  <2>1. \A j \in 1..k-1 : NodeReads(toks, tv, e[j], t[j], v[j])
    BY <1>6
  <2>2. NodeReads(toks, tv, e[k], t[k], v[k])
    BY <1>1, <1>3, <1>4, <1>5, <2>1, NodeIsRead
  <2> QED BY <2>2
<1>7. Len(e) \in S
  <2> HIDE DEF S
  <2> QED BY <1>2, <1>6, PrefixInduction
<1>8. ReadsAs(toks, tv, 3, toks, v[Len(e)])
  BY <1>1, <1>7 DEF NodeReads
<1>9. Reads(toks, tv, 3, 1, N, v[Len(e)])
  <2>1. 1 \in 1..Len(toks) /\ Occurs(toks, 1, toks)
    <3>1. \A j \in 1..Len(toks) : 1 + j - 1 = j
      OBVIOUS
    <3> QED BY <1>3, <3>1 DEF Occurs
  <2>2. Peek(toks, 1 + Len(toks)) = Raised
    BY <1>3 DEF Peek
  <2>3. Raised \notin Tokens
    BY DEF ExprAssumption
  <2>4. Ends(3, Raised)
    BY <2>3 DEF Ends, Tokens, Keywords
  <2> QED BY <1>8, <2>1, <2>2, <2>4 DEF ReadsAs
<1> DEFINE all == Parsed(toks)
           root == all[Len(all)]
<1>10. Len(all) = Ref(toks, 3, 1) /\ Len(all) = Len(NodesOf(toks)) /\ Len(all) = 3 * N
  BY <1>3, TableIsSound
<1>11. root.node # Raised /\ root.next = N + 1 /\ (tv[Len(all)] <=> v[Len(e)])
  BY <1>3, <1>9, <1>10 DEF Reads, At
<1>12. all # <<>>
  <2>1. Len(all) # 0
    BY <1>3, <1>10
  <2> HIDE DEF all
  <2> QED BY <2>1
<1>13. Parse(toks) = NodesOf(toks)
  <2> HIDE DEF all
  <2>1. ~(root.node = Raised \/ root.next # N + 1)
    BY <1>11
  <2> QED BY <1>12, <2>1 DEF Parse, NodesOf, all
<1>14. NodesOf(toks) # Raised
  <2>1. NodesOf(toks) \in Seq(Nodes \cup {Raised})
    <3>1. \A k \in 1..Len(NodesOf(toks)) : NodesOf(toks)[k] \in Nodes \cup {Raised}
      BY <1>3, TableIsSound DEF Sound
    <3>2. NodesOf(toks) = [k \in 1..Len(all) |-> NodesOf(toks)[k]] /\ Len(all) \in Nat
      BY <1>3, <1>10 DEF NodesOf
    <3>3. [k \in 1..Len(all) |-> NodesOf(toks)[k]] \in Seq(Nodes \cup {Raised})
      <4> DEFINE M == Len(all)
                 R == Nodes \cup {Raised}
                 f == NodesOf(toks)
      <4>1. M \in Nat /\ \A k \in 1..M : f[k] \in R
        BY <1>10, <3>1, <3>2
      <4> HIDE DEF M, R, f
      <4>2. [k \in 1..M |-> f[k]] \in Seq(R)
        BY <4>1
      <4> QED BY <4>2 DEF M, R, f
    <3> QED BY <3>2, <3>3
  <2> QED BY <2>1 DEF ExprAssumption
<1>15. True(NodesOf(toks), w) <=> True(e, w)
  BY <1>4, <1>5, <1>10, <1>11
<1> QED BY <1>3, <1>13, <1>14, <1>15 DEF toks

(* What has been made of the text at each stage.                           *)
ExprInv ==
    /\ text \in Seq(Tokens)
    /\ tree # Raised => IsTree(tree) /\ text = Unparse(tree)
    /\ stage = "parsed" => node = Parse(text)
    /\ stage \in {"nnf", "dnf"} => Parse(text) # Raised /\ node = ToNnf(Parse(text))
    /\ stage = "dnf" => terms = ToDnf(node)

(* ExprInv holds of every tree and text at the start.                      *)
LEMMA ExprInvInit == Init => ExprInv
<1> SUFFICES ASSUME Init PROVE ExprInv
  OBVIOUS
<1>1. ExprAssumption
  BY ExprAssumption
<1>2. text \in Seq(Tokens) /\ (tree # Raised => IsTree(tree) /\ text = Unparse(tree))
  <2>1. CASE tree \in Trees /\ text = Unparse(tree)
    <3>1. IsTree(tree)
      <4>1. tree \in Seq(Nodes) /\ tree # <<>> /\ DOMAIN tree = 1..Len(tree)
        BY <1>1, <2>1 DEF ExprAssumption
      <4> QED BY <1>1, <2>1, <4>1 DEF ExprAssumption, IsTree
    <3> QED BY <1>1, <2>1, <3>1, ParseMeansTheSame
  <2>2. CASE tree = Raised /\ text \in Texts
    BY <1>1, <2>2 DEF ExprAssumption
  <2> QED BY <2>1, <2>2 DEF Init
<1> QED BY <1>2 DEF Init, ExprInv

(* Each stage works on what the one before it has made.                    *)
LEMMA ExprInvStep == ExprInv /\ [Next]_vars => ExprInv'
<1> SUFFICES ASSUME ExprInv, [Next]_vars PROVE ExprInv'
  OBVIOUS
<1>1. CASE ParseText
  BY <1>1 DEF ExprInv, ParseText
<1>2. CASE Normalise
  BY <1>2 DEF ExprInv, Normalise
<1>3. CASE MultiplyOut
  BY <1>3 DEF ExprInv, MultiplyOut
<1>4. CASE UNCHANGED vars
  BY <1>4 DEF ExprInv, vars
<1> QED BY <1>1, <1>2, <1>3, <1>4 DEF Next

(* Where ExprInv holds, all forms have the value of what was meant.        *)
LEMMA ExprInvForms == ExprInv => FormsKeepTheMeaning
<1> SUFFICES ASSUME ExprInv PROVE FormsKeepTheMeaning
  OBVIOUS
<1>1. ExprAssumption /\ Raised \notin Nodes /\ \A w \in Worlds : w.on \subseteq Tokens /\ w.level \in [Tokens -> Int]
  BY ExprAssumption DEF ExprAssumption
<1>2. ParsedMeansTheSame
  BY <1>1, ParseMeansTheSame DEF ParsedMeansTheSame, ExprInv
<1> DEFINE parsed == Parse(text)
           d == ToNnf(parsed)
<1>3. ASSUME stage \in {"nnf", "dnf"}
      PROVE  /\ node = d /\ Whole(d) /\ NotsAreInside(d)
             /\ \A w \in Worlds : True(d, w) <=> True(parsed, w)
  <2>1. node = d /\ Whole(parsed)
    BY <1>1, <1>3, ParseIsWhole DEF ExprInv
  <2> HIDE DEF parsed
  <2>2. Whole(d) /\ NotsAreInside(d)
    BY <1>1, <2>1, FormsAreWhole
  <2>3. ASSUME NEW w \in Worlds PROVE True(d, w) <=> True(parsed, w)
    <3>1. IsWorld(w)
      BY <1>1 DEF IsWorld
    <3> QED BY <1>1, <2>1, <3>1, FormsMeanTheSame
  <2> QED BY <2>1, <2>2, <2>3
<1>4. NormalFormMeansTheSame
  BY <1>3 DEF NormalFormMeansTheSame
<1> HIDE DEF d, parsed
<1>5. ASSUME stage = "dnf", terms # Raised
      PROVE  /\ \A w \in Worlds : DnfTrue(terms, w) <=> True(parsed, w)
             /\ \A t \in terms : \A x \in t :
                  Literal(x.name, ~x.neg) \notin t /\ (Len(x.name) = 3 => ~x.neg)
  <2>1. terms = ToDnf(d) /\ ToDnf(d) # Raised
    BY <1>3, <1>5 DEF ExprInv
  <2> QED BY <1>3, <1>5, <2>1, DnfMeansIt
<1>6. DnfMeansTheSame /\ ProductsCanBeDrawn
  BY <1>5 DEF DnfMeansTheSame, ProductsCanBeDrawn, parsed
<1> QED BY <1>2, <1>4, <1>6 DEF FormsKeepTheMeaning

(* Whatever is meant, and whatever text is given: in every world the       *)
(* parsed text, its negation normal form and the sum of products have one  *)
(* value, and the products can be drawn.                                   *)
THEOREM FormsKeepMeaning == Spec => []FormsKeepTheMeaning
<1>1. Init => ExprInv
  BY ExprInvInit
<1>2. ExprInv /\ [Next]_vars => ExprInv'
  BY ExprInvStep
<1>3. ExprInv => FormsKeepTheMeaning
  BY ExprInvForms
<1> QED BY <1>1, <1>2, <1>3, PTL DEF Spec
=============================================================================
