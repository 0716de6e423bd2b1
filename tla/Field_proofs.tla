---------------------------- MODULE Field_proofs ----------------------------
(***************************************************************************)
(* The field bus for every number of symbols, of map entries and of        *)
(* changes, and for every misbehaviour of the PLC.                         *)
(*                                                                         *)
(* The driver: nobody who holds the buffer mutex sees half an image, and a *)
(* cycle without a failure brings the field up to the program's outputs.   *)
(* Neither is inductive: in mid-copy an image *is* a mixture, and HalInv   *)
(* says of what, depending on who holds the lock and how far the copy has  *)
(* come.                                                                   *)
(*                                                                         *)
(* The links: an input that was written is at its device, and what a read  *)
(* returned was true of the PLC.  In the middle of a call some inputs are  *)
(* old and some outputs unread; CommandInv and ReadInv say which, by the   *)
(* requests that are still to come.                                        *)
(***************************************************************************)
EXTENDS Field, FieldClient_proofs, WellFoundedInduction

(* Who holds the buffer lock, and when a request is under way. *)
LockInv ==
    /\ lock = "driver" <=> pc \in {"storing", "copying"}
    /\ lock = "other" <=> other = "inside"
    /\ request # "none" => pc \in {"read", "written"}

(* Where in the map the two threads are; and through the v4 interface a    *)
(* driver that is up has the buffers.                                      *)
PlaceInv ==
    /\ pc \in {"ask", "read", "store", "storing"} => k \in Ins
    /\ pc \in {"snapshot", "copying", "send", "written"} => k \in Outs
    /\ pc \in {"down", "ready", "program", "snapshot"} => k = 1
    /\ Batch /\ pc \in {"ask", "read", "store"} => k = 1
    /\ other # "inside" => ok = 1
    /\ setup.abi = "v4" /\ pc # "down" => args

(* The answer of a batch is of one moment, and the image is that answer    *)
(* as far as the driver, which then holds the lock, has copied it.         *)
InputInv ==
    Batch =>
        /\ \A i, j \in Ins : bits[i] = bits[j]
        /\ pc # "storing" => \A i, j \in Ins : inImage[i] = inImage[j]
        /\ pc = "storing" => \A i \in Ins : i < k => inImage[i] = bits[i]

(* The output image is the last write, but for the part another thread has *)
(* yet to write under the lock; the snapshot is all of it.                 *)
OutputInv ==
    /\ \A o \in Outs : outImage[o] = IF lock = "other" /\ o >= ok THEN gen - 1 ELSE gen
    /\ due <= gen
    /\ pc = "copying" => \A o \in Outs : o < k => snap[o] = gen
    /\ pc \in {"send", "written"} =>
          /\ \A o, p \in Outs : snap[o] = snap[p]
          /\ \A o \in Outs : snap[o] >= due

(* What has been sent without a failure is in the field. *)
FieldInv ==
    /\ pc \in {"send", "written"} /\ ~faulty => \A o \in Outs : o < k => plcOut[o] >= due
    /\ pc = "written" /\ request = "done" => plcOut[k] = snap[k]
    /\ setup.abi = "v4" /\ pc \in {"down", "ready"} /\ ~faulty =>
          \A o \in Outs : plcOut[o] >= due

(* Together with the types they are inductive. *)
HalInv ==
    /\ setup \in Setups /\ DriverTypeOK
    /\ LockInv /\ PlaceInv /\ InputInv /\ OutputInv /\ FieldInv

(* What the proofs need to know of the device map's entries. *)
LEMMA MapFacts ==
  /\ Ins \subseteq Nat /\ 1 \in Ins /\ NIn \in Ins
  /\ Outs \subseteq Nat /\ 1 \in Outs /\ NOut \in Outs
  /\ \A i \in Ins : 1 <= i /\ i <= NIn /\ (i # NIn => i + 1 \in Ins)
  /\ \A o \in Outs : 1 <= o /\ o <= NOut /\ (o # NOut => o + 1 \in Outs)
BY HalAssumption DEF Ins, Outs

(* Types, which need the entry to be one of the map the copy is about. *)
LEMMA TypesStep ==
  ASSUME HalInv, [HalNext]_halVars
  PROVE  setup' \in Setups /\ DriverTypeOK'
<1> USE MapFacts DEF HalInv, DriverTypeOK, PlaceInv, socket, image
<1>1. CASE InitDriver /\ UNCHANGED setup
  BY <1>1 DEF InitDriver, Connect, Pcs
<1>2. CASE Cleanup /\ UNCHANGED setup
  BY <1>2 DEF Cleanup, Pcs
<1>3. CASE CycleStart /\ UNCHANGED setup
  BY <1>3 DEF CycleStart, Pcs
<1>4. CASE Send /\ UNCHANGED setup
  BY <1>4, ZenonT(30) DEF Send, Connect, Skip, NextIn, NextOut, Pcs
<1>5. CASE Receive /\ UNCHANGED setup
  BY <1>5 DEF Receive, Skip, NextIn, NextOut, Pcs
<1>6. CASE LockInImage /\ UNCHANGED setup
  BY <1>6 DEF LockInImage, Pcs
<1>7. CASE StoreBit /\ UNCHANGED setup
  BY <1>7 DEF StoreBit, NextIn, Pcs
<1>8. CASE Program /\ UNCHANGED setup
  BY <1>8 DEF Program, Pcs
<1>9. CASE LockOutImage /\ UNCHANGED setup
  BY <1>9 DEF LockOutImage, Pcs
<1>10. CASE CopyOutput /\ UNCHANGED setup
  BY <1>10 DEF CopyOutput, Pcs
<1>11. CASE Answer /\ UNCHANGED setup
  BY <1>11 DEF Answer, Pcs
<1>12. CASE Misserve /\ UNCHANGED setup
  BY <1>12 DEF Misserve, Pcs
<1>13. CASE HangUp /\ UNCHANGED setup
  BY <1>13 DEF HangUp, Pcs
<1>14. CASE FieldChanges /\ UNCHANGED setup
  BY <1>14 DEF FieldChanges, Pcs
<1>15. CASE OtherWants /\ UNCHANGED setup
  BY <1>15 DEF OtherWants, Pcs
<1>16. CASE OtherLocks /\ UNCHANGED setup
  BY <1>16 DEF OtherLocks, Pcs
<1>17. CASE OtherWrites /\ UNCHANGED setup
  BY <1>17 DEF OtherWrites, Pcs
<1>18. CASE UNCHANGED halVars
  BY <1>18 DEF halVars, moving
<1> QED
  BY <1>1, <1>2, <1>3, <1>4, <1>5, <1>6, <1>7, <1>8, <1>9,
     <1>10, <1>11, <1>12, <1>13, <1>14, <1>15, <1>16, <1>17, <1>18
  DEF HalNext, InCycle, OtherThread

(* The lock is given back by whoever took it, and never taken across a     *)
(* request.                                                                *)
LEMMA LockStep ==
  ASSUME HalInv, [HalNext]_halVars
  PROVE  LockInv'
<1> USE MapFacts DEF HalInv, DriverTypeOK, LockInv, socket, image
<1>1. CASE Send /\ UNCHANGED setup
  BY <1>1 DEF Send, Connect, Skip, NextIn, NextOut
<1>2. CASE Receive /\ UNCHANGED setup
  BY <1>2 DEF Receive, Skip, NextIn, NextOut
<1>3. CASE LockInImage /\ UNCHANGED setup
  BY <1>3 DEF LockInImage
<1>4. CASE StoreBit /\ UNCHANGED setup
  BY <1>4 DEF StoreBit, NextIn
<1>5. CASE LockOutImage /\ UNCHANGED setup
  BY <1>5 DEF LockOutImage
<1>6. CASE CopyOutput /\ UNCHANGED setup
  BY <1>6 DEF CopyOutput
<1>7. CASE OtherLocks /\ UNCHANGED setup
  BY <1>7 DEF OtherLocks
<1>8. CASE OtherWrites /\ UNCHANGED setup
  BY <1>8 DEF OtherWrites
<1>9. CASE /\ InitDriver \/ Cleanup \/ CycleStart \/ Program \/ Answer
              \/ Misserve \/ HangUp \/ FieldChanges \/ OtherWants
           /\ UNCHANGED setup
  BY <1>9 DEF InitDriver, Cleanup, CycleStart, Program, Answer, Misserve, HangUp, FieldChanges, OtherWants, Connect
<1>10. CASE UNCHANGED halVars
  BY <1>10 DEF halVars, moving
<1> QED
  BY <1>1, <1>2, <1>3, <1>4, <1>5, <1>6, <1>7, <1>8, <1>9,
     <1>10
  DEF HalNext, InCycle, OtherThread

(* Every copy begins at the first entry and stays within the map. *)
LEMMA PlaceStep ==
  ASSUME HalInv, [HalNext]_halVars
  PROVE  PlaceInv'
<1> USE MapFacts DEF HalInv, DriverTypeOK, LockInv, PlaceInv, Batch, socket, image
<1>1. CASE InitDriver /\ UNCHANGED setup
  BY <1>1 DEF InitDriver, Connect
<1>2. CASE Cleanup /\ UNCHANGED setup
  BY <1>2 DEF Cleanup
<1>3. CASE CycleStart /\ UNCHANGED setup
  BY <1>3 DEF CycleStart
<1>4. CASE Send /\ UNCHANGED setup
  BY <1>4 DEF Send, Connect, Skip, NextIn, NextOut
<1>5. CASE Receive /\ UNCHANGED setup
  BY <1>5 DEF Receive, Skip, NextIn, NextOut
<1>6. CASE StoreBit /\ UNCHANGED setup
  BY <1>6 DEF StoreBit, NextIn
<1>7. CASE Program /\ UNCHANGED setup
  BY <1>7 DEF Program
<1>8. CASE CopyOutput /\ UNCHANGED setup
  BY <1>8 DEF CopyOutput
<1>9. CASE OtherLocks /\ UNCHANGED setup
  BY <1>9 DEF OtherLocks
<1>10. CASE OtherWrites /\ UNCHANGED setup
  BY <1>10 DEF OtherWrites
<1>11. CASE /\ LockInImage \/ LockOutImage \/ Answer \/ Misserve \/ HangUp
              \/ FieldChanges \/ OtherWants
           /\ UNCHANGED setup
  BY <1>11 DEF LockInImage, LockOutImage, Answer, Misserve, HangUp, FieldChanges, OtherWants
<1>12. CASE UNCHANGED halVars
  BY <1>12 DEF halVars, moving
<1> QED
  BY <1>1, <1>2, <1>3, <1>4, <1>5, <1>6, <1>7, <1>8, <1>9,
     <1>10, <1>11, <1>12
  DEF HalNext, InCycle, OtherThread

(* Bits change only while a read is under way, when nobody copies them. *)
LEMMA InputStep ==
  ASSUME HalInv, [HalNext]_halVars
  PROVE  InputInv'
<1> USE MapFacts DEF HalInv, DriverTypeOK, LockInv, PlaceInv, InputInv, Batch, socket, image
<1>1. CASE Send /\ UNCHANGED setup
  BY <1>1 DEF Send, Connect, Skip, NextIn, NextOut
<1>2. CASE Receive /\ UNCHANGED setup
  BY <1>2 DEF Receive, Skip, NextIn, NextOut
<1>3. CASE LockInImage /\ UNCHANGED setup
  BY <1>3 DEF LockInImage
<1>4. CASE StoreBit /\ UNCHANGED setup
  BY <1>4 DEF StoreBit, NextIn
<1>5. CASE CopyOutput /\ UNCHANGED setup
  BY <1>5 DEF CopyOutput
<1>6. CASE Answer /\ UNCHANGED setup
  BY <1>6 DEF Answer
<1>7. CASE /\ InitDriver \/ Cleanup \/ CycleStart \/ Program
              \/ LockOutImage \/ Misserve \/ HangUp \/ FieldChanges
              \/ OtherWants \/ OtherLocks \/ OtherWrites
           /\ UNCHANGED setup
  BY <1>7 DEF InitDriver, Cleanup, CycleStart, Program, LockOutImage, Misserve, HangUp, FieldChanges, OtherWants, OtherLocks, OtherWrites, Connect
<1>8. CASE UNCHANGED halVars
  BY <1>8 DEF halVars, moving
<1> QED
  BY <1>1, <1>2, <1>3, <1>4, <1>5, <1>6, <1>7, <1>8
  DEF HalNext, InCycle, OtherThread

(* The output image changes under the lock only, so not during a copy. *)
LEMMA OutputStep ==
  ASSUME HalInv, [HalNext]_halVars
  PROVE  OutputInv'
<1> USE MapFacts DEF HalInv, DriverTypeOK, LockInv, PlaceInv, OutputInv, socket, image
<1>1. CASE Send /\ UNCHANGED setup
  BY <1>1 DEF Send, Connect, Skip, NextIn, NextOut
<1>2. CASE Receive /\ UNCHANGED setup
  BY <1>2 DEF Receive, Skip, NextIn, NextOut
<1>3. CASE StoreBit /\ UNCHANGED setup
  BY <1>3 DEF StoreBit, NextIn
<1>4. CASE Program /\ UNCHANGED setup
  BY <1>4 DEF Program
<1>5. CASE LockOutImage /\ UNCHANGED setup
  BY <1>5 DEF LockOutImage
<1>6. CASE CopyOutput /\ UNCHANGED setup
  BY <1>6 DEF CopyOutput
<1>7. CASE OtherLocks /\ UNCHANGED setup
  BY <1>7 DEF OtherLocks
<1>8. CASE OtherWrites /\ UNCHANGED setup
  BY <1>8 DEF OtherWrites
<1>9. CASE /\ InitDriver \/ Cleanup \/ CycleStart \/ LockInImage
              \/ Answer \/ Misserve \/ HangUp \/ FieldChanges
              \/ OtherWants
           /\ UNCHANGED setup
  BY <1>9 DEF InitDriver, Cleanup, CycleStart, LockInImage, Answer, Misserve, HangUp, FieldChanges, OtherWants, Connect
<1>10. CASE UNCHANGED halVars
  BY <1>10 DEF halVars, moving
<1> QED
  BY <1>1, <1>2, <1>3, <1>4, <1>5, <1>6, <1>7, <1>8, <1>9,
     <1>10
  DEF HalNext, InCycle, OtherThread

(* An entry is passed without a failure only when its answer has come. *)
LEMMA FieldStep ==
  ASSUME HalInv, [HalNext]_halVars
  PROVE  FieldInv'
<1> USE MapFacts DEF HalInv, DriverTypeOK, LockInv, PlaceInv, OutputInv, FieldInv, socket, image
<1>1. CASE InitDriver /\ UNCHANGED setup
  BY <1>1 DEF InitDriver, Connect
<1>2. CASE Cleanup /\ UNCHANGED setup
  BY <1>2 DEF Cleanup
<1>3. CASE CycleStart /\ UNCHANGED setup
  BY <1>3 DEF CycleStart
<1>4. CASE Send /\ UNCHANGED setup
  BY <1>4 DEF Send, Connect, Skip, NextIn, NextOut
<1>5. CASE Receive /\ UNCHANGED setup
  BY <1>5, SMTT(30) DEF Receive, Skip, NextIn, NextOut
<1>6. CASE StoreBit /\ UNCHANGED setup
  BY <1>6 DEF StoreBit, NextIn
<1>7. CASE Program /\ UNCHANGED setup
  BY <1>7 DEF Program
<1>8. CASE CopyOutput /\ UNCHANGED setup
  BY <1>8 DEF CopyOutput
<1>9. CASE Answer /\ UNCHANGED setup
  BY <1>9 DEF Answer
<1>10. CASE /\ LockInImage \/ LockOutImage \/ Misserve \/ HangUp
              \/ FieldChanges \/ OtherWants \/ OtherLocks \/ OtherWrites
           /\ UNCHANGED setup
  BY <1>10 DEF LockInImage, LockOutImage, Misserve, HangUp, FieldChanges, OtherWants, OtherLocks, OtherWrites
<1>11. CASE UNCHANGED halVars
  BY <1>11 DEF halVars, moving
<1> QED
  BY <1>1, <1>2, <1>3, <1>4, <1>5, <1>6, <1>7, <1>8, <1>9,
     <1>10, <1>11
  DEF HalNext, InCycle, OtherThread

(* The invariant holds throughout. *)
THEOREM HalInvariant == HalSpec => []HalInv
<1>1. HalInit => HalInv
  <2> SUFFICES ASSUME HalInit PROVE HalInv
    OBVIOUS
  <2>1. setup \in Setups /\ DriverTypeOK
    BY MapFacts DEF HalInit, DriverTypeOK, Pcs
  <2>2. LockInv /\ PlaceInv
    BY DEF HalInit, LockInv, PlaceInv
  <2>3. InputInv
    BY DEF HalInit, InputInv
  <2>4. OutputInv /\ FieldInv
    BY MapFacts DEF HalInit, OutputInv, FieldInv
  <2> QED BY <2>1, <2>2, <2>3, <2>4 DEF HalInv
<1>2. HalInv /\ [HalNext]_halVars => HalInv'
  BY TypesStep, LockStep, PlaceStep, InputStep, OutputStep, FieldStep DEF HalInv
<1> QED BY <1>1, <1>2, PTL DEF HalSpec

(* The driver's buffers, lock and place keep their types. *)
THEOREM DriverTypeCorrect == HalSpec => []DriverTypeOK
<1>1. HalInv => DriverTypeOK
  BY DEF HalInv
<1> QED BY <1>1, HalInvariant, PTL

(* Without the lock held by the driver the input image of the FEnet driver *)
(* is of one moment of the field, and what is sent is one output image:    *)
(* the critical sections of cycle_start and cycle_end are large enough.    *)
THEOREM ImagesOfOneMoment == HalSpec => []ImagesAreOneMoment
<1>1. HalInv => ImagesAreOneMoment
  BY DEF HalInv, LockInv, InputInv, OutputInv, ImagesAreOneMoment, InputsAreOneMoment,
         SnapshotIsOneMoment
<1> QED BY <1>1, HalInvariant, PTL

(* After a cycle without a failed transaction each field output is at      *)
(* least as recent as what the program left, through the v4 interface.     *)
THEOREM CleanCyclesReachField == HalSpec => []CleanCycleReachesField
<1>1. HalInv => CleanCycleReachesField
  BY DEF HalInv, FieldInv, CleanCycleReachesField
<1> QED BY <1>1, HalInvariant, PTL

----------------------------------------------------------------------------
(* A set with 0 and the successor of each of its numbers has every number. *)
LEMMA SetInduction ==
    ASSUME NEW S, 0 \in S, \A n \in Nat : n \in S => n + 1 \in S
    PROVE  Nat \subseteq S
<1> DEFINE Less == {ss \in Nat \X Nat : ss[1] < ss[2]}
           Rest == Nat \ S
<1> SUFFICES ASSUME Rest # {} PROVE FALSE
  OBVIOUS
<1>1. IsWellFoundedOn(Less, Nat)
  BY NatLessThanWellFounded DEF OpToRel
<1>2. Rest \subseteq Nat
  OBVIOUS
<1>3. PICK n \in Rest : \A m \in Rest : <<m, n>> \notin Less
  <2> HIDE DEF Less, Rest
  <2> QED BY <1>1, <1>2, WFMin
<1>4. n \in Nat /\ n # 0 /\ n - 1 \in Nat /\ n - 1 < n
  OBVIOUS
<1>5. n - 1 \in S
  <2>1. <<n - 1, n>> \in Less
    BY <1>4
  <2> QED BY <1>3, <1>4, <2>1
<1> QED BY <1>4, <1>5

----------------------------------------------------------------------------
(* s lists S in order. *)
Lists(s, S, n) ==
    /\ s \in [1..n -> S]
    /\ \A i \in S : \E j \in 1..n : s[j] = i
    /\ \A j, l \in 1..n : j < l => s[j] < s[l]

(* Any set of the first m symbols can be listed in order. *)
LEMMA OrderExists ==
    ASSUME NEW m \in Nat, NEW S \in SUBSET (1..m)
    PROVE  \E n \in 0..m : \E s : Lists(s, S, n)
<1> DEFINE Good == {p \in Nat : \A T \in SUBSET (1..p) : \E n \in 0..p : \E s : Lists(s, T, n)}
<1>1. 0 \in Good
  <2> SUFFICES ASSUME NEW T \in SUBSET (1..0) PROVE \E n \in 0..0 : \E s : Lists(s, T, n)
    OBVIOUS
  <2> DEFINE e == [j \in 1..0 |-> 0]
  <2>1. T = {}
    OBVIOUS
  <2>2. Lists(e, T, 0)
    BY <2>1 DEF Lists
  <2> QED BY <2>2
<1>2. \A p \in Nat : p \in Good => p + 1 \in Good
  <2> TAKE p \in Nat
  <2> HAVE p \in Good
  <2> SUFFICES \A T \in SUBSET (1..p+1) : \E n \in 0..p+1 : \E s : Lists(s, T, n)
    OBVIOUS
  <2> TAKE T \in SUBSET (1..p+1)
  <2>1. CASE p + 1 \notin T
    <3>1. T \in SUBSET (1..p)
      BY <2>1
    <3>2. PICK n \in 0..p : \E s : Lists(s, T, n)
      BY <3>1
    <3> QED BY <3>2
  <2>2. CASE p + 1 \in T
    <3> DEFINE U == T \ {p + 1}
    <3>1. U \in SUBSET (1..p)
      OBVIOUS
    <3>2. PICK n \in 0..p : \E s : Lists(s, U, n)
      BY <3>1
    <3>3. PICK s : Lists(s, U, n)
      BY <3>2
    <3> DEFINE t == [j \in 1..n+1 |-> IF j = n + 1 THEN p + 1 ELSE s[j]]
    <3>4. t \in [1..n+1 -> T]
      BY <2>2, <3>3 DEF Lists
    <3>5. \A i \in T : \E j \in 1..n+1 : t[j] = i
      <4> TAKE i \in T
      <4>1. CASE i = p + 1
        BY <4>1
      <4>2. CASE i \in U
        <5>1. PICK j \in 1..n : s[j] = i
          BY <3>3, <4>2 DEF Lists
        <5> QED BY <5>1
      <4> QED BY <4>1, <4>2
    <3>6. \A j, l \in 1..n+1 : j < l => t[j] < t[l]
      <4> TAKE j, l \in 1..n+1
      <4> HAVE j < l
      <4>1. j \in 1..n /\ t[j] = s[j] /\ s[j] \in U
        BY <3>3 DEF Lists
      <4>2. CASE l = n + 1
        <5>1. t[l] = p + 1
          BY <4>2
        <5>2. t[j] \in 1..p
          BY <3>1, <4>1
        <5> QED BY <5>1, <5>2
      <4>3. CASE l # n + 1
        <5>1. l \in 1..n /\ t[l] = s[l]
          BY <4>3
        <5>2. s[j] < s[l]
          BY <3>3, <4>1, <5>1 DEF Lists
        <5> QED BY <4>1, <5>1, <5>2
      <4> QED BY <4>2, <4>3
    <3>7. Lists(t, T, n + 1)
      <4> HIDE DEF t
      <4> QED BY <3>4, <3>5, <3>6 DEF Lists
    <3> QED BY <3>7
  <2> QED BY <2>1, <2>2
<1>3. Nat \subseteq Good
  <2> HIDE DEF Good
  <2> QED BY <1>1, <1>2, SetInduction
<1> QED BY <1>3

(* Sorted lists a set of inputs. *)
LEMMA SortedLists ==
    ASSUME Links!LinkAssumption, NEW S \in SUBSET Links!Inputs
    PROVE  \E n \in 0..InSymbols : Lists(Links!Sorted(S), S, n)
<1> DEFINE Space == UNION {[1..n -> S] : n \in 0..InSymbols}
           Good(s) == /\ \A i \in S : \E j \in DOMAIN s : s[j] = i
                      /\ \A j, l \in DOMAIN s : j < l => s[j] < s[l]
<1>1. InSymbols \in Nat
  BY DEF Links!LinkAssumption
<1>2. \E n \in 0..InSymbols : \E s : Lists(s, S, n)
  BY <1>1, OrderExists DEF Links!Inputs
<1>3. PICK n \in 0..InSymbols : \E s : Lists(s, S, n)
  BY <1>2
<1>4. PICK s : Lists(s, S, n)
  BY <1>3
<1>5. s \in Space /\ Good(s)
  BY <1>4 DEF Lists
<1> DEFINE c == CHOOSE q \in Space : Good(q)
<1>6. c \in Space /\ Good(c)
  <2> HIDE DEF Space, Good
  <2> QED BY <1>5
<1>7. c = Links!Sorted(S)
  BY DEF Links!Sorted
<1>8. PICK m \in 0..InSymbols : c \in [1..m -> S]
  BY <1>6
<1> HIDE DEF c, Space
<1>9. Lists(c, S, m)
  BY <1>6, <1>8 DEF Lists
<1> QED BY <1>7, <1>9

(* In a list of symbols that has no gap the j-th is j - 1 after the first. *)
LEMMA NoGaps ==
    ASSUME Links!LinkAssumption, NEW S \in SUBSET Links!Inputs, NEW s, NEW n \in Nat \ {0},
           Lists(s, S, n), s[n] - s[1] = n - 1, NEW j \in 1..n
    PROVE  s[j] = s[1] + (j - 1)
<1>1. \A i \in 1..n : s[i] \in Int
  <2>1. S \subseteq Int
    BY DEF Links!Inputs, Links!LinkAssumption
  <2> QED BY <2>1 DEF Lists
<1> DEFINE Good == {d \in Nat : \A i \in 1..n : i + d <= n => s[i + d] >= s[i] + d}
<1>2. 0 \in Good
  BY <1>1
<1>3. \A d \in Nat : d \in Good => d + 1 \in Good
  <2> SUFFICES ASSUME NEW d \in Nat, d \in Good, NEW i \in 1..n, i + (d + 1) <= n
               PROVE  s[i + (d + 1)] >= s[i] + (d + 1)
    OBVIOUS
  <2>1. i + d \in 1..n /\ i + (d + 1) \in 1..n /\ i + d < i + (d + 1)
    OBVIOUS
  <2>2. s[i + d] < s[i + (d + 1)]
    BY <2>1 DEF Lists
  <2>3. s[i + d] >= s[i] + d
    BY <2>1
  <2> QED BY <1>1, <2>1, <2>2, <2>3
<1>4. Nat \subseteq Good
  <2> HIDE DEF Good
  <2> QED BY <1>2, <1>3, SetInduction
<1>5. j - 1 \in Good /\ n - j \in Good
  BY <1>4
<1>6. s[1 + (j - 1)] >= s[1] + (j - 1)
  BY <1>5
<1>7. s[j + (n - j)] >= s[j] + (n - j)
  BY <1>5
<1>8. 1 + (j - 1) = j /\ j + (n - j) = n /\ 1 \in 1..n /\ n \in 1..n
  OBVIOUS
<1> QED BY <1>1, <1>6, <1>7, <1>8

----------------------------------------------------------------------------
(* Packed bits are bytes. *)
LEMMA BytesTyped ==
    ASSUME Links!LinkAssumption, NEW n \in Nat, NEW vals \in [1..n -> BOOLEAN]
    PROVE  /\ Links!PackBits(vals) \in Seq(SUBSET Nat)
           /\ Links!PackNibbles(vals) \in Seq(SUBSET Nat)
<1> DEFINE a == n + ByteBits - 1
           size == a \div ByteBits
           half == (n + 1) \div 2
           bytes == Links!PackBits(vals)
           nibbles == Links!PackNibbles(vals)
<1>1. Len(vals) = n
  BY LenProperties
<1>2. ByteBits \in Nat \ {0} /\ a \in Nat
  BY DEF Links!LinkAssumption
<1>3. size \in Nat
  <2> HIDE DEF a
  <2> QED BY <1>2
<1>4. bytes \in [1..size -> SUBSET Nat]
  <2>1. 0..ByteBits - 1 \subseteq Nat
    BY <1>2
  <2> QED BY <1>1, <2>1 DEF Links!PackBits
<1>5. nibbles \in [1..half -> SUBSET Nat]
  <2>1. \A i : Links!Half(i) \in Nat
    BY DEF Links!Half
  <2> QED BY <1>1, <2>1 DEF Links!PackNibbles
<1>6. half \in Nat
  OBVIOUS
<1> HIDE DEF bytes, nibbles, size, half
<1>7. bytes \in Seq(SUBSET Nat) /\ nibbles \in Seq(SUBSET Nat)
  BY <1>3, <1>4, <1>5, <1>6, SeqDef
<1> QED BY <1>7 DEF bytes, nibbles

(* Bits that are packed come out of their bytes as they went in. *)
LEMMA BytesKeepBits ==
    ASSUME Links!LinkAssumption, NEW n \in Nat, NEW vals \in [1..n -> BOOLEAN]
    PROVE  Links!UnpackBits(Links!PackBits(vals), n) = vals
<1> DEFINE B == ByteBits
           m == (n + B - 1) \div B
           bytes == Links!PackBits(vals)
<1>1. B \in Nat \ {0}
  BY DEF Links!LinkAssumption
<1>2. vals \in Seq(BOOLEAN) /\ Len(vals) = n
  BY SeqDef, LenProperties
<1>3. m \in Nat /\ B * m + ((n + B - 1) % B) = n + B - 1 /\ (n + B - 1) % B \in 0..B-1
  <2>1. n + B - 1 \in Nat
    BY <1>1
  <2> HIDE DEF B
  <2> QED BY <1>1, <2>1
<1>4. bytes = [b \in 1..m |->
                 {j \in 0..B-1 : B * (b - 1) + j < n /\ vals[B * (b - 1) + j + 1]}]
  BY <1>2 DEF Links!PackBits
<1>5. Len(bytes) = m
  <2> HIDE DEF m
  <2> QED BY <1>3, <1>4, LenProperties
<1>6. \A i \in 1..n : /\ (i - 1) \div B < m
                      /\ ((i - 1) % B \in bytes[(i - 1) \div B + 1]) <=> vals[i]
  <2> TAKE i \in 1..n
  <2> DEFINE q == (i - 1) \div B
             r == (i - 1) % B
  <2>1. i - 1 \in Nat /\ i - 1 < n
    OBVIOUS
  <2>2. q \in Nat /\ r \in 0..B-1 /\ B * q + r = i - 1
    <3> HIDE DEF B
    <3> QED BY <1>1, <2>1
  <2> HIDE DEF q, r, m, B, bytes
  <2>3. B * q \in Nat /\ B * m \in Nat
    BY <1>1, <1>3, <2>2
  <2>4. B * q < B * m
    BY <1>1, <1>3, <2>1, <2>2, <2>3
  <2>5. q < m
    <3>1. ASSUME m <= q PROVE FALSE
      <4>1. B * m <= B * q
        BY <1>1, <1>3, <2>2, <3>1
      <4> QED BY <2>3, <2>4, <4>1
    <3> QED BY <1>3, <2>2, <3>1
  <2>6. q + 1 \in 1..m /\ (q + 1) - 1 = q
    BY <1>3, <2>2, <2>5
  <2>7. bytes[q + 1] = {j \in 0..B-1 : B * q + j < n /\ vals[B * q + j + 1]}
    BY <1>4, <2>6
  <2>8. B * q + r + 1 = i /\ B * q + r < n
    BY <1>1, <2>1, <2>2, <2>3
  <2>9. r \in bytes[q + 1] <=> vals[i]
    BY <2>2, <2>7, <2>8
  <2>10. q < m /\ (r \in bytes[q + 1] <=> vals[i])
    BY <2>5, <2>9
  <2> QED BY <2>10 DEF q, r
<1>7. \A i \in 1..n : vals[i] \in BOOLEAN
  OBVIOUS
<1>8. Links!UnpackBits(bytes, n) =
        [i \in 1..n |-> /\ (i - 1) \div B < m
                        /\ (i - 1) % B \in bytes[(i - 1) \div B + 1]]
  BY <1>5 DEF Links!UnpackBits
<1>9. \A i \in 1..n :
        ((i - 1) \div B < m /\ (i - 1) % B \in bytes[(i - 1) \div B + 1]) = vals[i]
  <2> HIDE DEF m, B, bytes
  <2> QED BY <1>6, <1>7
<1> HIDE DEF bytes, m, B
<1> QED BY <1>8, <1>9 DEF bytes

(* So does the one point of a MELSEC request. *)
LEMMA PointKeepsBit ==
    ASSUME NEW vals \in [1..1 -> BOOLEAN]
    PROVE  Links!UnpackNibbles(Links!PackNibbles(vals), 1) = vals
<1>1. vals \in Seq(BOOLEAN) /\ Len(vals) = 1
  <2> DEFINE n == 1
  <2>1. n \in Nat /\ vals \in [1..n -> BOOLEAN]
    OBVIOUS
  <2> HIDE DEF n
  <2>2. vals \in Seq(BOOLEAN) /\ Len(vals) = n
    BY <2>1, SeqDef, LenProperties
  <2> QED BY <2>2 DEF n
<1> DEFINE bytes == Links!PackNibbles(vals)
<1>2. bytes[1] = {Links!Half(i) : i \in {n \in 0..0 : n \div 2 = 0 /\ vals[n + 1]}}
  BY <1>1 DEF Links!PackNibbles
<1>3. Links!Half(0) = 4
  BY DEF Links!Half
<1>4. Links!Half(0) \in bytes[1] <=> vals[1]
  BY <1>2, <1>3
<1>5. vals[1] \in BOOLEAN
  OBVIOUS
<1>6. Links!UnpackNibbles(bytes, 1) = [i \in 1..1 |-> Links!Half(i - 1) \in bytes[(i - 1) \div 2 + 1]]
  BY DEF Links!UnpackNibbles
<1>7. \A i \in 1..1 : i - 1 = 0 /\ (i - 1) \div 2 + 1 = 1 /\ i = 1
  OBVIOUS
<1> HIDE DEF bytes
<1>8. \A i \in 1..1 : (Links!Half(i - 1) \in bytes[(i - 1) \div 2 + 1]) = vals[i]
  BY <1>4, <1>5, <1>7
<1> QED BY <1>6, <1>8 DEF bytes

----------------------------------------------------------------------------
Device == [area : {"coil", "discrete", "%MX", "M"}, at : Nat]
LinkRequest == [op : {"write", "read"}, devices : Seq(Device), bytes : Seq(SUBSET Nat)]

(* Two inputs never share a device, nor do two outputs. *)
LEMMA DevicesDiffer ==
    ASSUME Links!LinkAssumption, family \in Families
    PROVE  /\ \A i, j \in Links!Inputs :
                 Links!InputOf(i) \in Device /\ (Links!InputOf(i) = Links!InputOf(j) => i = j)
           /\ \A o, p \in Links!Outputs :
                 Links!OutputOf(o) \in Device /\ (Links!OutputOf(o) = Links!OutputOf(p) => o = p)
<1> USE DEF Links!LinkAssumption
<1>1. CASE family = "modbus"
  BY <1>1 DEF Links!Inputs, Links!Outputs, Links!InputOf, Links!OutputOf, Device,
              Links!ModbusInput, Links!ModbusOutput
<1>2. CASE family = "fenet"
  BY <1>2 DEF Links!Inputs, Links!Outputs, Links!InputOf, Links!OutputOf, Device,
              Links!FenetInput, Links!FenetOutput
<1>3. CASE family = "melsec"
  BY <1>3 DEF Links!Inputs, Links!Outputs, Links!InputOf, Links!OutputOf, Device,
              Links!MelsecInput, Links!MelsecOutput
<1> QED BY <1>1, <1>2, <1>3

(* The device of input i is one of those the request names. *)
Carries(r, i) == \E j \in DOMAIN r.devices : r.devices[j] = Links!InputOf(i)

(* A write request names inputs of the command only, and the device        *)
(* decodes for each the value the command has.                             *)
Says(r, cmd) ==
    /\ r.op = "write"
    /\ DOMAIN Links!DecodedWrite(r) = DOMAIN r.devices
    /\ \A j \in DOMAIN r.devices :
          \E i \in DOMAIN cmd : /\ r.devices[j] = Links!InputOf(i)
                              /\ Links!DecodedWrite(r)[j] = cmd[i]

(* The most devices one write request names. *)
Longest == IF family = "modbus" THEN InSymbols ELSE 1

(* The requests of a command: each says what the command says, none is     *)
(* longer than it may be, and between them they carry all of its inputs.   *)
Covers(w, cmd) ==
    /\ w \in Seq(LinkRequest) /\ Len(w) > 0
    /\ \A m \in 1..Len(w) : Says(w[m], cmd) /\ Len(w[m].devices) <= Longest
    /\ \A i \in DOMAIN cmd : \E m \in 1..Len(w) : Carries(w[m], i)

(* A request that writes the value v to input i and nothing else. *)
Single(r, i, v) ==
    \E bytes \in Seq(SUBSET Nat) :
        /\ r = Links!Write(<<Links!InputOf(i)>>, bytes)
        /\ Links!DecodedWrite(r) = [l \in 1..1 |-> v]

(* One request for each input. *)
LEMMA SinglesCover ==
    ASSUME Links!LinkAssumption, family \in Families,
           NEW S \in SUBSET Links!Inputs, S # {}, NEW cmd \in [S -> BOOLEAN],
           NEW n \in Nat, NEW s, Lists(s, S, n), NEW w, DOMAIN w = 1..n,
           w = [j \in 1..n |-> w[j]],
           \A j \in 1..n : Single(w[j], s[j], cmd[s[j]])
    PROVE  Covers(w, cmd)
<1>1. ASSUME NEW j \in 1..n
      PROVE  /\ w[j] \in LinkRequest /\ Says(w[j], cmd) /\ Carries(w[j], s[j])
             /\ Len(w[j].devices) <= Longest
  <2>1. PICK bytes \in Seq(SUBSET Nat) :
               /\ w[j] = Links!Write(<<Links!InputOf(s[j])>>, bytes)
               /\ Links!DecodedWrite(w[j]) = [l \in 1..1 |-> cmd[s[j]]]
    BY DEF Single
  <2> DEFINE i == s[j]
             d == <<Links!InputOf(i)>>
             r == w[j]
  <2>2. i \in S /\ i \in DOMAIN cmd /\ Links!InputOf(i) \in Device
    <3>1. i \in S /\ i \in Links!Inputs
      BY DEF Lists
    <3> QED BY <3>1, DevicesDiffer
  <2>3. d \in Seq(Device) /\ DOMAIN d = {1} /\ d[1] = Links!InputOf(i) /\ Len(d) = 1
    BY <2>2
  <2>4. r = [op |-> "write", devices |-> d, bytes |-> bytes]
    BY <2>1 DEF Links!Write
  <2>5. DOMAIN Links!DecodedWrite(r) = {1} /\ Links!DecodedWrite(r)[1] = cmd[i]
    BY <2>1
  <2> HIDE DEF i, d, r
  <2>6. r.op = "write" /\ r.devices = d
    BY <2>4
  <2>7. r \in LinkRequest
    BY <2>3, <2>4 DEF LinkRequest
  <2>8. Says(r, cmd)
    BY <2>2, <2>3, <2>5, <2>6 DEF Says
  <2>9. Carries(r, i)
    BY <2>3, <2>6 DEF Carries
  <2>10. Len(r.devices) <= Longest
    <3>1. InSymbols \in Nat \ {0}
      BY DEF Links!LinkAssumption
    <3>2. 1 <= Longest
      BY <3>1 DEF Longest
    <3> QED BY <2>3, <2>6, <3>2
  <2> QED BY <2>7, <2>8, <2>9, <2>10 DEF r, i
<1>2. w \in Seq(LinkRequest) /\ Len(w) = n
  <2>1. w \in [1..n -> LinkRequest]
    BY <1>1
  <2> QED BY <2>1, SeqDef, LenProperties
<1>3. n > 0
  BY DEF Lists
<1>4. \A i \in DOMAIN cmd : \E m \in 1..n : Carries(w[m], i)
  BY <1>1 DEF Lists
<1> QED BY <1>1, <1>2, <1>3, <1>4 DEF Covers

(* One request for all of them. *)
LEMMA SpanCovers ==
    ASSUME Links!LinkAssumption, family \in Families,
           NEW S \in SUBSET Links!Inputs, NEW cmd \in [S -> BOOLEAN],
           NEW n \in Nat, NEW s, Lists(s, S, n), NEW bytes \in Seq(SUBSET Nat),
           NEW d \in [1..n -> Device], NEW r, r = Links!Write(d, bytes),
           \A j \in 1..n : d[j] = Links!InputOf(s[j]),
           DOMAIN Links!DecodedWrite(r) = 1..n,
           \A j \in 1..n : Links!DecodedWrite(r)[j] = cmd[s[j]],
           n <= Longest
    PROVE  Covers(<<r>>, cmd)
<1>1. \A j \in 1..n : s[j] \in S
  BY DEF Lists
<1>3. d \in Seq(Device) /\ DOMAIN d = 1..n /\ Len(d) = n
  BY SeqDef, LenProperties
<1>4. r = [op |-> "write", devices |-> d, bytes |-> bytes]
  BY DEF Links!Write
<1>5. r \in LinkRequest /\ r.op = "write" /\ r.devices = d
  BY <1>3, <1>4 DEF LinkRequest
<1>6. Says(r, cmd)
  <2>1. S = DOMAIN cmd
    OBVIOUS
  <2> QED BY <1>1, <1>3, <1>5, <2>1 DEF Says
<1>7. ASSUME NEW i \in DOMAIN cmd PROVE Carries(r, i)
  <2>1. PICK j \in 1..n : s[j] = i
    BY DEF Lists
  <2> QED BY <1>3, <1>5, <2>1 DEF Carries
<1>8. <<r>> \in Seq(LinkRequest) /\ Len(<<r>>) = 1 /\ <<r>>[1] = r
  BY <1>5
<1> DEFINE w == <<r>>
<1> HIDE DEF w
<1>9. Len(r.devices) <= Longest
  BY <1>3, <1>5
<1> QED BY <1>6, <1>7, <1>8, <1>9 DEF Covers, w

(* What write_inputs sends for a command covers it, in all three families. *)
LEMMA WritesCover ==
    ASSUME Links!LinkAssumption, family \in Families,
           NEW S \in SUBSET Links!Inputs, S # {}, NEW cmd \in [S -> BOOLEAN]
    PROVE  Covers(Links!WritesOf(cmd), cmd)
<1> DEFINE s == Links!Sorted(S)
<1>0. PICK n \in 0..InSymbols : Lists(s, S, n)
  BY SortedLists
<1>1. n \in Nat /\ DOMAIN cmd = S
  BY DEF Links!LinkAssumption
<1>2. s \in [1..n -> S] /\ n > 0
  BY <1>0, <1>1 DEF Lists
<1>3. Len(s) = n
  <2> HIDE DEF s
  <2> QED BY <1>1, <1>2, LenProperties
<1>4. ASSUME NEW j \in 1..n PROVE s[j] \in S /\ cmd[s[j]] \in BOOLEAN
  BY <1>2
<1>5. \A B \in {{}, {0}, {4}} : <<B>> \in Seq(SUBSET Nat)
  OBVIOUS
<1>6. CASE family = "fenet"
  <2> DEFINE w == [j \in 1..n |->
                     Links!Write(<<Links!FenetInput(s[j])>>, <<IF cmd[s[j]] THEN {0} ELSE {}>>)]
  <2>1. Links!WritesOf(cmd) = w
    BY <1>1, <1>3, <1>6 DEF Links!WritesOf, Links!FenetWrites
  <2>2. ASSUME NEW j \in 1..n
        PROVE  Single(w[j], s[j], cmd[s[j]])
    <3> DEFINE byte == IF cmd[s[j]] THEN {0} ELSE {}
               bytes == <<byte>>
               d == <<Links!InputOf(s[j])>>
    <3>1. byte \in SUBSET Nat
      OBVIOUS
    <3>2. bytes \in Seq(SUBSET Nat)
      <4> HIDE DEF byte
      <4> QED BY <3>1
    <3>3. w[j] = Links!Write(d, bytes)
      BY <1>6 DEF Links!InputOf
    <3>4. w[j].devices = d /\ w[j].bytes = bytes /\ Len(d) = 1
      BY <3>3 DEF Links!Write
    <3>5. Links!DecodedWrite(w[j]) = [l \in 1..1 |-> bytes[l] # {}]
      <4> HIDE DEF w, bytes, d
      <4> QED BY <1>6, <3>4 DEF Links!DecodedWrite, Links!Decoded
    <3>6. \A l \in 1..1 : (bytes[l] # {}) = cmd[s[j]]
      BY <1>4
    <3>7. Links!DecodedWrite(w[j]) = [l \in 1..1 |-> cmd[s[j]]]
      <4> HIDE DEF bytes, w
      <4> QED BY <3>5, <3>6
    <3> HIDE DEF w, bytes
    <3> QED BY <3>2, <3>3, <3>7 DEF Single
  <2>3. DOMAIN w = 1..n /\ w = [j \in 1..n |-> w[j]]
    OBVIOUS
  <2> HIDE DEF w, s
  <2>4. Covers(w, cmd)
    BY <1>0, <1>1, <2>2, <2>3, SinglesCover
  <2> QED BY <2>1, <2>4
<1>7. CASE family = "melsec"
  <2> DEFINE w == [j \in 1..n |->
                     Links!Write(<<Links!MelsecInput(s[j])>>, Links!PackNibbles(<<cmd[s[j]]>>))]
  <2>1. Links!WritesOf(cmd) = w
    BY <1>1, <1>3, <1>7 DEF Links!WritesOf, Links!MelsecWrites
  <2>2. ASSUME NEW j \in 1..n
        PROVE  Single(w[j], s[j], cmd[s[j]])
    <3> DEFINE one == <<cmd[s[j]]>>
               bytes == Links!PackNibbles(one)
               d == <<Links!InputOf(s[j])>>
    <3>1. one \in [1..1 -> BOOLEAN] /\ one = [l \in 1..1 |-> cmd[s[j]]] /\ Len(one) = 1
      BY <1>4
    <3>2. bytes \in Seq(SUBSET Nat)
      <4> DEFINE m == 1
      <4>1. m \in Nat /\ one \in [1..m -> BOOLEAN]
        BY <3>1
      <4> HIDE DEF m, one
      <4> QED BY <4>1, BytesTyped
    <3>3. w[j] = Links!Write(d, bytes)
      BY <1>7 DEF Links!InputOf
    <3>4. w[j].devices = d /\ w[j].bytes = bytes /\ Len(d) = 1
      BY <3>3 DEF Links!Write
    <3>5. Links!DecodedWrite(w[j]) = Links!UnpackNibbles(bytes, 1)
      <4> HIDE DEF w, bytes, d
      <4> QED BY <1>7, <3>4 DEF Links!DecodedWrite, Links!Decoded
    <3>6. Links!UnpackNibbles(bytes, 1) = one
      <4> HIDE DEF one
      <4> QED BY <3>1, PointKeepsBit
    <3>7. Links!DecodedWrite(w[j]) = [l \in 1..1 |-> cmd[s[j]]]
      <4> HIDE DEF bytes, w
      <4> QED BY <3>1, <3>5, <3>6
    <3> HIDE DEF w, bytes
    <3> QED BY <3>2, <3>3, <3>7 DEF Single
  <2>3. DOMAIN w = 1..n /\ w = [j \in 1..n |-> w[j]]
    OBVIOUS
  <2> HIDE DEF w, s
  <2>4. Covers(w, cmd)
    BY <1>0, <1>1, <2>2, <2>3, SinglesCover
  <2> QED BY <2>1, <2>4
<1>8. CASE family = "modbus"
  <2> DEFINE Adjacent == n > 1 /\ s[n] - s[1] = n - 1
  <2>1. Links!WritesOf(cmd) =
          IF Adjacent
          THEN <<Links!Write(Links!Span(Links!ModbusInput(s[1]), n),
                             Links!PackBits([j \in 1..n |-> cmd[s[j]]]))>>
          ELSE [j \in 1..n |->
                  Links!Write(<<Links!ModbusInput(s[j])>>, Links!PackBits(<<cmd[s[j]]>>))]
    BY <1>1, <1>3, <1>8 DEF Links!WritesOf, Links!ModbusWrites
  <2>2. \A m \in Nat : \A vals \in [1..m -> BOOLEAN] :
           Links!PackBits(vals) \in Seq(SUBSET Nat)
    BY BytesTyped
  <2>3. CASE Adjacent
    <3> DEFINE vals == [j \in 1..n |-> cmd[s[j]]]
               d == Links!Span(Links!ModbusInput(s[1]), n)
               bytes == Links!PackBits(vals)
               r == Links!Write(d, bytes)
    <3>1. vals \in [1..n -> BOOLEAN]
      BY <1>4
    <3>2. bytes \in Seq(SUBSET Nat)
      <4> HIDE DEF vals
      <4> QED BY <1>1, <2>2, <3>1
    <3>3. ASSUME NEW j \in 1..n PROVE d[j] = Links!InputOf(s[j])
      <4>1. s[j] = s[1] + (j - 1)
        <5> HIDE DEF s
        <5> QED BY <1>0, <1>2, <2>3, NoGaps
      <4>2. s[1] \in Int
        <5>1. S \subseteq Int
          BY DEF Links!Inputs, Links!LinkAssumption
        <5>2. s[1] \in S
          <6> HIDE DEF s
          <6> QED BY <1>1, <1>2
        <5> QED BY <5>1, <5>2
      <4>3. (s[1] - 1) + j - 1 = s[j] - 1
        <5> HIDE DEF s
        <5> QED BY <4>1, <4>2
      <4>4. d[j] = [area |-> "coil", at |-> (s[1] - 1) + j - 1]
        <5> HIDE DEF s
        <5> QED BY DEF Links!Span, Links!ModbusInput
      <4> HIDE DEF s, d
      <4> QED BY <1>8, <4>3, <4>4 DEF Links!InputOf, Links!ModbusInput
    <3>4. d \in [1..n -> Device]
      <4>1. \A j \in 1..n : d[j] \in Device
        <5> HIDE DEF d, s
        <5> QED BY <1>2, <3>3, DevicesDiffer
      <4>2. d = [j \in 1..n |-> d[j]]
        BY DEF Links!Span
      <4> HIDE DEF d
      <4> QED BY <4>1, <4>2
    <3>5. r.devices = d /\ r.bytes = bytes
      BY DEF Links!Write
    <3>6. Len(d) = n
      <4> HIDE DEF d
      <4> QED BY <1>1, <3>4, LenProperties
    <3>7. Links!DecodedWrite(r) = Links!UnpackBits(bytes, n)
      <4> HIDE DEF d, bytes, r
      <4> QED BY <1>8, <3>5, <3>6 DEF Links!DecodedWrite, Links!Decoded
    <3>8. Links!DecodedWrite(r) = vals
      <4> HIDE DEF vals, r
      <4> QED BY <1>1, <3>1, <3>7, BytesKeepBits
    <3>9. DOMAIN Links!DecodedWrite(r) = 1..n
      <4> HIDE DEF r
      <4> QED BY <3>8
    <3>10. \A j \in 1..n : Links!DecodedWrite(r)[j] = cmd[s[j]]
      <4> HIDE DEF r
      <4> QED BY <3>8
    <3>11. r = Links!Write(d, bytes) /\ Links!WritesOf(cmd) = <<r>>
      BY <2>1, <2>3
    <3>12. n <= Longest
      BY <1>0, <1>8 DEF Longest, Links!LinkAssumption
    <3> HIDE DEF r, d, bytes, s
    <3> QED BY <1>0, <1>1, <3>2, <3>3, <3>4, <3>9, <3>10, <3>11, <3>12, SpanCovers
  <2>4. CASE ~Adjacent
    <3> DEFINE w == [j \in 1..n |->
                  Links!Write(<<Links!ModbusInput(s[j])>>, Links!PackBits(<<cmd[s[j]]>>))]
    <3>1. Links!WritesOf(cmd) = w
      BY <2>1, <2>4
    <3>2. ASSUME NEW j \in 1..n
          PROVE  Single(w[j], s[j], cmd[s[j]])
      <4> DEFINE one == <<cmd[s[j]]>>
                 bytes == Links!PackBits(one)
                 d == <<Links!InputOf(s[j])>>
                 m == 1
      <4>1. one \in [1..m -> BOOLEAN] /\ one = [l \in 1..1 |-> cmd[s[j]]] /\ m \in Nat
        BY <1>4
      <4>2. bytes \in Seq(SUBSET Nat) /\ Links!UnpackBits(bytes, m) = one
        <5> HIDE DEF one, m
        <5> QED BY <2>2, <4>1, BytesKeepBits
      <4>3. w[j] = Links!Write(d, bytes)
        BY <1>8 DEF Links!InputOf
      <4>4. w[j].devices = d /\ w[j].bytes = bytes /\ Len(d) = m
        BY <4>3 DEF Links!Write
      <4>5. Links!DecodedWrite(w[j]) = Links!UnpackBits(bytes, m)
        <5> HIDE DEF w, bytes, d, m
        <5> QED BY <1>8, <4>4 DEF Links!DecodedWrite, Links!Decoded
      <4>6. Links!DecodedWrite(w[j]) = [l \in 1..1 |-> cmd[s[j]]]
        <5> HIDE DEF bytes, w
        <5> QED BY <4>1, <4>2, <4>5
      <4> HIDE DEF w, bytes
      <4> QED BY <4>2, <4>3, <4>6 DEF Single
    <3>3. DOMAIN w = 1..n /\ w = [j \in 1..n |-> w[j]]
      OBVIOUS
    <3> HIDE DEF w, s
    <3>4. Covers(w, cmd)
      BY <1>0, <1>1, <3>2, <3>3, SinglesCover
    <3> QED BY <3>1, <3>4
  <2> QED BY <2>3, <2>4
<1>9. family \in {"modbus", "fenet", "melsec"}
  BY DEF Links!LinkAssumption
<1> QED BY <1>6, <1>7, <1>8, <1>9

----------------------------------------------------------------------------
(* The variables of a link keep their types, a call has requests left      *)
(* exactly while it runs, and the request of the transaction that runs is  *)
(* the last on the connection.                                             *)
LinkReply == [ok : BOOLEAN, bytes : Seq(SUBSET Nat)]

CallInv ==
    /\ family \in Families /\ call \in {"idle", "write", "read"}
    /\ todo \in Seq(LinkRequest) /\ sent \in Seq(LinkRequest) /\ replies \in Seq(LinkReply)
    /\ asked \in BOOLEAN
    /\ asked => todo # <<>> /\ Len(sent) + Len(replies) > 0
    /\ asked /\ sent # <<>> => sent[Len(sent)] = todo[1]
    /\ DOMAIN written \subseteq Links!Inputs /\ written \in [DOMAIN written -> BOOLEAN]
    /\ DOMAIN values \subseteq Links!Inputs /\ values \in [DOMAIN values -> BOOLEAN]
    /\ call = "idle" <=> todo = <<>>
    /\ call # "write" => DOMAIN values = {}
    /\ call = "read" => \A m \in 1..Len(todo) : todo[m].op = "read"

ToCome == {todo[m] : m \in 1..Len(todo)}
Pending == {sent[m] : m \in 1..Len(sent)}

(* The answer of the running transaction is there. *)
Done == asked /\ sent = <<>> /\ Len(replies) = 1 /\ replies[1].ok

(* No output shares the device of input i; the device is as v says; no     *)
(* write on the connection carries it.                                     *)
Apart(i) == \A o \in Links!Outputs : Links!InputOf(i) # Links!OutputOf(o)
Holds(i, v) == (Links!InputOf(i) \in on) = v
Undisturbed(i) == \A r \in Pending : r.op = "write" => ~Carries(r, i)

(* While the answers of a link are those to its requests, the inputs of    *)
(* the command that is being written are at their devices, but those that  *)
(* a request not yet answered carries; all others are as they were         *)
(* written, and no late request can change them.                           *)
CommandInv ==
    Links!InStep =>
        /\ \A i \in DOMAIN written \ DOMAIN values :
              Apart(i) => Holds(i, written[i]) /\ Undisturbed(i)
        /\ call = "write" =>
              /\ \A r \in ToCome : Says(r, values)
              /\ \A i \in DOMAIN values :
                    Apart(i) => \/ \E r \in ToCome : Carries(r, i)
                                \/ Holds(i, values[i]) /\ Undisturbed(i)
              /\ Done => \A i \in DOMAIN values :
                            Apart(i) /\ Carries(todo[1], i) => Holds(i, values[i])

(* The family of a client is fixed, and with it every device, request and  *)
(* decoding.                                                               *)
LEMMA FamilyStays ==
    ASSUME family' = family, kind' = kind
    PROVE  /\ \A i : Links!InputOf(i)' = Links!InputOf(i)
           /\ \A o : Links!OutputOf(o)' = Links!OutputOf(o)
           /\ \A r : Links!DecodedWrite(r)' = Links!DecodedWrite(r)
           /\ \A b, n : Links!Decoded(b, n)' = Links!Decoded(b, n)
           /\ \A d : Links!ImageOf(d)' = Links!ImageOf(d)
           /\ \A i : Apart(i)' = Apart(i)
           /\ Links!ReadsOf' = Links!ReadsOf
<1>1. \A i : Links!InputOf(i)' = Links!InputOf(i)
  BY DEF Links!InputOf
<1>2. \A o : Links!OutputOf(o)' = Links!OutputOf(o)
  BY DEF Links!OutputOf, Links!ModbusOutput
<1>3. \A b, n : Links!Decoded(b, n)' = Links!Decoded(b, n)
  BY DEF Links!Decoded
<1>4. \A r : Links!DecodedWrite(r)' = Links!DecodedWrite(r)
  BY <1>3 DEF Links!DecodedWrite, Links!Decoded
<1>5. Links!ReadsOf' = Links!ReadsOf
  BY DEF Links!ReadsOf, Links!ModbusReads, Links!ModbusOutput
<1>6. \A d : Links!ImageOf(d)' = Links!ImageOf(d)
  BY <1>2 DEF Links!ImageOf
<1>7. \A i : Apart(i)' = Apart(i)
  BY <1>1, <1>2 DEF Apart
<1> QED BY <1>1, <1>2, <1>3, <1>4, <1>5, <1>6, <1>7

(* A device decodes one bit for each device of a request. *)
LEMMA OneBitEach ==
    ASSUME Links!LinkAssumption, family \in Families, NEW r \in LinkRequest
    PROVE  DOMAIN Links!DecodedWrite(r) = DOMAIN r.devices
<1>1. r.devices \in Seq(Device) /\ DOMAIN r.devices = 1..Len(r.devices)
  BY DEF LinkRequest
<1> DEFINE n == Len(r.devices)
           b == r.bytes
<1>2. /\ DOMAIN Links!UnpackBits(b, n) = 1..n
      /\ DOMAIN Links!UnpackNibbles(b, n) = 1..n
      /\ DOMAIN [j \in 1..n |-> b[j] # {}] = 1..n
  BY DEF Links!UnpackBits, Links!UnpackNibbles
<1>3. family \in {"modbus", "fenet", "melsec"}
  BY DEF Links!LinkAssumption
<1>4. DOMAIN Links!Decoded(b, n) = 1..n
  <2> HIDE DEF b, n
  <2> QED BY <1>2, <1>3 DEF Links!Decoded
<1> QED BY <1>1, <1>4 DEF Links!DecodedWrite

(* A write leaves the inputs it does not carry as they are. *)
LEMMA WriteLeaves ==
    ASSUME Links!LinkAssumption, family \in Families, NEW r \in LinkRequest, NEW i,
           ~Carries(r, i)
    PROVE  (Links!InputOf(i) \in Links!WriteDevices(r)) = (Links!InputOf(i) \in on)
<1> DEFINE d == Links!InputOf(i)
           bs == Links!DecodedWrite(r)
           At(v) == {r.devices[j] : j \in {l \in DOMAIN bs : bs[l] = v}}
<1>1. Links!WriteDevices(r) = (on \ At(FALSE)) \cup At(TRUE)
  BY DEF Links!WriteDevices
<1>2. DOMAIN bs = DOMAIN r.devices
  BY OneBitEach
<1>3. \A v : d \notin At(v)
  BY <1>2 DEF Carries
<1>4. d \in Links!WriteDevices(r) <=> d \in on
  <2> HIDE DEF At, d
  <2> QED BY <1>1, <1>3
<1> QED BY <1>4

(* A write sets the inputs it carries to what the command says.            *)
LEMMA WriteEffect ==
    ASSUME Links!LinkAssumption, family \in Families, NEW cmd, DOMAIN cmd \subseteq Links!Inputs,
           cmd \in [DOMAIN cmd -> BOOLEAN], NEW r, Says(r, cmd), NEW i \in Links!Inputs
    PROVE  Carries(r, i) =>
               /\ i \in DOMAIN cmd
               /\ (Links!InputOf(i) \in Links!WriteDevices(r)) = cmd[i]
<1> DEFINE d == Links!InputOf(i)
           bs == Links!DecodedWrite(r)
           At(v) == {r.devices[j] : j \in {l \in DOMAIN bs : bs[l] = v}}
<1>1. Links!WriteDevices(r) = (on \ At(FALSE)) \cup At(TRUE)
  BY DEF Links!WriteDevices
<1>2. DOMAIN bs = DOMAIN r.devices
  BY DEF Says
<1>3. ASSUME NEW j \in DOMAIN r.devices, r.devices[j] = d
      PROVE  i \in DOMAIN cmd /\ bs[j] = cmd[i]
  <2>1. PICK l \in DOMAIN cmd : r.devices[j] = Links!InputOf(l) /\ bs[j] = cmd[l]
    BY DEF Says
  <2>2. l = i
    BY <1>3, <2>1, DevicesDiffer
  <2> QED BY <2>1, <2>2
<1> SUFFICES ASSUME Carries(r, i)
             PROVE  i \in DOMAIN cmd /\ (d \in Links!WriteDevices(r)) = cmd[i]
  OBVIOUS
<1>4. PICK j \in DOMAIN r.devices : r.devices[j] = d
  BY DEF Carries
<1>5. i \in DOMAIN cmd /\ bs[j] = cmd[i] /\ cmd[i] \in BOOLEAN
  BY <1>3, <1>4
<1>6. CASE cmd[i] = TRUE
  <2>1. d \in At(TRUE)
    BY <1>2, <1>4, <1>5, <1>6
  <2> QED BY <1>1, <1>5, <1>6, <2>1
<1>7. CASE cmd[i] = FALSE
  <2>1. d \in At(FALSE)
    BY <1>2, <1>4, <1>5, <1>7
  <2>2. d \notin At(TRUE)
    BY <1>2, <1>3, <1>7
  <2> QED BY <1>1, <1>5, <1>7, <2>1, <2>2
<1> QED BY <1>5, <1>6, <1>7

(* A step of the scan moves outputs only. *)
LEMMA ScanEffect ==
    ASSUME Links!PlcScan, NEW i, Apart(i)
    PROVE  (Links!InputOf(i) \in on') = (Links!InputOf(i) \in on)
<1> DEFINE d == Links!InputOf(i)
           outs == {Links!OutputOf(o) : o \in Links!Outputs}
<1>1. PICK now \in SUBSET Links!Outputs :
         on' = (on \ outs) \cup {Links!OutputOf(o) : o \in now}
  BY DEF Links!PlcScan
<1>2. d \notin outs
  BY DEF Apart
<1>3. {Links!OutputOf(o) : o \in now} \subseteq outs
  OBVIOUS
<1>4. d \in on' <=> d \in on
  <2> HIDE DEF d, outs
  <2> QED BY <1>1, <1>2, <1>3
<1> QED BY <1>4

(* What write_inputs sends is a command for some of the inputs. *)
LEMMA CommandsAre ==
    ASSUME Links!LinkAssumption, NEW cmd \in Commands, Links!Unmapped \notin DOMAIN cmd
    PROVE  DOMAIN cmd \subseteq Links!Inputs /\ cmd \in [DOMAIN cmd -> BOOLEAN]
<1>1. InSymbols \in Nat /\ DOMAIN cmd \subseteq 1..InSymbols + 1
  BY DEF Links!LinkAssumption
<1>2. InSymbols + 1 \notin DOMAIN cmd
  BY DEF Links!Unmapped
<1>3. DOMAIN cmd \subseteq 1..InSymbols
  BY <1>1, <1>2
<1> QED BY <1>3 DEF Links!LinkAssumption, Links!Inputs

(* A read of the link for the devices d.                                   *)
Asks(r, d) == r \in LinkRequest /\ r.op = "read" /\ r.devices = d

(* One request of FEnet and Modbus names all outputs; MELSEC sends one     *)
(* request per output, in order.                                           *)
LEMMA ReadsAsk ==
    ASSUME Links!LinkAssumption, family \in Families
    PROVE  /\ Links!ReadsOf \in Seq(LinkRequest) /\ Len(Links!ReadsOf) > 0
           /\ \A m \in 1..Len(Links!ReadsOf) : Links!ReadsOf[m].op = "read"
           /\ family # "melsec" =>
                 \E r : Links!ReadsOf = <<r>> /\ Asks(r, [o \in Links!Outputs |-> Links!OutputOf(o)])
           /\ family = "melsec" =>
                 /\ Len(Links!ReadsOf) = OutSymbols
                 /\ \A o \in Links!Outputs : Asks(Links!ReadsOf[o], <<Links!OutputOf(o)>>)
<1>0. OutSymbols \in Nat \ {0}
  BY DEF Links!LinkAssumption
<1> DEFINE d == [o \in Links!Outputs |-> Links!OutputOf(o)]
           all == Links!Read(d)
<1>1. d \in [1..OutSymbols -> Device]
  BY DevicesDiffer DEF Links!Outputs
<1>2. d \in Seq(Device)
  <2> HIDE DEF d
  <2> QED BY <1>0, <1>1, SeqDef
<1>3. all = [op |-> "read", devices |-> d, bytes |-> <<>>] /\ <<>> \in Seq(SUBSET Nat)
  BY DEF Links!Read
<1>4. Asks(all, d)
  <2> HIDE DEF d, all
  <2> QED BY <1>2, <1>3 DEF Asks, LinkRequest
<1>5. CASE family = "fenet"
  <2>1. Links!ReadsOf = <<all>>
    BY <1>5 DEF Links!ReadsOf, Links!FenetReads, Links!OutputOf
  <2>2. all \in LinkRequest /\ all.op = "read"
    BY <1>4 DEF Asks
  <2> HIDE DEF all, d
  <2> QED BY <1>4, <1>5, <2>1, <2>2 DEF d
<1>6. CASE family = "modbus"
  <2>1. Links!Span(Links!ModbusOutput(1), OutSymbols) = d
    <3>1. \A j \in 1..OutSymbols :
            [Links!ModbusOutput(1) EXCEPT !.at = @ + j - 1] = Links!ModbusOutput(j)
      BY <1>0 DEF Links!ModbusOutput
    <3> QED BY <1>6, <3>1 DEF Links!Span, Links!OutputOf, Links!Outputs
  <2>2. Links!ReadsOf = <<all>>
    BY <1>6, <2>1 DEF Links!ReadsOf, Links!ModbusReads
  <2>3. all \in LinkRequest /\ all.op = "read"
    BY <1>4 DEF Asks
  <2> HIDE DEF all, d
  <2> QED BY <1>4, <1>6, <2>2, <2>3 DEF d
<1>7. CASE family = "melsec"
  <2> DEFINE w == [o \in Links!Outputs |-> Links!Read(<<Links!MelsecOutput(o)>>)]
  <2>1. Links!ReadsOf = w
    BY <1>7 DEF Links!ReadsOf, Links!MelsecReads
  <2>2. ASSUME NEW o \in Links!Outputs PROVE Asks(w[o], <<Links!OutputOf(o)>>)
    <3> DEFINE one == <<Links!OutputOf(o)>>
    <3>1. one \in Seq(Device)
      BY DevicesDiffer
    <3>2. w[o] = [op |-> "read", devices |-> one, bytes |-> <<>>]
      BY <1>7 DEF Links!OutputOf, Links!Read
    <3> HIDE DEF w, one
    <3>3. Asks(w[o], one)
      BY <1>3, <3>1, <3>2 DEF Asks, LinkRequest
    <3> QED BY <3>3 DEF one
  <2> HIDE DEF w
  <2>3. w \in [1..OutSymbols -> LinkRequest]
    BY <2>2 DEF w, Asks, Links!Outputs
  <2>4. w \in Seq(LinkRequest) /\ Len(w) = OutSymbols
    BY <1>0, <2>3, SeqDef, LenProperties
  <2>5. \A m \in 1..Len(w) : w[m].op = "read"
    BY <2>2, <2>4 DEF Asks, Links!Outputs
  <2> QED BY <1>0, <1>7, <2>1, <2>2, <2>4, <2>5
<1>8. family \in {"modbus", "fenet", "melsec"}
  BY DEF Links!LinkAssumption
<1> QED BY <1>5, <1>6, <1>7, <1>8

(* The data of an answer is bytes. *)
LEMMA AnswerTyped ==
    ASSUME Links!LinkAssumption, family \in Families, NEW r \in LinkRequest
    PROVE  Links!ReadBytes(r) \in Seq(SUBSET Nat)
<1> DEFINE n == Len(r.devices)
           asBits == [j \in DOMAIN r.devices |-> r.devices[j] \in on]
<1>1. n \in Nat /\ DOMAIN r.devices = 1..n
  BY DEF LinkRequest
<1>2. asBits \in [1..n -> BOOLEAN]
  BY <1>1
<1>3. family \in {"modbus", "fenet", "melsec"}
  BY DEF Links!LinkAssumption
<1> HIDE DEF n, asBits
<1>4. Links!PackBits(asBits) \in Seq(SUBSET Nat) /\ Links!PackNibbles(asBits) \in Seq(SUBSET Nat)
  BY <1>1, <1>2, BytesTyped
<1>5. [j \in DOMAIN asBits |-> IF asBits[j] THEN {0} ELSE {}] \in Seq(SUBSET Nat)
  <2> DEFINE f == [j \in DOMAIN asBits |-> IF asBits[j] THEN {0} ELSE {}]
  <2>1. f \in [1..n -> SUBSET Nat]
    BY <1>2
  <2> HIDE DEF f
  <2> QED BY <1>1, <2>1, SeqDef
<1>6. Links!Encoded(asBits) \in Seq(SUBSET Nat)
  BY <1>3, <1>4, <1>5 DEF Links!Encoded
<1> QED BY <1>6 DEF Links!ReadBytes, asBits

(* What a step of the device does to the connection. *)
LEMMA ServeIs ==
    ASSUME Links!LinkAssumption, CallInv, Links!Serve
    PROVE  /\ UNCHANGED <<asked, call, todo, values, got, result, written>>
           /\ Len(sent) \in Nat \ {0} /\ sent' \in Seq(LinkRequest) /\ Len(sent') = Len(sent) - 1
           /\ \A m \in 1..Len(sent') : sent'[m] = sent[m + 1]
           /\ Len(replies) \in Nat /\ replies' \in Seq(LinkReply) /\ Len(replies') = Len(replies) + 1
           /\ sent[1] \in LinkRequest /\ sent[1] \in Pending /\ Pending' \subseteq Pending
           /\ \/ on' = on /\ ~replies'[Len(replies')].ok
              \/ /\ on' = IF sent[1].op = "write" THEN Links!WriteDevices(sent[1]) ELSE on
                 /\ sent[1].op = "read" =>
                        replies'[Len(replies')].bytes = Links!ReadBytes(sent[1])
<1> DEFINE r == Head(sent)
           data == IF r.op = "read" THEN Links!ReadBytes(r) ELSE <<>>
           good == [ok |-> TRUE, bytes |-> data]
           bad == [ok |-> FALSE, bytes |-> <<>>]
<1>1. /\ UNCHANGED <<asked, call, todo, values, got, result, written>>
      /\ sent # <<>> /\ sent' = Tail(sent)
      /\ \/ /\ on' = IF r.op = "write" THEN Links!WriteDevices(r) ELSE on
            /\ replies' = Append(replies, good)
         \/ on' = on /\ replies' = Append(replies, bad)
  BY DEF Links!Serve, Links!calling
<1>2. /\ Len(sent) \in Nat \ {0} /\ sent' \in Seq(LinkRequest) /\ Len(sent') = Len(sent) - 1
      /\ \A m \in 1..Len(sent') : sent'[m] = sent[m + 1]
      /\ r = sent[1] /\ r \in LinkRequest
  BY <1>1 DEF CallInv
<1>3. r \in Pending
  BY <1>2 DEF Pending
<1>4. Pending' \subseteq Pending
  <2> SUFFICES ASSUME NEW m \in 1..Len(sent') PROVE sent'[m] \in Pending
    BY DEF Pending
  <2>1. m + 1 \in 1..Len(sent) /\ sent'[m] = sent[m + 1]
    BY <1>2
  <2> QED BY <2>1 DEF Pending
<1>5. data \in Seq(SUBSET Nat)
  <2>1. Links!ReadBytes(r) \in Seq(SUBSET Nat)
    BY <1>2, AnswerTyped DEF CallInv
  <2> QED BY <2>1
<1>6. good \in LinkReply /\ bad \in LinkReply /\ good.bytes = data /\ ~bad.ok
  <2> HIDE DEF data
  <2> QED BY <1>5 DEF LinkReply
<1> HIDE DEF good, bad, r
<1>7. replies \in Seq(LinkReply) /\ Len(replies) \in Nat
  BY DEF CallInv
<1>8. CASE replies' = Append(replies, good) /\ on' = IF r.op = "write" THEN Links!WriteDevices(r) ELSE on
  <2>1. replies' \in Seq(LinkReply) /\ Len(replies') = Len(replies) + 1 /\ replies'[Len(replies')] = good
    BY <1>6, <1>7, <1>8
  <2> QED BY <1>1, <1>2, <1>3, <1>4, <1>6, <1>7, <1>8, <2>1
<1>9. CASE replies' = Append(replies, bad) /\ on' = on
  <2>1. replies' \in Seq(LinkReply) /\ Len(replies') = Len(replies) + 1 /\ replies'[Len(replies')] = bad
    BY <1>6, <1>7, <1>9
  <2> QED BY <1>1, <1>2, <1>3, <1>4, <1>6, <1>7, <1>9, <2>1
<1> QED BY <1>1, <1>8, <1>9

(* What is left over on a connection never comes off it again. *)
LEMMA LateStays ==
    ASSUME CallInv, [Links!Next]_links
    PROVE  Links!InStep' => Links!InStep
<1> USE DEF CallInv
<1>1. /\ Len(sent) \in Nat /\ Len(replies) \in Nat /\ asked \in BOOLEAN
      /\ asked => Len(sent) + Len(replies) > 0
  OBVIOUS
<1>2. Links!Late \in Nat
  BY <1>1 DEF Links!Late
<1>3. Links!Late' >= Links!Late
  <2>1. CASE UNCHANGED <<sent, replies, asked>>
    BY <1>2, <2>1 DEF Links!Late
  <2>2. CASE Links!Send
    <3>1. ~asked /\ asked' /\ replies' = replies /\ todo # <<>> /\ sent' = Append(sent, Head(todo))
      BY <2>2 DEF Links!Send
    <3>2. Len(sent') = Len(sent) + 1
      BY <3>1
    <3> QED BY <1>1, <3>1, <3>2 DEF Links!Late
  <2>3. CASE Links!Serve
    <3>1. asked' = asked /\ sent # <<>> /\ sent' = Tail(sent)
          /\ \E x : replies' = Append(replies, x)
      BY <2>3 DEF Links!Serve
    <3>2. Len(sent') = Len(sent) - 1 /\ Len(replies') = Len(replies) + 1
      BY <3>1
    <3> QED BY <1>1, <3>1, <3>2 DEF Links!Late
  <2>4. CASE Links!TakeReply \/ Links!Refused
    <3>1. asked /\ ~asked' /\ sent' = sent /\ replies # <<>> /\ replies' = Tail(replies)
      BY <2>4 DEF Links!TakeReply, Links!Refused, Links!HasAnswer
    <3>2. Len(replies') = Len(replies) - 1
      BY <3>1
    <3> QED BY <1>1, <3>1, <3>2 DEF Links!Late
  <2>5. CASE Links!LinkFails
    <3>1. ~asked' /\ sent' = sent /\ replies' = replies
      BY <2>5 DEF Links!LinkFails
    <3> QED BY <1>1, <3>1 DEF Links!Late
  <2> QED BY <2>1, <2>2, <2>3, <2>4, <2>5
          DEF links, Links!Next, Links!WriteInputs, Links!ReadOutputs, Links!PlcScan, Links!line
<1>4. family' = family
  BY DEF links, Links!Next
<1> QED BY <1>2, <1>3, <1>4 DEF Links!InStep

(* The answer a link in step takes is that to its own request. *)
LEMMA AnswerIsOwn ==
    ASSUME CallInv, Links!InStep, Links!HasAnswer
    PROVE  sent = <<>> /\ Len(replies) = 1 /\ replies[1] = Head(replies)
<1>1. /\ sent \in Seq(LinkRequest) /\ replies \in Seq(LinkReply) /\ replies # <<>> /\ asked
      /\ Len(sent) \in Nat /\ Len(replies) \in Nat \ {0}
  BY DEF CallInv, Links!HasAnswer
<1>2. Len(replies) + Len(sent) = 1
  BY <1>1 DEF Links!HasAnswer, Links!InStep, Links!Late
<1>3. Len(sent) = 0 /\ Len(replies) = 1
  <2>1. \A a \in Nat, b \in Nat \ {0} : b + a = 1 => a = 0 /\ b = 1
    OBVIOUS
  <2>2. Len(sent) \in Nat /\ Len(replies) \in Nat \ {0}
    BY <1>1
  <2> QED BY <1>2, <2>1, <2>2
<1>4. sent = <<>>
  BY <1>1, <1>3
<1>5. replies[1] = Head(replies)
  BY <1>1
<1> QED BY <1>3, <1>4, <1>5

(* Whatever a link does, it keeps CallInv. *)
LEMMA CallStep ==
    ASSUME Links!LinkAssumption, CallInv, [Links!Next]_links
    PROVE  CallInv'
<1> USE DEF CallInv
<1>1. CASE UNCHANGED links
  BY <1>1 DEF links
<1>2. ASSUME NEW cmd \in Commands, Links!WriteInputs(cmd), UNCHANGED family
      PROVE  CallInv'
  <2>0. UNCHANGED <<sent, replies, asked, written>> /\ ~asked
    BY <1>2 DEF Links!WriteInputs, Links!line
  <2>1. CASE UNCHANGED <<call, values, todo>>
    BY <1>2, <2>0, <2>1
  <2>2. CASE /\ ~(DOMAIN cmd = {} \/ Links!Unmapped \in DOMAIN cmd)
             /\ call' = "write" /\ values' = cmd /\ todo' = Links!WritesOf(cmd)
    <3>1. DOMAIN cmd \subseteq Links!Inputs /\ cmd \in [DOMAIN cmd -> BOOLEAN]
      BY <2>2, CommandsAre
    <3>2. Covers(Links!WritesOf(cmd), cmd)
      BY <2>2, <3>1, WritesCover
    <3>4. todo' \in Seq(LinkRequest) /\ todo' # <<>>
      BY <2>2, <3>2 DEF Covers
    <3> QED BY <1>2, <2>0, <2>2, <3>1, <3>4
  <2> QED BY <1>2, <2>1, <2>2 DEF Links!WriteInputs
<1>3. ASSUME Links!ReadOutputs, UNCHANGED family PROVE CallInv'
  <2>0. UNCHANGED <<sent, replies, asked, written, values>> /\ ~asked
    BY <1>3 DEF Links!ReadOutputs, Links!line
  <2>1. Links!ReadsOf \in Seq(LinkRequest) /\ Links!ReadsOf # <<>>
        /\ \A m \in 1..Len(Links!ReadsOf) : Links!ReadsOf[m].op = "read"
    BY ReadsAsk
  <2> QED BY <1>3, <2>0, <2>1 DEF Links!ReadOutputs
<1>4. ASSUME Links!Send, UNCHANGED family PROVE CallInv'
  <2>1. /\ UNCHANGED <<replies, call, todo, values, written>> /\ asked' = TRUE
        /\ todo # <<>> /\ sent' = Append(sent, Head(todo))
    BY <1>4 DEF Links!Send, Links!calling
  <2>2. Head(todo) \in LinkRequest /\ Head(todo) = todo[1]
    BY <2>1
  <2>3. sent' \in Seq(LinkRequest) /\ Len(sent') = Len(sent) + 1 /\ sent'[Len(sent')] = todo[1]
    BY <2>1, <2>2
  <2>4. Len(sent') + Len(replies') > 0
    BY <2>1, <2>3
  <2> QED BY <1>4, <2>1, <2>3, <2>4
<1>5. ASSUME Links!Serve, UNCHANGED family PROVE CallInv'
  <2>1. /\ UNCHANGED <<asked, call, todo, values, got, result, written>>
        /\ Len(sent) \in Nat \ {0} /\ sent' \in Seq(LinkRequest) /\ Len(sent') = Len(sent) - 1
        /\ \A m \in 1..Len(sent') : sent'[m] = sent[m + 1]
        /\ Len(replies) \in Nat /\ replies' \in Seq(LinkReply) /\ Len(replies') = Len(replies) + 1
    BY <1>5, ServeIs
  <2>2. asked /\ sent' # <<>> => sent'[Len(sent')] = todo[1]
    <3> SUFFICES ASSUME asked, sent' # <<>> PROVE sent'[Len(sent')] = todo[1]
      OBVIOUS
    <3>1. Len(sent') \in 1..Len(sent') /\ Len(sent') + 1 = Len(sent)
      BY <2>1
    <3>2. sent[Len(sent)] = todo[1]
      BY <2>1
    <3> QED BY <2>1, <3>1, <3>2
  <2> QED BY <1>5, <2>1, <2>2
<1>6. ASSUME Links!TakeReply, UNCHANGED family PROVE CallInv'
  <2>1. /\ todo # <<>> /\ todo' = Tail(todo) /\ asked' = FALSE /\ sent' = sent
        /\ replies # <<>> /\ replies' = Tail(replies)
    BY <1>6 DEF Links!TakeReply, Links!HasAnswer
  <2>6. \/ Len(todo) # 1 /\ call' = call /\ written' = written /\ values' = values
        \/ Len(todo) = 1 /\ call = "read" /\ Links!Return("read", written)
        \/ Len(todo) = 1 /\ call = "write" /\ Links!Return("ok", Links!Updated)
    BY <1>6 DEF Links!TakeReply
  <2>2. /\ todo' \in Seq(LinkRequest) /\ Len(todo) \in Nat \ {0} /\ Len(todo') = Len(todo) - 1
        /\ \A m \in 1..Len(todo') : todo'[m] = todo[m + 1]
        /\ replies' \in Seq(LinkReply)
    BY <2>1
  <2>3. call \in {"read", "write"}
    BY <2>1, <2>6
  <2>4. CASE Len(todo) # 1
    <3>1. call' = call /\ written' = written /\ values' = values
      BY ONLY <2>4, <2>6
    <3>2. todo' # <<>>
      BY <2>2, <2>4
    <3>3. ASSUME call = "read", NEW m \in 1..Len(todo') PROVE todo'[m].op = "read"
      <4>1. m + 1 \in 1..Len(todo) /\ todo'[m] = todo[m + 1]
        BY <2>2
      <4> QED BY <3>3, <4>1
    <3> QED BY <1>6, <2>1, <2>2, <2>3, <3>1, <3>2, <3>3
  <2>5. CASE Len(todo) = 1
    <3>1. todo' = <<>>
      BY <2>2, <2>5
    <3>2. call' = "idle" /\ values' = <<>> /\ written' \in {written, Links!Updated}
      BY <2>3, <2>5, <2>6, <3>1 DEF Links!Return
    <3>3. /\ DOMAIN Links!Updated = DOMAIN values \cup DOMAIN written
          /\ Links!Updated \in [DOMAIN values \cup DOMAIN written -> BOOLEAN]
      BY DEF Links!Updated
    <3>4. DOMAIN written' \subseteq Links!Inputs /\ written' \in [DOMAIN written' -> BOOLEAN]
      BY <3>2, <3>3
    <3>5. DOMAIN values' = {} /\ values' \in [{} -> BOOLEAN]
      BY <3>2
    <3> QED BY <1>6, <2>1, <2>2, <3>1, <3>2, <3>4, <3>5
  <2> QED BY <2>2, <2>4, <2>5
<1>7. ASSUME Links!Refused \/ Links!LinkFails, UNCHANGED family PROVE CallInv'
  <2> DEFINE kept == [i \in DOMAIN written \ DOMAIN values |-> written[i]]
  <2>1. /\ todo' = <<>> /\ call' = "idle" /\ values' = <<>> /\ written' = kept
        /\ asked' = FALSE /\ sent' = sent
    BY <1>7 DEF Links!Refused, Links!LinkFails, Links!Fail, Links!Return
  <2>2. replies' \in Seq(LinkReply)
    <3>1. replies' = replies \/ (replies # <<>> /\ replies' = Tail(replies))
      BY <1>7 DEF Links!Refused, Links!LinkFails, Links!HasAnswer
    <3>2. replies \in Seq(LinkReply)
      OBVIOUS
    <3> QED BY ONLY <3>1, <3>2
  <2>3. DOMAIN kept \subseteq Links!Inputs /\ kept \in [DOMAIN kept -> BOOLEAN]
    OBVIOUS
  <2>4. DOMAIN values' = {} /\ values' \in [{} -> BOOLEAN] /\ todo' \in Seq(LinkRequest)
    BY <2>1
  <2> HIDE DEF kept
  <2> QED BY <1>7, <2>1, <2>2, <2>3, <2>4
<1>8. ASSUME Links!PlcScan, UNCHANGED family PROVE CallInv'
  BY <1>8 DEF Links!PlcScan, Links!line, Links!calling
<1> QED BY <1>1, <1>2, <1>3, <1>4, <1>5, <1>6, <1>7, <1>8 DEF Links!Next

(* Nor does it ever misplace an input. *)
LEMMA CommandStep ==
    ASSUME Links!LinkAssumption, CallInv, CommandInv, [Links!Next]_links
    PROVE  CommandInv'
<1> USE DEF CallInv
<1> DEFINE At(i) == Links!InputOf(i)
<1>0. family' = family /\ kind' = kind
  BY DEF links, Links!Next
<1>00. /\ \A i : At(i)' = At(i) /\ Apart(i)' = Apart(i)
       /\ \A r : Links!DecodedWrite(r)' = Links!DecodedWrite(r)
  BY <1>0, FamilyStays
<1> DEFINE Holds1(i, v) == (At(i) \in on') = v
           Undisturbed1(i) == \A r \in Pending' : r.op = "write" => ~Carries(r, i)
           Kept == \A i \in DOMAIN written' \ DOMAIN values' :
                      Apart(i) => Holds1(i, written'[i]) /\ Undisturbed1(i)
           Coming == call' = "write" =>
               /\ \A r \in ToCome' : Says(r, values')
               /\ \A i \in DOMAIN values' :
                     Apart(i) => \/ \E r \in ToCome' : Carries(r, i)
                                 \/ Holds1(i, values'[i]) /\ Undisturbed1(i)
               /\ Done' => \A i \in DOMAIN values' :
                              Apart(i) /\ Carries(todo'[1], i) => Holds1(i, values'[i])
<1>a. ASSUME Kept, Coming PROVE CommandInv'
  <2>1. \A i, v : Holds(i, v)' = Holds1(i, v)
    BY <1>00 DEF Holds
  <2>2. \A r, i : Carries(r, i)' = Carries(r, i)
    BY <1>00 DEF Carries
  <2>3. \A i : Undisturbed(i)' = Undisturbed1(i)
    BY <2>2 DEF Undisturbed
  <2>4. \A r, c : Says(r, c)' = Says(r, c)
    BY <1>00 DEF Says
  <2> QED BY <1>a, <1>00, <2>1, <2>2, <2>3, <2>4 DEF CommandInv, Holds, Undisturbed, Says, Carries
<1> SUFFICES ASSUME Links!InStep' PROVE CommandInv'
  BY DEF CommandInv
<1>b. Links!InStep
  BY LateStays
<1>c. /\ \A i \in DOMAIN written \ DOMAIN values :
             Apart(i) => Holds(i, written[i]) /\ Undisturbed(i)
      /\ call = "write" =>
             /\ \A r \in ToCome : Says(r, values)
             /\ \A i \in DOMAIN values :
                   Apart(i) => \/ \E r \in ToCome : Carries(r, i)
                               \/ Holds(i, values[i]) /\ Undisturbed(i)
             /\ Done => \A i \in DOMAIN values :
                           Apart(i) /\ Carries(todo[1], i) => Holds(i, values[i])
  BY <1>b DEF CommandInv
<1>d. ASSUME UNCHANGED <<on, sent>> PROVE /\ \A i, v : Holds1(i, v) = Holds(i, v)
                                          /\ \A i : Undisturbed1(i) = Undisturbed(i)
  BY <1>d DEF Holds, Undisturbed, Pending
<1> HIDE DEF Holds1, Undisturbed1
<1>1. CASE UNCHANGED links
  <2>1. Kept
    BY <1>1, <1>c, <1>d DEF links
  <2>2. Coming
    BY <1>1, <1>c, <1>d DEF links, ToCome, Done
  <2> HIDE DEF Kept, Coming
  <2> QED BY <1>a, <2>1, <2>2
<1>2. ASSUME NEW cmd \in Commands, Links!WriteInputs(cmd) PROVE CommandInv'
  <2>1. /\ call = "idle" /\ DOMAIN values = {} /\ UNCHANGED <<on, sent, replies, asked, written>>
        /\ ~asked
    BY <1>2 DEF Links!WriteInputs, Links!line
  <2>2. Kept
    BY <1>c, <1>d, <2>1
  <2>3. CASE call' = call
    BY <1>a, <2>1, <2>2, <2>3
  <2>4. CASE /\ ~(DOMAIN cmd = {} \/ Links!Unmapped \in DOMAIN cmd)
             /\ values' = cmd /\ todo' = Links!WritesOf(cmd)
    <3>1. DOMAIN cmd \subseteq Links!Inputs /\ cmd \in [DOMAIN cmd -> BOOLEAN]
      BY <2>4, CommandsAre
    <3>2. Covers(Links!WritesOf(cmd), cmd)
      BY <2>4, <3>1, WritesCover
    <3>3. ~Done'
      BY <2>1 DEF Done
    <3>4. Coming
      BY <2>4, <3>2, <3>3 DEF Covers, ToCome
    <3> QED BY <1>a, <2>2, <3>4
  <2> QED BY <1>2, <2>3, <2>4 DEF Links!WriteInputs
<1>3. ASSUME Links!ReadOutputs PROVE CommandInv'
  <2>1. UNCHANGED <<on, sent, values, written>> /\ call' # "write"
    BY <1>3 DEF Links!ReadOutputs, Links!line
  <2>2. Kept
    BY <1>c, <1>d, <2>1
  <2>3. Coming
    BY <2>1
  <2> QED BY <1>a, <2>2, <2>3
<1>4. ASSUME Links!Send PROVE CommandInv'
  <2>1. /\ UNCHANGED <<on, call, todo, values, written>>
        /\ todo # <<>> /\ sent' = Append(sent, Head(todo))
    BY <1>4 DEF Links!Send, Links!calling
  <2> DEFINE r == todo[1]
  <2>2. Head(todo) = r /\ r \in LinkRequest /\ 1 \in 1..Len(todo)
    BY <2>1
  <2>3. r \in ToCome /\ ToCome' = ToCome
    BY <2>1, <2>2 DEF ToCome
  <2>4. Pending' \subseteq Pending \cup {r} /\ sent' # <<>>
    <3>1. /\ sent' = Append(sent, r) /\ Len(sent') = Len(sent) + 1 /\ Len(sent) \in Nat
          /\ sent'[Len(sent) + 1] = r /\ \A m \in 1..Len(sent) : sent'[m] = sent[m]
      BY <2>1, <2>2
    <3> SUFFICES ASSUME NEW m \in 1..Len(sent') PROVE sent'[m] \in Pending \cup {r}
      BY <3>1 DEF Pending
    <3>2. CASE m \in 1..Len(sent)
      BY <3>1, <3>2 DEF Pending
    <3>3. CASE m = Len(sent) + 1
      BY <3>1, <3>3
    <3> QED BY <3>1, <3>2, <3>3
  <2>5. \A i : Undisturbed(i) /\ (r.op = "write" => ~Carries(r, i)) => Undisturbed1(i)
    <3> HIDE DEF r
    <3> QED BY <2>4 DEF Undisturbed, Undisturbed1
  <2>6. \A i, v : Holds1(i, v) = Holds(i, v)
    BY <2>1 DEF Holds, Holds1
  <2>7. call = "read" => r.op = "read"
    BY <2>2
  <2>8. call \in {"read", "write"}
    BY <2>1
  <2> HIDE DEF r
  <2>9. ASSUME NEW i \in Links!Inputs, i \notin DOMAIN values, r.op = "write" PROVE ~Carries(r, i)
    <3>1. call = "write" /\ Says(r, values)
      BY <1>c, <2>3, <2>7, <2>8, <2>9
    <3> SUFFICES ASSUME Carries(r, i) PROVE FALSE
      OBVIOUS
    <3>2. PICK j \in DOMAIN r.devices : r.devices[j] = Links!InputOf(i)
      BY DEF Carries
    <3>3. PICK l \in DOMAIN values : r.devices[j] = Links!InputOf(l)
      BY <3>1 DEF Says
    <3>4. l = i
      BY <3>2, <3>3, DevicesDiffer
    <3> QED BY <2>9, <3>3, <3>4
  <2>10. Kept
    <3> SUFFICES ASSUME NEW i \in DOMAIN written \ DOMAIN values, Apart(i)
                 PROVE  Holds1(i, written[i]) /\ Undisturbed1(i)
      BY <2>1
    <3>1. Holds(i, written[i]) /\ Undisturbed(i)
      BY <1>c
    <3> QED BY <2>5, <2>6, <2>9, <3>1
  <2>11. Coming
    <3> SUFFICES ASSUME call = "write" PROVE Coming
      BY <2>1
    <3>1. ~Done'
      BY <2>4 DEF Done
    <3>2. ASSUME NEW i \in DOMAIN values, Apart(i)
          PROVE  \/ \E q \in ToCome : Carries(q, i)
                 \/ Holds1(i, values[i]) /\ Undisturbed1(i)
      BY <1>c, <2>3, <2>5, <2>6, <3>2
    <3>3. \A q \in ToCome : Says(q, values)
      BY <1>c
    <3> QED BY <2>1, <2>3, <3>1, <3>2, <3>3
  <2> HIDE DEF Kept, Coming
  <2> QED BY <1>a, <2>10, <2>11
<1>5. ASSUME Links!Serve PROVE CommandInv'
  <2> DEFINE r == sent[1]
  <2>1. /\ UNCHANGED <<asked, call, todo, values, written>>
        /\ Len(sent) \in Nat \ {0} /\ sent' \in Seq(LinkRequest) /\ Len(sent') = Len(sent) - 1
        /\ Len(replies) \in Nat /\ Len(replies') = Len(replies) + 1
        /\ r \in LinkRequest /\ r \in Pending /\ Pending' \subseteq Pending
        /\ \/ on' = on /\ ~replies'[Len(replies')].ok
           \/ on' = IF r.op = "write" THEN Links!WriteDevices(r) ELSE on
    BY <1>5, ServeIs
  <2> HIDE DEF r
  <2>2. ASSUME NEW i, NEW v, Holds(i, v), Undisturbed(i) PROVE Holds1(i, v) /\ Undisturbed1(i)
    <3>1. Undisturbed1(i)
      BY <2>1, <2>2 DEF Undisturbed, Undisturbed1
    <3>2. r.op = "write" => ~Carries(r, i)
      BY <2>1, <2>2 DEF Undisturbed
    <3>3. r.op = "write" => (At(i) \in Links!WriteDevices(r)) = (At(i) \in on)
      BY <2>1, <3>2, WriteLeaves
    <3>4. (At(i) \in on') = (At(i) \in on)
      BY <2>1, <3>3
    <3> QED BY <2>2, <3>1, <3>4 DEF Holds, Holds1
  <2>3. Kept
    BY <1>c, <2>1, <2>2
  <2>4. ASSUME call = "write", Done', NEW i \in DOMAIN values, Carries(todo[1], i)
        PROVE  Holds1(i, values[i])
    <3>1. asked /\ sent' = <<>> /\ Len(replies') = 1 /\ replies'[1].ok
      BY <2>1, <2>4 DEF Done
    <3>2. Len(sent) = 1 /\ sent # <<>>
      BY <2>1, <3>1
    <3>3. r = todo[1]
      BY <3>1, <3>2 DEF r
    <3>4. r \in ToCome /\ Says(r, values) /\ r.op = "write"
      <4>1. 1 \in 1..Len(todo)
        BY <2>4
      <4> QED BY <1>c, <2>4, <3>3, <4>1 DEF ToCome, Says
    <3>5. on' = Links!WriteDevices(r)
      BY <2>1, <3>1, <3>4
    <3> DEFINE v == values
    <3>6. DOMAIN v \subseteq Links!Inputs /\ v \in [DOMAIN v -> BOOLEAN] /\ Says(r, v)
          /\ i \in Links!Inputs /\ Carries(r, i)
      BY <2>4, <3>3, <3>4
    <3> HIDE DEF v
    <3>7. (At(i) \in Links!WriteDevices(r)) = v[i]
      BY <3>6, WriteEffect
    <3> QED BY <3>5, <3>7 DEF Holds1, v
  <2>5. Coming
    <3> SUFFICES ASSUME call = "write" PROVE Coming
      BY <2>1
    <3>1. ToCome' = ToCome
      BY <2>1 DEF ToCome
    <3>2. ASSUME NEW i \in DOMAIN values, Apart(i)
          PROVE  \/ \E q \in ToCome : Carries(q, i)
                 \/ Holds1(i, values[i]) /\ Undisturbed1(i)
      BY <1>c, <2>2, <3>2
    <3>3. \A q \in ToCome : Says(q, values)
      BY <1>c
    <3> QED BY <2>1, <2>4, <3>1, <3>2, <3>3
  <2> HIDE DEF Kept, Coming
  <2> QED BY <1>a, <2>3, <2>5
<1>6. ASSUME Links!TakeReply PROVE CommandInv'
  <2> DEFINE r == todo[1]
  <2>1. /\ todo # <<>> /\ todo' = Tail(todo) /\ UNCHANGED <<on, sent>> /\ asked /\ ~asked'
        /\ Head(replies).ok
        /\ \/ Len(todo) > 1 /\ UNCHANGED <<call, result, written, values>>
           \/ Len(todo) = 1 /\ call = "read" /\ Links!Return("read", written)
           \/ Len(todo) = 1 /\ call = "write" /\ Links!Return("ok", Links!Updated)
    BY <1>6 DEF Links!TakeReply, Links!HasAnswer, Links!GoodAnswer
  <2>2. sent = <<>> /\ Len(replies) = 1 /\ replies[1] = Head(replies)
    BY <1>6, <1>b, AnswerIsOwn DEF Links!TakeReply
  <2>3. Done /\ ~Done'
    BY <2>1, <2>2 DEF Done
  <2>4. /\ \A i, v : Holds1(i, v) = Holds(i, v)
        /\ \A i : Undisturbed1(i) = Undisturbed(i)
    BY <1>d, <2>1
  <2>5. \A i : Undisturbed1(i)
    <3>1. Pending' = {}
      BY <2>1, <2>2 DEF Pending
    <3> QED BY <3>1 DEF Undisturbed1
  <2>6. /\ Len(todo) \in Nat \ {0} /\ Len(todo') = Len(todo) - 1 /\ 1 \in 1..Len(todo)
        /\ \A m \in 1..Len(todo') : todo'[m] = todo[m + 1]
    BY <2>1
  <2>7. r \in ToCome /\ ToCome = ToCome' \cup {r}
    <3>1. r \in ToCome
      BY <2>6 DEF ToCome
    <3>2. ASSUME NEW q \in ToCome PROVE q = r \/ q \in ToCome'
      <4>1. PICK m \in 1..Len(todo) : q = todo[m]
        BY DEF ToCome
      <4>2. CASE m = 1
        BY <4>1, <4>2
      <4>3. CASE m # 1
        <5>1. m - 1 \in 1..Len(todo') /\ todo'[m - 1] = q
          BY <2>6, <4>1, <4>3
        <5> QED BY <5>1 DEF ToCome
      <4> QED BY <4>2, <4>3
    <3>3. ToCome' \subseteq ToCome
      <4> SUFFICES ASSUME NEW m \in 1..Len(todo') PROVE todo'[m] \in ToCome
        BY DEF ToCome
      <4>1. m + 1 \in 1..Len(todo) /\ todo'[m] = todo[m + 1]
        BY <2>6
      <4> QED BY <4>1 DEF ToCome
    <3> QED BY <3>1, <3>2, <3>3
  <2> HIDE DEF r
  <2>8. CASE call = "read"
    <3>1. call' # "write" /\ written' = written /\ DOMAIN values' = {} /\ DOMAIN values = {}
      BY <2>1, <2>8 DEF Links!Return
    <3>2. Kept
      BY <1>c, <2>4, <3>1
    <3>3. Coming
      BY <3>1
    <3> QED BY <1>a, <3>2, <3>3
  <2>9. CASE call = "write"
    <3>1. ASSUME NEW i \in DOMAIN values, Apart(i)
          PROVE  (\E q \in ToCome' : Carries(q, i)) \/ Holds1(i, values[i])
      <4>1. CASE Carries(r, i)
        BY <1>c, <2>3, <2>4, <2>9, <3>1, <4>1 DEF r
      <4>2. CASE ~Carries(r, i)
        BY <1>c, <2>4, <2>7, <2>9, <3>1, <4>2
      <4> QED BY <4>1, <4>2
    <3>2. ASSUME NEW i \in DOMAIN written \ DOMAIN values, Apart(i) PROVE Holds1(i, written[i])
      BY <1>c, <2>4, <3>2
    <3>3. CASE Len(todo) > 1
      <4>1. UNCHANGED <<values, written, call>>
        BY <2>1, <3>3
      <4>2. Kept
        BY <2>5, <3>2, <4>1
      <4>3. \A q \in ToCome' : Says(q, values)
        BY <1>c, <2>7, <2>9
      <4>4. Coming
        BY <2>3, <2>5, <3>1, <4>1, <4>3
      <4> HIDE DEF Kept, Coming
      <4> QED BY <1>a, <4>2, <4>4
    <3>4. CASE Len(todo) = 1
      <4>1. call' = "idle" /\ values' = <<>> /\ written' = Links!Updated
        BY <2>1, <2>9, <3>4 DEF Links!Return
      <4>2. ToCome' = {}
        BY <2>6, <3>4 DEF ToCome
      <4>3. Kept
        <5> SUFFICES ASSUME NEW i \in DOMAIN Links!Updated, Apart(i)
                     PROVE  Holds1(i, Links!Updated[i])
          BY <2>5, <4>1
        <5>1. i \in DOMAIN values \cup DOMAIN written
          BY DEF Links!Updated
        <5>2. CASE i \in DOMAIN values
          <6>1. Links!Updated[i] = values[i]
            BY <5>2 DEF Links!Updated
          <6>2. Holds1(i, values[i])
            BY <3>1, <4>2, <5>2
          <6> QED BY <6>1, <6>2
        <5>3. CASE i \in DOMAIN written \ DOMAIN values
          <6>1. Links!Updated[i] = written[i]
            BY <5>3 DEF Links!Updated
          <6> QED BY <3>2, <5>3, <6>1
        <5> QED BY <5>1, <5>2, <5>3
      <4>4. Coming
        BY <4>1
      <4> HIDE DEF Kept, Coming
      <4> QED BY <1>a, <4>3, <4>4
    <3> QED BY <2>6, <3>3, <3>4
  <2> QED BY <2>1, <2>8, <2>9
<1>7. ASSUME Links!Refused \/ Links!LinkFails PROVE CommandInv'
  <2> DEFINE kept == [i \in DOMAIN written \ DOMAIN values |-> written[i]]
  <2>1. call' = "idle" /\ values' = <<>> /\ written' = kept /\ UNCHANGED <<on, sent>>
    BY <1>7 DEF Links!Refused, Links!LinkFails, Links!Fail, Links!Return
  <2>2. DOMAIN kept = DOMAIN written \ DOMAIN values
        /\ \A i \in DOMAIN kept : kept[i] = written[i]
    OBVIOUS
  <2> HIDE DEF kept
  <2>3. Kept
    BY <1>c, <1>d, <2>1, <2>2
  <2>4. Coming
    BY <2>1
  <2> HIDE DEF Kept, Coming
  <2> QED BY <1>a, <2>3, <2>4
<1>8. ASSUME Links!PlcScan PROVE CommandInv'
  <2>1. UNCHANGED <<sent, replies, asked, call, todo, values, written>>
    BY <1>8 DEF Links!PlcScan, Links!line, Links!calling
  <2>2. \A i, v : Apart(i) => Holds1(i, v) = Holds(i, v)
    BY <1>8, ScanEffect DEF Holds, Holds1
  <2>3. \A i : Undisturbed1(i) = Undisturbed(i)
    BY <2>1 DEF Undisturbed, Undisturbed1, Pending
  <2>4. Kept
    BY <1>c, <2>1, <2>2, <2>3
  <2>5. Coming
    <3>1. ToCome' = ToCome /\ Done' = Done
      BY <2>1 DEF ToCome, Done
    <3> QED BY <1>c, <2>1, <2>2, <2>3, <3>1
  <2> HIDE DEF Kept, Coming
  <2> QED BY <1>a, <2>4, <2>5
<1> QED BY <1>1, <1>2, <1>3, <1>4, <1>5, <1>6, <1>7, <1>8 DEF Links!Next

----------------------------------------------------------------------------
(* Every mapped symbol fits into a request that names all of them. *)
MapsFit ==
    /\ "fenet" \in Families => OutSymbols <= MaxBlocks
    /\ "modbus" \in Families => OutSymbols <= MaxBits /\ InSymbols <= MaxWriteBits

(* An answer gives the bits the devices of its request had at a moment of  *)
(* the call.                                                               *)
Tells(bytes, r) ==
    \E d : /\ Links!ImageOf(d) \in seen
           /\ Links!Decoded(bytes, Len(r.devices)) = [j \in DOMAIN r.devices |-> r.devices[j] \in d]

(* A read that runs has seen the outputs as they are; it has the answers   *)
(* to the requests it no longer has to send, each bit true at some moment  *)
(* of the call, and so has the answer on its way; and a read that has      *)
(* ended told the truth.                                                   *)
ReadInv ==
    /\ result # "raised"
    /\ result = "read" => call = "idle"
    /\ Links!OutputsAreOneMoment /\ Links!OutputsAreOfThisCall
    /\ Links!InStep /\ call = "read" =>
          /\ got \in Seq(BOOLEAN) /\ Links!ImageOf(on) \in seen
          /\ family # "melsec" => todo = Links!ReadsOf /\ got = <<>>
          /\ family = "melsec" =>
                /\ Len(got) + Len(todo) = OutSymbols
                /\ \A m \in 1..Len(todo) : todo[m] = Links!ReadsOf[Len(got) + m]
                /\ \A o \in 1..Len(got) : \E now \in seen : got[o] = (o \in now)
          /\ Done => Tells(replies[1].bytes, todo[1])

(* The bits of an answer are those of the devices, in order. *)
LEMMA ReadEffect ==
    ASSUME Links!LinkAssumption, family \in Families, NEW n \in Nat \ {0},
           family = "melsec" => n = 1, NEW d, d \in [1..n -> Device], NEW r, Asks(r, d)
    PROVE  Links!Decoded(Links!ReadBytes(r), n) = [j \in 1..n |-> d[j] \in on]
<1> DEFINE bs == [j \in 1..n |-> d[j] \in on]
           plain == [j \in DOMAIN bs |-> IF bs[j] THEN {0} ELSE {}]
<1>1. r.devices = d /\ DOMAIN d = 1..n
  BY DEF Asks
<1>2. bs \in [1..n -> BOOLEAN] /\ Len(bs) = n
  <2>1. bs \in [1..n -> BOOLEAN]
    OBVIOUS
  <2> HIDE DEF bs
  <2> QED BY <2>1, LenProperties
<1>3. Links!ReadBytes(r) = Links!Encoded(bs)
  BY <1>1 DEF Links!ReadBytes
<1>4. CASE family = "modbus"
  <2>1. Links!UnpackBits(Links!PackBits(bs), n) = bs
    <3> HIDE DEF bs
    <3> QED BY <1>2, BytesKeepBits
  <2> HIDE DEF bs
  <2>2. Links!Encoded(bs) = Links!PackBits(bs)
    BY <1>4 DEF Links!Encoded
  <2>3. \A b : Links!Decoded(b, n) = Links!UnpackBits(b, n)
    BY <1>4 DEF Links!Decoded
  <2>4. Links!Decoded(Links!ReadBytes(r), n) = bs
    BY <1>3, <2>1, <2>2, <2>3
  <2> QED BY <2>4 DEF bs
<1>5. CASE family = "melsec"
  <2>1. Links!UnpackNibbles(Links!PackNibbles(bs), n) = bs
    <3> HIDE DEF bs
    <3> QED BY <1>2, <1>5, PointKeepsBit
  <2> HIDE DEF bs
  <2>2. Links!Encoded(bs) = Links!PackNibbles(bs)
    BY <1>5 DEF Links!Encoded
  <2>3. \A b : Links!Decoded(b, n) = Links!UnpackNibbles(b, n)
    BY <1>5 DEF Links!Decoded
  <2>4. Links!Decoded(Links!ReadBytes(r), n) = bs
    BY <1>3, <2>1, <2>2, <2>3
  <2> QED BY <2>4 DEF bs
<1>6. CASE family = "fenet"
  <2> HIDE DEF bs
  <2>1. Links!Encoded(bs) = plain
    BY <1>6 DEF Links!Encoded
  <2>2. Links!Decoded(plain, n) = [j \in 1..n |-> plain[j] # {}]
    <3> HIDE DEF plain
    <3> QED BY <1>6 DEF Links!Decoded
  <2>3. \A j \in 1..n : (plain[j] # {}) = bs[j]
    BY <1>2
  <2>4. bs = [j \in 1..n |-> bs[j]]
    BY <1>2
  <2> HIDE DEF plain
  <2>5. Links!Decoded(Links!ReadBytes(r), n) = bs
    BY <1>3, <2>1, <2>2, <2>3, <2>4
  <2> QED BY <2>5 DEF bs
<1>7. family \in {"modbus", "fenet", "melsec"}
  BY DEF Links!LinkAssumption
<1> QED BY <1>4, <1>5, <1>6, <1>7

(* A mapped read is never refused for its length. *)
LEMMA ReadsAreShort ==
    ASSUME Links!LinkAssumption, MapsFit, family \in Families, NEW j \in DOMAIN Links!ReadsOf
    PROVE  ~Links!TooLong(Links!ReadsOf[j])
<1> DEFINE d == [o \in Links!Outputs |-> Links!OutputOf(o)]
<1>1. OutSymbols \in Nat \ {0}
  BY DEF Links!LinkAssumption
<1>2. CASE family = "melsec"
  BY <1>2 DEF Links!TooLong
<1>3. CASE family # "melsec"
  <2>1. PICK r : Links!ReadsOf = <<r>> /\ Asks(r, d)
    BY <1>3, ReadsAsk
  <2>2. d \in [1..OutSymbols -> Device]
    BY DevicesDiffer DEF Links!Outputs
  <2>3. Len(d) = OutSymbols
    <3> HIDE DEF d
    <3> QED BY <1>1, <2>2, LenProperties
  <2>4. Links!ReadsOf[j] = r /\ r.devices = d /\ r.op = "read"
    BY <2>1 DEF Asks
  <2> HIDE DEF d
  <2> QED BY <1>1, <1>3, <2>3, <2>4 DEF Links!TooLong, MapsFit, Links!LinkAssumption
<1> QED BY <1>2, <1>3

(* Nor is a mapped write. *)
LEMMA WritesAreShort ==
    ASSUME Links!LinkAssumption, MapsFit, family \in Families,
           NEW cmd \in Commands, DOMAIN cmd # {}, Links!Unmapped \notin DOMAIN cmd,
           NEW j \in DOMAIN Links!WritesOf(cmd)
    PROVE  ~Links!TooLong(Links!WritesOf(cmd)[j])
<1> DEFINE w == Links!WritesOf(cmd)
           count == Len(w[j].devices)
<1>1. DOMAIN cmd \subseteq Links!Inputs /\ cmd \in [DOMAIN cmd -> BOOLEAN]
  BY CommandsAre
<1>2. Covers(w, cmd)
  BY <1>1, WritesCover
<1> HIDE DEF w
<1>3. j \in 1..Len(w) /\ w[j] \in LinkRequest
  BY <1>2 DEF Covers, w
<1>4. count \in Nat /\ count <= Longest /\ w[j].op = "write"
  BY <1>2, <1>3 DEF Covers, Says, LinkRequest
<1>5. {InSymbols, MaxBlocks, MaxWriteBits} \subseteq Nat \ {0}
      /\ Families \subseteq {"modbus", "fenet", "melsec"}
  BY DEF Links!LinkAssumption
<1>6. ~Links!TooLong(w[j])
  <2>1. Links!TooLong(w[j]) =
          \/ family = "fenet" /\ count > MaxBlocks
          \/ family = "modbus" /\ count > MaxWriteBits
    BY <1>4 DEF Links!TooLong
  <2> HIDE DEF count
  <2> QED BY <1>4, <1>5, <2>1 DEF Longest, MapsFit
<1> QED BY <1>6 DEF w

(* Whatever a link does, its reads stay true. *)
LEMMA ReadStep ==
    ASSUME Links!LinkAssumption, MapsFit, CallInv, ReadInv, [Links!Next]_links
    PROVE  ReadInv'
<1> USE DEF CallInv
<1>0. family' = family /\ kind' = kind /\ OutSymbols \in Nat \ {0}
  BY DEF links, Links!Next, Links!LinkAssumption
<1>00. /\ Links!ReadsOf' = Links!ReadsOf /\ \A o : Links!OutputOf(o)' = Links!OutputOf(o)
       /\ \A d : Links!ImageOf(d)' = Links!ImageOf(d)
       /\ \A b, n : Links!Decoded(b, n)' = Links!Decoded(b, n)
  BY <1>0, FamilyStays
<1>b. Links!InStep' => Links!InStep
  BY LateStays
<1>c. ASSUME UNCHANGED <<result, call, got, seen>>
      PROVE  /\ result' # "raised" /\ (result' = "read" => call' = "idle")
             /\ Links!OutputsAreOneMoment' /\ Links!OutputsAreOfThisCall'
  BY <1>0, <1>b, <1>c DEF ReadInv, Links!OutputsAreOneMoment, Links!OutputsAreOfThisCall
<1>d. ASSUME call' # "read", result' \notin {"read", "raised"} PROVE ReadInv'
  BY <1>d DEF ReadInv, Links!OutputsAreOneMoment, Links!OutputsAreOfThisCall
<1> DEFINE Tells1(b, r) ==
             \E d : /\ Links!ImageOf(d) \in seen'
                    /\ Links!Decoded(b, Len(r.devices))
                         = [j \in DOMAIN r.devices |-> r.devices[j] \in d]
<1>e. ASSUME NEW b, NEW r, Tells(b, r), seen \subseteq seen' PROVE Tells1(b, r)
  BY <1>e DEF Tells
<1> HIDE DEF Tells1
(* A step that leaves the read where it is keeps what it has. *)
<1>f. ASSUME UNCHANGED <<result, call, got, todo>>, seen \subseteq seen', call = "read",
             Links!ImageOf(on') \in seen',
             Done' => Tells1(replies'[1].bytes, todo[1])
      PROVE  ReadInv'
  <2>1. result' # "read" /\ result' # "raised"
    BY <1>f DEF ReadInv
  <2>2. ASSUME Links!InStep'
        PROVE  /\ got \in Seq(BOOLEAN)
               /\ family # "melsec" => todo = Links!ReadsOf /\ got = <<>>
               /\ family = "melsec" =>
                     /\ Len(got) + Len(todo) = OutSymbols
                     /\ \A m \in 1..Len(todo) : todo[m] = Links!ReadsOf[Len(got) + m]
                     /\ \A o \in 1..Len(got) : \E now \in seen' : got[o] = (o \in now)
    BY <1>b, <1>f, <2>2 DEF ReadInv
  <2>3. Links!ImageOf(on)' \in seen'
    BY <1>00, <1>f DEF Links!ImageOf
  <2>4. ASSUME Done' PROVE Tells(replies[1].bytes, todo[1])'
    <3>1. PICK d : /\ Links!ImageOf(d) \in seen'
                   /\ Links!Decoded(replies'[1].bytes, Len(todo[1].devices))
                        = [j \in DOMAIN todo[1].devices |-> todo[1].devices[j] \in d]
      BY <1>f, <2>4 DEF Tells1
    <3>2. Links!ImageOf(d)' \in seen'
      BY <1>00, <3>1
    <3>3. Links!Decoded(replies[1].bytes, Len(todo[1].devices))'
            = Links!Decoded(replies'[1].bytes, Len(todo[1].devices))
      BY <1>0, <1>f DEF Links!Decoded
    <3>4. Links!Decoded(replies[1].bytes, Len(todo[1].devices))'
            = [j \in DOMAIN todo'[1].devices |-> todo'[1].devices[j] \in d]
      BY <1>f, <3>1, <3>3
    <3> QED BY <3>2, <3>4 DEF Tells
  <2> QED BY <1>0, <1>00, <1>f, <2>1, <2>2, <2>3, <2>4
          DEF ReadInv, Links!OutputsAreOneMoment, Links!OutputsAreOfThisCall
<1>1. CASE UNCHANGED links
  <2>1. CASE call = "read"
    <3>1. UNCHANGED <<result, call, got, todo, seen, on, replies>> /\ Links!InStep' = Links!InStep
      BY <1>1 DEF links, Links!InStep, Links!Late
    <3>2. Done' = Done
      BY <1>1 DEF links, Done
    <3>3. CASE Links!InStep
      <4>1. Links!ImageOf(on') \in seen' /\ (Done' => Tells1(replies'[1].bytes, todo[1]))
        BY <1>e, <2>1, <3>1, <3>2, <3>3 DEF ReadInv
      <4> QED BY <1>f, <2>1, <3>1, <4>1
    <3>4. CASE ~Links!InStep
      BY <1>c, <3>1, <3>4 DEF ReadInv
    <3> QED BY <3>3, <3>4
  <2>2. CASE call # "read"
    BY <1>1, <1>c, <2>2 DEF links, ReadInv
  <2> QED BY <2>1, <2>2
<1>2. ASSUME NEW cmd \in Commands, Links!WriteInputs(cmd) PROVE ReadInv'
  <2>1. call' \in {"idle", "write"}
    BY <1>2 DEF Links!WriteInputs
  <2>2. result' \in {"ok", "rejected", "none"}
    <3>1. CASE DOMAIN cmd = {} \/ Links!Unmapped \in DOMAIN cmd
      BY <1>2, <3>1 DEF Links!WriteInputs
    <3>2. CASE ~(DOMAIN cmd = {} \/ Links!Unmapped \in DOMAIN cmd)
      <4>1. ~\E j \in DOMAIN Links!WritesOf(cmd) : Links!TooLong(Links!WritesOf(cmd)[j])
        BY <3>2, WritesAreShort
      <4> QED BY <1>2, <3>2, <4>1 DEF Links!WriteInputs
    <3> QED BY <3>1, <3>2
  <2> QED BY <1>d, <2>1, <2>2
<1>3. ASSUME Links!ReadOutputs PROVE ReadInv'
  <2>1. ~\E j \in DOMAIN Links!ReadsOf : Links!TooLong(Links!ReadsOf[j])
    BY ReadsAreShort
  <2>2. /\ got' = <<>> /\ seen' = {Links!ImageOf(on)} /\ UNCHANGED <<on, asked>> /\ ~asked
        /\ call' = "read" /\ todo' = Links!ReadsOf /\ result' = "none"
    BY <1>3, <2>1 DEF Links!ReadOutputs, Links!line
  <2>3. Len(got') = 0 /\ got' \in Seq(BOOLEAN) /\ ~Done'
    BY <2>2 DEF Done
  <2>4. Links!ImageOf(on)' \in seen'
    <3>1. Links!ImageOf(on)' = Links!ImageOf(on)
      BY <1>00, <2>2 DEF Links!ImageOf
    <3> QED BY <2>2, <3>1
  <2>5. ASSUME family = "melsec"
        PROVE  /\ Len(got') + Len(todo') = OutSymbols
               /\ \A m \in 1..Len(todo') : todo'[m] = Links!ReadsOf[Len(got') + m]
    <3>1. Len(Links!ReadsOf) = OutSymbols
      BY <2>5, ReadsAsk
    <3> QED BY <1>0, <2>2, <2>3, <3>1
  <2> QED BY <1>0, <1>00, <2>2, <2>3, <2>4, <2>5
          DEF ReadInv, Links!OutputsAreOneMoment, Links!OutputsAreOfThisCall
<1>4. ASSUME Links!Send PROVE ReadInv'
  <2>1. /\ UNCHANGED <<result, call, got, todo, seen, on>> /\ todo # <<>> /\ sent' # <<>>
    <3>1. /\ UNCHANGED <<result, call, got, todo, seen, on>> /\ todo # <<>>
          /\ sent' = Append(sent, Head(todo))
      BY <1>4 DEF Links!Send, Links!calling
    <3>2. Len(sent') = Len(sent) + 1 /\ Len(sent) \in Nat
      BY <3>1
    <3> QED BY <3>1, <3>2
  <2>2. ~Done'
    BY <2>1 DEF Done
  <2>3. CASE call = "read" /\ Links!InStep
    <3>1. Links!ImageOf(on') \in seen'
      BY <2>1, <2>3 DEF ReadInv
    <3> QED BY <1>f, <2>1, <2>2, <2>3, <3>1
  <2>4. CASE ~(call = "read" /\ Links!InStep)
    BY <1>b, <1>c, <2>1, <2>4 DEF ReadInv
  <2> QED BY <2>3, <2>4
<1>5. ASSUME Links!Serve PROVE ReadInv'
  <2> DEFINE r == sent[1]
  <2>1. /\ UNCHANGED <<asked, call, todo, got, result>>
        /\ Len(sent) \in Nat \ {0} /\ Len(sent') = Len(sent) - 1
        /\ Len(replies) \in Nat /\ Len(replies') = Len(replies) + 1
        /\ \/ on' = on /\ ~replies'[Len(replies')].ok
           \/ /\ on' = IF r.op = "write" THEN Links!WriteDevices(r) ELSE on
              /\ r.op = "read" => replies'[Len(replies')].bytes = Links!ReadBytes(r)
    BY <1>5, ServeIs
  <2>2. seen' = IF call = "read" THEN seen \cup {Links!ImageOf(on')} ELSE seen
    BY <1>5 DEF Links!Serve, Links!Watched
  <2>3. CASE call # "read"
    BY <1>c, <2>1, <2>2, <2>3 DEF ReadInv
  <2>4. CASE call = "read" /\ ~Links!InStep
    <3>1. result' # "read" /\ result' # "raised" /\ ~Links!InStep'
      BY <1>b, <2>1, <2>4 DEF ReadInv
    <3> QED BY <3>1 DEF ReadInv, Links!OutputsAreOneMoment, Links!OutputsAreOfThisCall
  <2>5. CASE call = "read" /\ Links!InStep
    <3>1. seen \subseteq seen' /\ Links!ImageOf(on') \in seen'
      BY <2>2, <2>5
    <3>2. ASSUME Done' PROVE Tells1(replies'[1].bytes, todo[1])
      <4>1. asked /\ sent' = <<>> /\ Len(replies') = 1 /\ replies'[1].ok
        BY <2>1, <3>2 DEF Done
      <4>2. Len(sent) = 1 /\ sent # <<>>
        BY <2>1, <4>1
      <4>3. r = todo[1] /\ 1 \in 1..Len(todo)
        BY <2>5, <4>1, <4>2
      <4>4. r.op = "read"
        BY <2>5, <4>3
      <4>5. on' = on /\ replies'[1].bytes = Links!ReadBytes(r)
        BY <2>1, <4>1, <4>4
      <4> HIDE DEF r
      <4>6. PICK n, d : n \in Nat \ {0} /\ d \in [1..n -> Device] /\ Asks(r, d)
                         /\ (family = "melsec" => n = 1)
        <5> DEFINE all == [o \in Links!Outputs |-> Links!OutputOf(o)]
        <5>1. CASE family # "melsec"
          <6>1. PICK q : Links!ReadsOf = <<q>> /\ Asks(q, all)
            BY <5>1, ReadsAsk
          <6>2. r = q
            BY <2>5, <4>3, <5>1, <6>1 DEF ReadInv
          <6>3. all \in [1..OutSymbols -> Device]
            BY DevicesDiffer DEF Links!Outputs
          <6> HIDE DEF all
          <6> QED BY <1>0, <5>1, <6>1, <6>2, <6>3
        <5>2. CASE family = "melsec"
          <6> DEFINE p == Len(got) + 1
                     one == <<Links!OutputOf(p)>>
          <6>1. /\ got \in Seq(BOOLEAN) /\ Len(got) + Len(todo) = OutSymbols /\ Len(got) \in Nat
                /\ \A m \in 1..Len(todo) : todo[m] = Links!ReadsOf[Len(got) + m]
            BY <2>5, <5>2 DEF ReadInv
          <6>2. p \in Links!Outputs /\ r = Links!ReadsOf[p]
            BY <1>0, <4>3, <6>1 DEF Links!Outputs
          <6>3. Asks(r, one)
            BY <5>2, <6>2, ReadsAsk
          <6>4. one \in [1..1 -> Device]
            BY <6>2, DevicesDiffer
          <6> DEFINE n == 1
          <6>5. n \in Nat \ {0} /\ one \in [1..n -> Device] /\ (family = "melsec" => n = 1)
            BY <6>4
          <6> HIDE DEF one, p, n
          <6> QED BY <6>3, <6>5
        <5> QED BY <5>1, <5>2
      <4>7. Links!Decoded(Links!ReadBytes(r), n) = [j \in 1..n |-> d[j] \in on]
        <5>1. /\ n \in Nat \ {0} /\ d \in [1..n -> Device] /\ Asks(r, d)
              /\ family = "melsec" => n = 1
          BY <4>6
        <5>2. family \in Families
          OBVIOUS
        <5> QED BY ONLY Links!LinkAssumption, <5>1, <5>2, ReadEffect
      <4>8. r.devices = d /\ DOMAIN d = 1..n /\ Len(d) = n
        <5>1. n \in Nat /\ d \in [1..n -> Device] /\ r.devices = d
          BY <4>6 DEF Asks
        <5> QED BY ONLY <5>1, LenProperties
      <4>9. Links!Decoded(replies'[1].bytes, Len(r.devices))
              = [j \in DOMAIN r.devices |-> r.devices[j] \in on']
        BY <4>5, <4>7, <4>8
      <4> QED BY <3>1, <4>3, <4>9 DEF Tells1
    <3> QED BY <1>f, <2>1, <2>5, <3>1, <3>2
  <2> QED BY <2>3, <2>4, <2>5
<1>6. ASSUME Links!TakeReply PROVE ReadInv'
  <2> DEFINE r == todo[1]
             bytes == replies[1].bytes
             n == Len(r.devices)
             reads == Links!Decoded(Head(replies).bytes, Len(Head(todo).devices))
  <2>1. /\ todo # <<>> /\ todo' = Tail(todo) /\ UNCHANGED <<seen, on>> /\ asked /\ ~asked'
        /\ Head(replies).ok
        /\ got' = IF call = "read" THEN got \o reads ELSE got
        /\ \/ Len(todo) > 1 /\ UNCHANGED <<call, result, written, values>>
           \/ Len(todo) = 1 /\ call = "read" /\ Links!Return("read", written)
           \/ Len(todo) = 1 /\ call = "write" /\ Links!Return("ok", Links!Updated)
    BY <1>6 DEF Links!TakeReply, Links!HasAnswer, Links!GoodAnswer
  <2>2. /\ Len(todo) \in Nat \ {0} /\ r = Head(todo) /\ Len(todo') = Len(todo) - 1
        /\ \A m \in 1..Len(todo') : todo'[m] = todo[m + 1]
        /\ r \in LinkRequest /\ 1 \in 1..Len(todo)
    BY <2>1
  <2>3. result # "read" /\ ~Done'
    BY <2>1 DEF ReadInv, Done
  <2> HIDE DEF r, reads
  <2>4. CASE call = "write"
    <3>1. call' \in {"write", "idle"} /\ result' \in {result, "ok"}
      BY <2>1, <2>4 DEF Links!Return
    <3> QED BY <1>d, <2>3, <3>1 DEF ReadInv
  <2>5. CASE call = "read" /\ ~Links!InStep
    <3>1. family = "melsec" /\ ~Links!InStep'
      BY <1>b, <2>5 DEF Links!InStep
    <3>2. result' # "raised" /\ (result' = "read" => call' = "idle")
      BY <2>1, <2>3, <2>5 DEF ReadInv, Links!Return
    <3> QED BY <1>0, <3>1, <3>2 DEF ReadInv, Links!OutputsAreOneMoment, Links!OutputsAreOfThisCall
  <2>6. CASE call = "read" /\ Links!InStep
    <3>1. sent = <<>> /\ Len(replies) = 1 /\ replies[1] = Head(replies)
      BY <1>6, <2>6, AnswerIsOwn DEF Links!TakeReply
    <3>2. Tells(bytes, r) /\ reads = Links!Decoded(bytes, n)
      BY <2>1, <2>2, <2>6, <3>1 DEF ReadInv, Done, r, reads
    <3>3. PICK d : /\ Links!ImageOf(d) \in seen
                   /\ Links!Decoded(bytes, n) = [j \in DOMAIN r.devices |-> r.devices[j] \in d]
      BY <3>2 DEF Tells
    <3> DEFINE now == Links!ImageOf(d)
    <3>4. got' = got \o [j \in DOMAIN r.devices |-> r.devices[j] \in d]
      BY <2>1, <2>6, <3>2, <3>3
    <3>5. now \in seen' /\ \A o \in Links!Outputs : Links!OutputOf(o) \in d <=> o \in now
      BY <2>1, <3>3 DEF Links!ImageOf
    <3>6. Links!ImageOf(on)' \in seen'
      <4>1. Links!ImageOf(on)' = Links!ImageOf(on)
        BY <1>00, <2>1 DEF Links!ImageOf
      <4> QED BY <2>1, <2>6, <4>1 DEF ReadInv
    <3> HIDE DEF bytes, n
    <3>7. CASE family # "melsec"
      <4> DEFINE all == [o \in Links!Outputs |-> Links!OutputOf(o)]
                 bs == [j \in DOMAIN r.devices |-> r.devices[j] \in d]
      <4>1. PICK q : Links!ReadsOf = <<q>> /\ Asks(q, all)
        BY <3>7, ReadsAsk
      <4>2. todo = <<q>> /\ got = <<>>
        BY <2>6, <3>7, <4>1 DEF ReadInv
      <4>3. r.devices = all /\ DOMAIN r.devices = Links!Outputs
        BY <4>1, <4>2 DEF Asks, r
      <4>4. bs \in [1..OutSymbols -> BOOLEAN]
        BY <4>3 DEF Links!Outputs
      <4>5. \A o \in Links!Outputs : bs[o] = (o \in now)
        BY <3>5, <4>3
      <4> HIDE DEF bs
      <4>6. bs \in Seq(BOOLEAN)
        <5> DEFINE m == OutSymbols
        <5>1. m \in Nat /\ bs \in [1..m -> BOOLEAN]
          BY <1>0, <4>4
        <5> HIDE DEF m
        <5> QED BY ONLY <5>1, SeqDef
      <4>7. got' = bs
        BY <3>4, <4>2, <4>6 DEF bs
      <4>8. call' = "idle" /\ result' = "read"
        BY <2>1, <2>6, <4>2 DEF Links!Return
      <4>9. {o \in Links!Outputs : got'[o]} = now
        BY <4>5, <4>7 DEF Links!ImageOf
      <4>10. Links!OutputsAreOneMoment'
        BY <3>5, <4>9 DEF Links!OutputsAreOneMoment
      <4>11. Links!OutputsAreOfThisCall'
        BY <3>5, <4>5, <4>7 DEF Links!OutputsAreOfThisCall
      <4> QED BY <4>8, <4>10, <4>11 DEF ReadInv
    <3>8. CASE family = "melsec"
      <4> DEFINE p == Len(got) + 1
                 one == <<Links!OutputOf(p)>>
                 b == Links!OutputOf(p) \in d
      <4>1. /\ got \in Seq(BOOLEAN) /\ Len(got) + Len(todo) = OutSymbols /\ Len(got) \in Nat
            /\ \A m \in 1..Len(todo) : todo[m] = Links!ReadsOf[Len(got) + m]
            /\ \A o \in 1..Len(got) : \E im \in seen : got[o] = (o \in im)
        BY <2>6, <3>8 DEF ReadInv
      <4>2. p \in Links!Outputs /\ p \in 1..OutSymbols
        BY <1>0, <2>2, <4>1 DEF Links!Outputs
      <4>3. Asks(r, one)
        <5>1. r = Links!ReadsOf[p]
          BY <2>2, <4>1 DEF r
        <5> QED BY <3>8, <4>2, <5>1, ReadsAsk
      <4>4. [j \in DOMAIN r.devices |-> r.devices[j] \in d] = <<b>> /\ b \in BOOLEAN
        <5>1. r.devices = one
          BY <4>3 DEF Asks
        <5>2. [j \in DOMAIN one |-> one[j] \in d] = <<b>>
          OBVIOUS
        <5> HIDE DEF one
        <5> QED BY <5>1, <5>2
      <4>5. got' = Append(got, b)
        <5> HIDE DEF b
        <5>1. got' = got \o <<b>>
          BY <3>4, <4>4
        <5> QED BY <4>1, <4>4, <5>1
      <4>6. /\ got' \in Seq(BOOLEAN) /\ Len(got') = p
            /\ got'[p] = b /\ \A o \in 1..Len(got) : got'[o] = got[o]
        <5> HIDE DEF b
        <5> QED BY <4>1, <4>4, <4>5
      <4>7. ASSUME NEW o \in 1..Len(got') PROVE \E im \in seen' : got'[o] = (o \in im)
        <5>1. CASE o = p
          <6>1. b <=> p \in now
            BY <3>5, <4>2
          <6>2. got'[o] = (o \in now)
            BY <4>6, <5>1, <6>1
          <6> QED BY <3>5, <6>2
        <5>2. CASE o # p
          <6>1. o \in 1..Len(got)
            BY <4>1, <4>6, <5>2
          <6>2. PICK im \in seen : got[o] = (o \in im)
            BY <4>1, <6>1
          <6> QED BY <2>1, <4>6, <6>1, <6>2
        <5> QED BY <5>1, <5>2
      <4>8. Len(got') + Len(todo') = OutSymbols
        BY <2>2, <4>1, <4>6
      <4>9. \A m \in 1..Len(todo') : todo'[m] = Links!ReadsOf[Len(got') + m]
        <5> TAKE m \in 1..Len(todo')
        <5>1. m + 1 \in 1..Len(todo) /\ todo'[m] = todo[m + 1]
          BY <2>2
        <5>2. todo[m + 1] = Links!ReadsOf[Len(got) + (m + 1)]
          BY <4>1, <5>1
        <5>3. Len(got) + (m + 1) = Len(got') + m
          BY <4>1, <4>6
        <5> QED BY <5>1, <5>2, <5>3
      <4> HIDE DEF p, b, one, now
      <4>10. CASE Len(todo) > 1
        <5>1. UNCHANGED <<call, result>>
          BY <2>1, <4>10
        <5> QED BY <1>0, <1>00, <2>3, <2>6, <3>6, <3>8, <4>6, <4>7, <4>8, <4>9, <5>1
                DEF ReadInv, Links!OutputsAreOneMoment, Links!OutputsAreOfThisCall
      <4>11. CASE Len(todo) = 1
        <5>1. call' = "idle" /\ result' = "read"
          BY <2>1, <2>6, <4>11 DEF Links!Return
        <5>2. Len(got') = OutSymbols
          BY <2>2, <4>6, <4>8, <4>11
        <5>3. Links!OutputsAreOneMoment'
          BY <1>0, <3>8 DEF Links!OutputsAreOneMoment
        <5>4. Links!OutputsAreOfThisCall'
          BY <4>7, <5>2 DEF Links!OutputsAreOfThisCall, Links!Outputs
        <5> QED BY <5>1, <5>3, <5>4 DEF ReadInv
      <4> QED BY <2>2, <4>10, <4>11
    <3> QED BY <3>7, <3>8
  <2> QED BY <2>1, <2>4, <2>5, <2>6
<1>7. ASSUME Links!Refused \/ Links!LinkFails PROVE ReadInv'
  <2>1. call' = "idle" /\ result' = "failed"
    BY <1>7 DEF Links!Refused, Links!LinkFails, Links!Fail, Links!Return
  <2> QED BY <1>d, <2>1
<1>8. ASSUME Links!PlcScan PROVE ReadInv'
  <2>1. /\ seen' = IF call = "read" THEN seen \cup {Links!ImageOf(on')} ELSE seen
        /\ UNCHANGED <<sent, replies, asked, call, todo, values, got, result, written>>
    BY <1>8 DEF Links!PlcScan, Links!Watched, Links!line, Links!calling
  <2>2. CASE call = "read" /\ Links!InStep
    <3>1. seen \subseteq seen' /\ Links!ImageOf(on') \in seen'
      BY <2>1, <2>2
    <3>2. Done' => Tells1(replies'[1].bytes, todo[1])
      <4>1. Done' = Done
        BY <2>1 DEF Done
      <4>2. Done => Tells1(replies[1].bytes, todo[1])
        BY <1>e, <2>2, <3>1 DEF ReadInv
      <4> QED BY <2>1, <4>1, <4>2
    <3> QED BY <1>f, <2>1, <2>2, <3>1, <3>2
  <2>3. CASE call # "read"
    BY <1>c, <2>1, <2>3 DEF ReadInv
  <2>4. CASE call = "read" /\ ~Links!InStep
    <3>1. result' # "read" /\ result' # "raised" /\ ~Links!InStep'
      BY <1>b, <2>1, <2>4 DEF ReadInv
    <3> QED BY <3>1 DEF ReadInv, Links!OutputsAreOneMoment, Links!OutputsAreOfThisCall
  <2> QED BY <2>2, <2>3, <2>4
<1> QED BY <1>1, <1>2, <1>3, <1>4, <1>5, <1>6, <1>7, <1>8 DEF Links!Next

----------------------------------------------------------------------------
(* What a link promises holds before its first call. *)
LEMMA LinkStart ==
    ASSUME Links!LinkAssumption, Links!Init
    PROVE  CallInv /\ CommandInv /\ ReadInv
<1>1. /\ todo = <<>> /\ call = "idle" /\ result = "none" /\ family \in Families
      /\ sent = <<>> /\ replies = <<>> /\ asked = FALSE
      /\ values = <<>> /\ written = <<>> /\ got = <<>>
  BY DEF Links!Init
<1>2. DOMAIN values = {} /\ DOMAIN written = {}
  BY <1>1
<1>3. values \in [{} -> BOOLEAN] /\ written \in [{} -> BOOLEAN]
  BY <1>1
<1>4. todo \in Seq(LinkRequest) /\ sent \in Seq(LinkRequest) /\ replies \in Seq(LinkReply)
  BY <1>1
<1>5. CallInv
  BY <1>1, <1>2, <1>3, <1>4 DEF CallInv
<1>6. CommandInv
  BY <1>1, <1>2 DEF CommandInv
<1>7. ReadInv
  BY <1>1 DEF ReadInv, Links!OutputsAreOneMoment, Links!OutputsAreOfThisCall
<1> QED BY <1>5, <1>6, <1>7

(* A step of the field is a step of the link, or leaves it alone. *)
LEMMA LinkSteps == [FieldNext]_fieldVars => [Links!Next]_links
BY DEF FieldNext, ClientRuns, LinkRuns, DriverRuns, fieldVars, links

(* The types of the connection and of the driver, whichever runs. *)
THEOREM FieldTypeCorrect == FieldSpec => []FieldTypeOK
<1>1. FieldInit => Init /\ HalInit
  BY DEF FieldInit
<1>2. [FieldNext]_fieldVars => [Next]_vars /\ [HalNext]_halVars
  BY DEF FieldNext, ClientRuns, LinkRuns, DriverRuns, fieldVars, vars, halVars, moving, socket, image
<1>3. FieldSpec => Spec
  BY <1>1, <1>2, PTL DEF FieldSpec, Spec
<1>4. FieldSpec => HalSpec
  BY <1>1, <1>2, PTL DEF FieldSpec, HalSpec
<1>5. TypeOK /\ DriverTypeOK => FieldTypeOK
  BY DEF FieldTypeOK
<1> QED BY <1>3, <1>4, <1>5, ClientTypeCorrect, DriverTypeCorrect, PTL

(* Between two calls of write_inputs every input whose last write returned *)
(* is at its device, whatever failed in between and however late the       *)
(* device executes the requests of calls that gave up: for every input     *)
(* whose device is no output's, and with MELSEC until a call has left its  *)
(* answer behind.                                                          *)
THEOREM InputsAreKept == FieldSpec => []InputsStayWritten
<1> USE LinksAreMapped
<1> DEFINE Inv == CallInv /\ CommandInv
<1>1. FieldInit => Inv
  BY LinkStart DEF FieldInit
<1>2. Inv /\ [FieldNext]_fieldVars => Inv'
  BY LinkSteps, CallStep, CommandStep
<1>3. Inv => InputsStayWritten
  BY DEF CallInv, CommandInv, InputsStayWritten, Links!InputsStayWritten, Apart, Holds
<1> HIDE DEF Inv
<1> QED BY <1>1, <1>2, <1>3, PTL DEF FieldSpec

(* What read_outputs returns was true of the PLC during the call, of one   *)
(* moment where the link asks once, also when the answers of calls that    *)
(* gave up come late, with MELSEC until there is such an answer; and no    *)
(* mapped call is refused, as long as the symbols fit into one request     *)
(* where the link sends one.                                               *)
THEOREM ReadsTellTheTruth ==
    ASSUME MapsFit
    PROVE  FieldSpec => []ReadsAreTrue
<1> USE LinksAreMapped
<1> DEFINE Inv == CallInv /\ ReadInv
<1>1. FieldInit => Inv
  BY LinkStart DEF FieldInit
<1>2. Inv /\ [FieldNext]_fieldVars => Inv'
  BY LinkSteps, CallStep, ReadStep
<1>3. Inv => ReadsAreTrue
  BY DEF ReadInv, ReadsAreTrue, Links!ReadsAreTrue, Links!MappedCallsReturn
<1> HIDE DEF Inv
<1> QED BY <1>1, <1>2, <1>3, PTL DEF FieldSpec
=============================================================================
