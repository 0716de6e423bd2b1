------------------------------ MODULE Allocator ------------------------------
(***************************************************************************)
(* The device allocator (app/memory_map.py, DeviceAllocator): symbols get   *)
(* addresses, fixed ones as the specification spells them, the others the   *)
(* next free index of their device letter.  Two dictionaries, one in each   *)
(* direction, and one index per letter are its whole state.                 *)
(*                                                                         *)
(* An address is a string in the code, [letter, index, spelling] here: the  *)
(* profile's own format is spelling "own" (P0003), anything else that names *)
(* the same device (P3, p0003) is "other".  Strings are compared, so two    *)
(* spellings are two addresses.                                             *)
(***************************************************************************)
EXTENDS Naturals

CONSTANTS Points,       \* symbols of the specification's I/O points
          Hints,        \* hints relays are asked for with
          Profile,      \* role -> device letter (VendorProfile.role_letter)
          MaxIndex,     \* bound: highest index handed out
          None

VARIABLES addrOf,       \* _symbol_to_addr
          symOf,        \* _addr_to_symbol
          nextIndex,    \* _next_index, 0 for a letter never asked for
          answer        \* what the last call returned, None when it raised

allocVars == <<addrOf, symOf, nextIndex, answer>>

Roles == {"INPUT", "OUTPUT", "INTERNAL", "TIMER", "COUNTER"}
Letters == {Profile[r] : r \in Roles}
Addresses == [letter: Letters, index: 0..MaxIndex, spelling: {"own", "other"}]

(* _AUX_<hint> for n = 0, _AUX_<hint>_<n> after it *)
Relays == {"_AUX_"} \X Hints \X (0..MaxIndex)
Names == Points \cup Relays

ASSUME AllocatorAssumption ==
  /\ MaxIndex \in Nat
  /\ Profile \in [Roles -> STRING]
  /\ None \notin Names \cup Addresses

(* role_of: a P device is an output only when it says so *)
RoleOf(class, direction) ==
  IF class = "P" THEN IF direction = "OUTPUT" THEN "OUTPUT" ELSE "INPUT"
  ELSE CASE class = "M" -> "INTERNAL" [] class = "T" -> "TIMER" [] OTHER -> "COUNTER"

IndexKey(class, direction) == Profile[RoleOf(class, direction)]
FormatAddress(key, idx) == [letter |-> key, index |-> idx, spelling |-> "own"]

AllocInit ==
  /\ addrOf = [s \in Names |-> None]
  /\ symOf = [a \in Addresses |-> None]
  /\ nextIndex = [l \in Letters |-> 0]
  /\ answer = None

(* Mutation: the owner of the address is not looked at. *)
ClaimUnchecked(symbol, address) ==
  /\ addrOf' = [addrOf EXCEPT ![symbol] = address]
  /\ symOf' = [symOf EXCEPT ![address] = symbol]
  /\ answer' = address

Claim(symbol, address) ==
  IF symOf[address] \notin {None, symbol}
  THEN answer' = None /\ UNCHANGED <<addrOf, symOf>>
  ELSE /\ addrOf' = [addrOf EXCEPT ![symbol] = address]
       /\ symOf' = [symOf EXCEPT ![address] = symbol]
       /\ answer' = address

(* an index the loop of allocate stops at: the first one not taken *)
FirstFree(key, idx) ==
  /\ idx >= nextIndex[key]
  /\ symOf[FormatAddress(key, idx)] = None
  /\ \A j \in 0..MaxIndex :
       nextIndex[key] <= j /\ j < idx => symOf[FormatAddress(key, j)] # None

Advance(key, idx) == nextIndex' = [nextIndex EXCEPT ![key] = idx + 1]

(* Mutation: the cache is not consulted for a symbol without a fixed address. *)
AllocateAnew(symbol, class, fixed, direction) ==
  \/ fixed # None /\ Claim(symbol, fixed) /\ UNCHANGED nextIndex
  \/ /\ fixed = None
     /\ \E idx \in 0..MaxIndex :
          /\ FirstFree(IndexKey(class, direction), idx)
          /\ Advance(IndexKey(class, direction), idx)
          /\ Claim(symbol, FormatAddress(IndexKey(class, direction), idx))

Allocate(symbol, class, fixed, direction) ==
  \/ /\ addrOf[symbol] # None
     /\ answer' = IF fixed \in {None, addrOf[symbol]} THEN addrOf[symbol] ELSE None
     /\ UNCHANGED <<addrOf, symOf, nextIndex>>
  \/ /\ addrOf[symbol] = None /\ fixed # None
     /\ Claim(symbol, fixed)
     /\ UNCHANGED nextIndex
  \/ /\ addrOf[symbol] = None /\ fixed = None
     /\ \E idx \in 0..MaxIndex :
          /\ FirstFree(IndexKey(class, direction), idx)
          /\ Advance(IndexKey(class, direction), idx)
          /\ Claim(symbol, FormatAddress(IndexKey(class, direction), idx))

(* allocate_internal_relay: the first suffix no symbol has yet *)
UnusedRelay(hint, n) ==
  /\ addrOf[<<"_AUX_", hint, n>>] = None
  /\ \A m \in 0..MaxIndex : m < n => addrOf[<<"_AUX_", hint, m>>] # None

AllocateRelay(hint) ==
  \E n \in 0..MaxIndex :
     /\ UnusedRelay(hint, n)
     /\ Allocate(<<"_AUX_", hint, n>>, "M", None, "OUTPUT")

AllocNext ==
  \/ \E symbol \in Points, class \in {"P", "M", "T", "C"},
        fixed \in Addresses \cup {None}, direction \in {"INPUT", "OUTPUT"} :
        Allocate(symbol, class, fixed, direction)
  \/ \E hint \in Hints : AllocateRelay(hint)

AllocSpec == AllocInit /\ [][AllocNext]_allocVars

-----------------------------------------------------------------------------
AllocTypeOK ==
  /\ addrOf \in [Names -> Addresses \cup {None}]
  /\ symOf \in [Addresses -> Names \cup {None}]
  /\ nextIndex \in [Letters -> 0..(MaxIndex + 1)]

(* The two dictionaries are inverse to each other, so no two symbols have the same address, *)
(* whatever fixed and automatic requests came in which order (hazard at memory_map.py:63).  *)
OneToOne ==
  /\ \A s \in Names : addrOf[s] # None => symOf[addrOf[s]] = s
  /\ \A a \in Addresses : symOf[a] # None => addrOf[symOf[a]] = a

(* A symbol keeps the address it was given: programs already emitted with it stay right *)
(* (DeviceAllocator docstring, the cache of allocate).                                  *)
AddressesAreStable ==
  [][\A s \in Names : addrOf[s] # None => addrOf'[s] = addrOf[s]]_allocVars

(* The docstring's promise that symbols and devices are one to one: no two symbols name the *)
(* same device.  Broken by a fixed address spelled another way than the profile's format.   *)
DevicesAreNotShared ==
  \A s, t \in Names :
     addrOf[s] # None /\ addrOf[t] # None
       /\ addrOf[s].letter = addrOf[t].letter /\ addrOf[s].index = addrOf[t].index
     => s = t
=============================================================================
