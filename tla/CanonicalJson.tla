---------------------------- MODULE CanonicalJson ----------------------------
(***************************************************************************)
(* canonical.py: which JSON texts loads_strict accepts, the value it makes *)
(* of one, and the text of a value that sha256_json hashes.  A text is a   *)
(* tree in which an object is the sequence of its members as they are      *)
(* written and a leaf is spelled as the author spelled it; a value keeps   *)
(* the order of the members, as a Python dictionary does, but of the leaf  *)
(* and of the key only what it stands for: 1.0 and 1e0 are one float, -0   *)
(* is the integer 0, an escaped character is the character.                *)
(*                                                                         *)
(* A behaviour loads a text and then another one, and compares what is     *)
(* hashed of them.                                                         *)
(***************************************************************************)
EXTENDS Integers, Sequences, SequencesExt

CONSTANTS
  Texts,     \* [t |-> "atom", v |-> a spelling], [t |-> "list", v |-> a sequence of texts]
             \* and [t |-> "object", v |-> a sequence of <<spelling of a key, text>>]
  loaded,    \* loaded[a]: the number, string or constant that json.loads makes of a
  dumped,    \* dumped[x]: the one spelling in which json.dumps writes a finite x
  KeyOrder,  \* the keys that are loaded, in the order in which sort_keys puts them
  NonFinite  \* NaN, the infinities, and what a number that overflows a float becomes

\* What is written is read back: repr of a float is exact, and so is the escape of a string.
ASSUME DumpedIsLoaded ==
  \A a \in DOMAIN loaded :
    loaded[a] \in NonFinite \/ loaded[dumped[loaded[a]]] = loaded[a]

VARIABLES first, second, pc

vars == <<first, second, pc>>

Unread == [t |-> "unread", v |-> <<>>]

Children(text) ==
  CASE text.t = "list"   -> ToSet(text.v)
    [] text.t = "object" -> {text.v[i][2] : i \in DOMAIN text.v}
    [] OTHER             -> {}

Key(member) == loaded[member[1]]

\* _reject_duplicate_keys, called for each object with the keys that were loaded
RepeatsKey(text) ==
  /\ text.t = "object"
  /\ \E i, j \in DOMAIN text.v : i # j /\ Key(text.v[i]) = Key(text.v[j])

\* _reject_constant and assert_finite
IsNonFinite(text) == text.t = "atom" /\ loaded[text.v] \in NonFinite

RECURSIVE Rejects(_)
Rejects(text) ==
  \/ RepeatsKey(text)
  \/ IsNonFinite(text)
  \/ \E child \in Children(text) : Rejects(child)

\* The value that json.loads makes of a text.
RECURSIVE load(_)
load(text) ==
  [t |-> text.t,
   v |-> CASE text.t = "atom"   -> loaded[text.v]
           [] text.t = "list"   -> [i \in DOMAIN text.v |-> load(text.v[i])]
           [] text.t = "object" -> [i \in DOMAIN text.v |->
                                      <<Key(text.v[i]), load(text.v[i][2])>>]]

\* Mutant: members stay in the order in which they were loaded.
MembersAsLoaded(value) == value.v

\* The members of an object with sort_keys.
Members(value) ==
  SelectSeq([k \in DOMAIN KeyOrder |->
               IF \E i \in DOMAIN value.v : value.v[i][1] = KeyOrder[k]
               THEN value.v[CHOOSE i \in DOMAIN value.v : value.v[i][1] = KeyOrder[k]]
               ELSE <<>>],
            LAMBDA member : member # <<>>)

\* The tokens of the canonical text of a value.
RECURSIVE canonical_dumps(_)
canonical_dumps(value) ==
  CASE value.t = "atom" -> <<dumped[value.v]>>
    [] value.t = "list" ->
         <<"[">> \o FlattenSeq([i \in DOMAIN value.v |-> canonical_dumps(value.v[i])]) \o <<"]">>
    [] value.t = "object" ->
         <<"{">> \o FlattenSeq([i \in DOMAIN Members(value) |->
                      <<dumped[Members(value)[i][1]], ":">> \o canonical_dumps(Members(value)[i][2])])
                 \o <<"}">>

-----------------------------------------------------------------------------
Init ==
  /\ first \in Texts
  /\ second = Unread
  /\ pc = "read"

\* loads_strict: a text that is not accepted ends the command.
LoadFirst ==
  /\ pc = "read"
  /\ pc' = IF Rejects(first) THEN "rejected" ELSE "loaded"
  /\ UNCHANGED <<first, second>>

LoadSecond ==
  /\ pc = "loaded"
  /\ second' \in Texts
  /\ pc' = IF Rejects(second') THEN "rejected" ELSE "hashed"
  /\ UNCHANGED first

Next == LoadFirst \/ LoadSecond

Spec == Init /\ [][Next]_vars

-----------------------------------------------------------------------------
\* What a text says: an object is a function from its keys to what is said of each.
RECURSIVE Meaning(_)
Meaning(text) ==
  CASE text.t = "atom"   -> [t |-> "atom", v |-> loaded[text.v]]
    [] text.t = "list"   -> [t |-> "list", v |-> [i \in DOMAIN text.v |-> Meaning(text.v[i])]]
    [] text.t = "object" ->
         [t |-> "object",
          v |-> [k \in {Key(text.v[i]) : i \in DOMAIN text.v} |->
                   {Meaning(text.v[i][2]) : i \in {j \in DOMAIN text.v : Key(text.v[j]) = k}}]]

\* Two accepted documents have one hash exactly when they say the same: neither the order
\* in which members are written, at any depth, nor the spelling of a number, a string or a
\* key (1e0 for 1.0, -0 for 0, an escape) counts, and everything else does: the order of a
\* list, a member that is missing, the float 1.0 for the integer 1.  No two things are said
\* of one key, however it is spelled, of which the hash would know only one.
HashIsTheValue ==
  pc = "hashed" =>
    (canonical_dumps(load(first)) = canonical_dumps(load(second))
       <=> Meaning(first) = Meaning(second))
=============================================================================
