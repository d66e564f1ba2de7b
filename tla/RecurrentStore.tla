---------------------------- MODULE RecurrentStore ----------------------------
(***************************************************************************)
(* What the memory of a recurrent model promises (include/llama.h,         *)
(* llama_memory_* and llama_decode), without cells: each sequence has one  *)
(* state, which is the result of all its tokens.  Sequences share a state  *)
(* from the time they are copied until one of them goes on alone.          *)
(***************************************************************************)
EXTENDS Integers, Sequences

CONSTANTS
  Seqs,    \* sequence ids
  MaxPos,  \* bound on positions
  Shifts,  \* the position shifts the program makes
  Divs     \* the divisors it uses

VARIABLES
  states,  \* set of [seqs, pos, hist]: hist is what the state was computed from
  fed      \* the tokens of the last step: set of [ids, toks], ids in order

vars == <<states, fed>>

Ranges   == {r \in (0 .. MaxPos) \X (-1 .. MaxPos) : r[2] = -1 \/ r[2] > r[1]}
In(p, r) == p >= r[1] /\ (r[2] < 0 \/ p < r[2])
Everything(r) == r[1] = 0 /\ r[2] = -1

NoState    == [seqs |-> {}, pos |-> -1, hist |-> <<>>]
StateOf(s) == IF \E x \in states : s \in x.seqs THEN CHOOSE x \in states : s \in x.seqs ELSE NoState
Without(S) == {x \in {[y EXCEPT !.seqs = @ \ S] : y \in states} : x.seqs # {}}
ToSet(q)   == {q[k] : k \in DOMAIN q}
-----------------------------------------------------------------------------
Init == states = {} /\ fed = {}

Clear == fed' = {} /\ states' = {}

\* A batch is refused, or its computation begins, or fails.
Pass == fed' = {} /\ UNCHANGED states

\* "Removing a whole sequence never fails", a part of one cannot be removed.
Whole(s, r) == r[1] = 0 /\ In(StateOf(s).pos, r)
Rm(s, r) == fed' = {} /\ states' = IF Whole(s, r) THEN Without({s}) ELSE states

Cp(src, dst) ==
  /\ fed' = {}
  /\ states' = {[x EXCEPT !.seqs = IF src \in @ THEN @ \union {dst} ELSE @] : x \in Without({dst})}

Keep(s) == fed' = {} /\ states' = Without(Seqs \ {s})

Move(s, r, to) ==
  /\ fed' = {}
  /\ states' = {IF s \in x.seqs /\ In(x.pos, r) THEN [x EXCEPT !.pos = to] ELSE x : x \in states}
Add(s, r, d) == Move(s, r, StateOf(s).pos + d)
Div(s, r, d) == Move(s, r, StateOf(s).pos \div d)

\* The saved state of src is loaded as dst: a state of its own.
Load(src, dst) ==
  /\ fed' = {}
  /\ StateOf(src) # NoState
  /\ states' = Without({dst}) \union {[StateOf(src) EXCEPT !.seqs = {dst}]}

\* The tokens of ids go on from the state of the first of them.
Decode ==
  /\ fed' # {}
  /\ states' = Without(UNION {ToSet(f.ids) : f \in fed'}) \union
       {[seqs |-> ToSet(f.ids), pos |-> StateOf(f.ids[1]).pos + Len(f.toks),
         hist |-> StateOf(f.ids[1]).hist \o f.toks] : f \in fed'}

Next ==
  \/ Pass \/ Clear \/ Decode
  \/ \E s \in Seqs :
       \/ Keep(s)
       \/ \E t \in Seqs \ {s} : Cp(s, t)
       \/ \E t \in Seqs : Load(s, t)
       \/ \E r \in Ranges : \/ Rm(s, r)
                            \/ \E d \in Shifts : Add(s, r, d)
                            \/ \E d \in Divs : Div(s, r, d)

Spec == Init /\ [][Next]_vars
=============================================================================
