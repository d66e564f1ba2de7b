------------------------------- MODULE KvStore -------------------------------
(***************************************************************************)
(* What the KV cache promises (include/llama.h, llama_memory_* and         *)
(* llama_decode), without cells: it is a set of tokens, each at a position *)
(* and in one or more sequences.  A token that is decoded attends to the   *)
(* tokens of its sequence up to its own position, rotated to where they    *)
(* are now.  With a sliding window the cache may forget what no later      *)
(* token of the sequence can attend to.                                    *)
(***************************************************************************)
EXTENDS Integers

CONSTANTS
  Seqs,     \* sequence ids
  Unified,  \* do the sequences share tokens, or has each its own stream?
  SwaType,  \* "none", "standard" or "chunked"
  NSwa,     \* size of the window
  PrefixWindow,  \* prefix sliding: size of the window behind the prefix, 0 without it
  PrefixCap,     \* and how long a prefix may be
  MaxPos,   \* bound on positions
  Shifts,   \* the position shifts the program makes
  Divs      \* the divisors it uses

VARIABLES
  tokens,   \* set of [tok, pos, seqs]
  prefix,   \* per sequence the end of what is always attended to, -1 if not set
  seen      \* <<s, p, C>>: the tokens C that the token at p in s, decoded by the
            \* last step, attends to

vars == <<tokens, prefix, seen>>

\* llama_hparams::is_masked_swa: does a token at p1 not attend to one at p0?
is_masked_swa(p0, p1) ==
  CASE SwaType = "none"     -> FALSE
    [] SwaType = "standard" -> p1 - p0 >= NSwa
    [] SwaType = "chunked"  -> p0 < (p1 \div NSwa) * NSwa

\* Nor does it with prefix sliding, between the prefix and the window.
Masked(s, p0, p1) == \/ is_masked_swa(p0, p1)
                     \/ PrefixWindow > 0 /\ prefix[s] <= p0 /\ p0 < p1 - PrefixWindow + 1

\* Ranges [p0, p1) of positions as the functions take them: p1 = -1 has no end.
Ranges == {r \in (0 .. MaxPos) \X (-1 .. MaxPos) : r[2] = -1 \/ r[2] > r[1]}
In(p, r) == p >= r[1] /\ (r[2] < 0 \/ p < r[2])

Present(T)   == {t \in T : t.seqs # {} /\ t.pos >= 0}
Last(s)      == CHOOSE p \in {-1} \union {t.pos : t \in {t \in tokens : s \in t.seqs}} :
                  \A t \in tokens : s \in t.seqs => t.pos <= p
Attended(T, s, p) == {<<t.tok, t.pos>> :
  t \in {t \in T : s \in t.seqs /\ t.pos <= p /\ ~Masked(s, t.pos, p)}}
-----------------------------------------------------------------------------
NoPrefix == [s \in Seqs |-> -1]
Init == tokens = {} /\ prefix = NoPrefix /\ seen = {}

Clear == seen' = {} /\ tokens' = {} /\ prefix' = NoPrefix

SetPrefix(s, p) ==
  /\ PrefixWindow > 0
  /\ prefix' = [prefix EXCEPT ![s] = p]
  /\ seen' = {} /\ UNCHANGED tokens

\* A prefix that something is removed from ends there.
Lowered(S, r) == [s \in Seqs |-> CASE s \in S /\ r = <<0, -1>>     -> -1
                                   [] s \in S /\ r[1] < prefix[s] -> r[1]
                                   [] OTHER                       -> prefix[s]]

\* Of one sequence, or of all.
Rm(S, r) ==
  /\ seen' = {}
  /\ prefix' = Lowered(S, r)
  /\ tokens' = Present({[t EXCEPT !.seqs = IF In(t.pos, r) THEN @ \ S ELSE @] : t \in tokens})

\* The copy joins the tokens of src, or replaces the whole stream of dst.
Cp(src, dst, r) ==
  /\ seen' = {}
  /\ prefix' = [prefix EXCEPT ![dst] = IF PrefixWindow > 0 THEN prefix[src] ELSE @]
  /\ tokens' =
       IF Unified
       THEN {[t EXCEPT !.seqs = IF src \in @ /\ In(t.pos, r) THEN @ \union {dst} ELSE @] : t \in tokens}
       ELSE {t \in tokens : dst \notin t.seqs}
              \union {[t EXCEPT !.seqs = {dst}] : t \in {t \in tokens : src \in t.seqs}}

\* Other sequences are removed from the stream of s, with a prefix from all streams.
Keep(s) ==
  /\ seen' = {}
  /\ prefix' = [x \in Seqs |-> IF x = s \/ PrefixWindow = 0 THEN prefix[x] ELSE -1]
  /\ tokens' = Present({[t EXCEPT !.seqs = IF Unified \/ PrefixWindow > 0 THEN @ \intersect {s} ELSE @] :
                         t \in tokens})

\* A token in several sequences moves in all of them.
Add(s, r, d) ==
  /\ seen' = {} /\ UNCHANGED prefix
  /\ tokens' = Present({[t EXCEPT !.pos = IF s \in t.seqs /\ In(@, r) THEN @ + d ELSE @] : t \in tokens})

Div(s, r, d) ==
  /\ seen' = {} /\ UNCHANGED prefix
  /\ tokens' = {[t EXCEPT !.pos = IF s \in t.seqs /\ In(@, r) THEN @ \div d ELSE @] : t \in tokens}

\* What the next token of the sequence cannot attend to anyway.
Forgettable == {ts \in tokens \X Seqs :
  ts[2] \in ts[1].seqs /\ Masked(ts[2], ts[1].pos, Last(ts[2]) + 1)}
Remembered(F) == Present({[t EXCEPT !.seqs = {s \in @ : <<t, s>> \notin F}] : t \in tokens})

Forget == seen' = {} /\ UNCHANGED prefix /\ \E F \in SUBSET Forgettable : tokens' = Remembered(F)

\* What was saved of src is loaded as dst, which has tokens of its own then.
Load(src, dst) ==
  /\ seen' = {}
  /\ prefix' = [prefix EXCEPT ![dst] = prefix[src]]
  /\ \E F \in SUBSET Forgettable :
       tokens' = Present({[t EXCEPT !.seqs = @ \ {dst}] : t \in Remembered(F)})
                   \union {[t EXCEPT !.seqs = {dst}] : t \in {t \in tokens : src \in t.seqs}}

\* Some new tokens at the end of their sequences.
Decode ==
  /\ seen' # {}
  /\ UNCHANGED prefix
  /\ \E F \in SUBSET Forgettable, new \in SUBSET tokens' :
       /\ \A t \in new : \A s \in t.seqs : t.pos > Last(s)
       /\ tokens' = Remembered(F) \union new
       /\ seen' = UNION {{<<s, t.pos, Attended(tokens', s, t.pos)>> : s \in t.seqs} : t \in new}

Next ==
  \/ Clear \/ Forget \/ Decode
  \/ \E r \in Ranges :
       \/ Rm(Seqs, r)
       \/ \E s \in Seqs :
            \/ Rm({s}, r)
            \/ \E d \in Shifts : Add(s, r, d)
            \/ \E d \in Divs : Div(s, r, d)
            \/ \E t \in Seqs \ {s} : Cp(s, t, r)
  \/ \E s \in Seqs : \/ Keep(s)
                     \/ \E p \in 0 .. PrefixCap : SetPrefix(s, p)
                     \/ \E t \in Seqs \ {s} : Load(s, t)

Spec == Init /\ [][Next]_vars
=============================================================================
