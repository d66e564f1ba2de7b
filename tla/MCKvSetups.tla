------------------------------ MODULE MCKvSetups ------------------------------
(***************************************************************************)
(* KvCache for TLC, in the other setups a context can be made with, and    *)
(* two of them as a pair (KvPair): each is an instance with constants of   *)
(* its own, and a behaviour is one of the setup it starts with.            *)
(***************************************************************************)
EXTENDS Integers, TLC

CONSTANTS TwoSeqs, Toks, CopyOnto, SharedFails, PrefixFails, AnyRm, LoadPending, PastWindow, LoadFails

VARIABLES cells, head, prefix, data, copies, todo, seen,
          cells2, head2, prefix2, data2, copies2, todo2, seen2,  \* of the second memory, if there is one
          setup
secondVars == <<cells2, head2, prefix2, data2, copies2, todo2, seen2>>
allvars == <<cells, head, prefix, data, copies, todo, seen, secondVars, setup>>

\* Two cells for two sequences, so that they run out, and divisions.
Small == INSTANCE KvCache WITH
  Seqs <- TwoSeqs, Unified <- TRUE, NCells <- 2, SwaType <- "none", NSwa <- 1, PrefixWindow <- 0, PrefixCap <- 0,
  NUbatch <- 1, MaxBatch <- 2, MaxPos <- 2, Shifts <- {-1}, Divs <- {2}, MaxCopies <- 1

\* A stream per sequence, and up to two pending copies between them.
PerSeq == INSTANCE KvCache WITH
  Seqs <- TwoSeqs, Unified <- FALSE, NCells <- 2, SwaType <- "none", NSwa <- 1, PrefixWindow <- 0, PrefixCap <- 0,
  NUbatch <- 2, MaxBatch <- 1, MaxPos <- 1, Shifts <- {-1}, Divs <- {}, MaxCopies <- 2

\* A sliding window, with cells that are reused.
Window == INSTANCE KvCache WITH
  Seqs <- TwoSeqs, Unified <- TRUE, NCells <- 3, SwaType <- "standard", NSwa <- 2, PrefixWindow <- 0, PrefixCap <- 0,
  NUbatch <- 2, MaxBatch <- 1, MaxPos <- 2, Shifts <- {}, Divs <- {}, MaxCopies <- 1

\* One sequence with a prefix of at most one token and a window of two behind it, that goes
\* round in the cells.
Prefix == INSTANCE KvCache WITH
  Seqs <- {0}, Unified <- FALSE, NCells <- 4, SwaType <- "none", NSwa <- 1, PrefixWindow <- 2, PrefixCap <- 1,
  NUbatch <- 2, MaxBatch <- 3, MaxPos <- 6, Shifts <- {}, Divs <- {}, MaxCopies <- 1

\* Two sequences with a prefix of at most one token, and what is copied or loaded between them.
Prefixes == INSTANCE KvCache WITH
  Seqs <- TwoSeqs, Unified <- FALSE, NCells <- 3, SwaType <- "none", NSwa <- 1, PrefixWindow <- 1, PrefixCap <- 1,
  NUbatch <- 2, MaxBatch <- 1, MaxPos <- 1, Shifts <- {}, Divs <- {}, MaxCopies <- 1

\* A cache without a window and one with a window that goes round in three cells, for one
\* sequence.
Pair == INSTANCE KvPair WITH
  Seqs <- {0}, Unified <- TRUE, BaseCells <- 4, SwaType <- "standard", NSwa <- 2,
  NUbatch <- 1, MaxBatch <- 2, MaxPos <- 3, Shifts <- {}, Divs <- {}, MaxCopies <- 1,
  swa_cells <- cells2, swa_head <- head2, swa_prefix <- prefix2, swa_data <- data2,
  swa_copies <- copies2, swa_todo <- todo2, swa_seen <- seen2

\* Such a pair for two sequences that run out of cells, in one stream (shifted and divided,
\* too) or in one each.
PairFull == INSTANCE KvPair WITH
  Seqs <- TwoSeqs, Unified <- TRUE, BaseCells <- 2, SwaType <- "standard", NSwa <- 2,
  NUbatch <- 2, MaxBatch <- 1, MaxPos <- 1, Shifts <- {-1}, Divs <- {2}, MaxCopies <- 1,
  swa_cells <- cells2, swa_head <- head2, swa_prefix <- prefix2, swa_data <- data2,
  swa_copies <- copies2, swa_todo <- todo2, swa_seen <- seen2

PairStreams == INSTANCE KvPair WITH
  Seqs <- TwoSeqs, Unified <- FALSE, BaseCells <- 1, SwaType <- "standard", NSwa <- 1,
  NUbatch <- 2, MaxBatch <- 1, MaxPos <- 1, Shifts <- {}, Divs <- {}, MaxCopies <- 1,
  swa_cells <- cells2, swa_head <- head2, swa_prefix <- prefix2, swa_data <- data2,
  swa_copies <- copies2, swa_todo <- todo2, swa_seen <- seen2

\* A KV cache and a recurrent memory for two sequences, with one cell less than they need;
\* and for one sequence that is moved and divided.
Hybrid == INSTANCE MemoryHybrid WITH
  Size <- 2, AttnCells <- 3, NUbatch <- 2, MaxPos <- 1, Shifts <- {}, Divs <- {}, EmbdModes <- BOOLEAN,
  Shapes <- {<<<<0>>>>, <<<<0, 1>>>>, <<<<1>>, <<0>>, <<1>>>>}, TokOf <- <<"b">> @@ 0 :> "a",
  AnyRmAll <- FALSE, Parts <- FALSE,
  recr_cells <- cells2, recr_head <- head2, recr_used <- prefix2, recr_data <- data2,
  recr_todo <- todo2, recr_batch <- copies2, recr_fed <- seen2

HybridMoved == INSTANCE MemoryHybrid WITH
  Size <- 1, AttnCells <- 2, NUbatch <- 2, MaxPos <- 1, Shifts <- {-1, 1}, Divs <- {2}, EmbdModes <- {FALSE},
  Shapes <- {<<<<0>>>>}, TokOf <- 0 :> "a",
  AnyRmAll <- FALSE, Parts <- FALSE,
  recr_cells <- cells2, recr_head <- head2, recr_used <- prefix2, recr_data <- data2,
  recr_todo <- todo2, recr_batch <- copies2, recr_fed <- seen2

Pairs  == {"pair", "pairfull", "pairstreams", "hybrid", "hybridmoved"}
Setups == {"small", "perseq", "window", "prefix", "prefixes"} \union Pairs

\* Every setup starts with an empty cache.
Init == /\ setup \in Setups
        /\ setup = "small"  => Small!Init
        /\ setup = "perseq" => PerSeq!Init
        /\ setup = "window" => Window!Init
        /\ setup = "prefix" => Prefix!Init
        /\ setup = "prefixes" => Prefixes!Init
        /\ setup = "pair" => Pair!Init
        /\ setup = "pairfull" => PairFull!Init
        /\ setup = "pairstreams" => PairStreams!Init
        /\ setup = "hybrid" => Hybrid!Init
        /\ setup = "hybridmoved" => HybridMoved!Init
        /\ setup \notin Pairs =>
             /\ cells2 = "none" /\ head2 = "none" /\ prefix2 = "none" /\ data2 = "none"
             /\ copies2 = "none" /\ todo2 = "none" /\ seen2 = "none"

Next == /\ \/ setup = "small"  /\ Small!Next
           \/ setup = "perseq" /\ PerSeq!Next
           \/ setup = "window" /\ Window!Next
           \/ setup = "prefix" /\ Prefix!Next
           \/ setup = "prefixes" /\ Prefixes!Next
           \/ setup = "pair" /\ Pair!Next
           \/ setup = "pairfull" /\ PairFull!Next
           \/ setup = "pairstreams" /\ PairStreams!Next
           \/ setup = "hybrid" /\ Hybrid!Next
           \/ setup = "hybridmoved" /\ HybridMoved!Next
        /\ setup \notin Pairs => UNCHANGED secondVars
        /\ UNCHANGED setup

Spec == Init /\ [][Next]_allvars
-----------------------------------------------------------------------------
(***************************************************************************)
(* The properties of KvCache, in the setups that put them at risk.         *)
(***************************************************************************)
\* Used cells and position counts agree with the cells after every call; keys are rotated
\* to the positions of their cells and belong to tokens that were computed, whenever the
\* copies between streams and the shifts are made.
CellsSound == /\ setup = "small"    => Small!CountsExact
              /\ setup = "perseq"   => PerSeq!CountsExact /\ PerSeq!KeysFollow /\ PerSeq!NoGarbage
              /\ setup = "window"   => Window!CountsExact /\ Window!KeysFollow
              /\ setup = "prefix"   => Prefix!CountsExact
              /\ setup = "prefixes" => Prefixes!CountsExact /\ Prefixes!KeysFollow /\ Prefixes!NoGarbage
              /\ setup = "pair"     => Pair!Swa!CountsExact /\ Pair!Swa!KeysFollow

\* A decode behind a prefix finds room, however often the window has gone round.
RoomBehindPrefix == /\ setup = "prefix" => Prefix!RoomBehindPrefix
                    /\ setup = "prefixes" => Prefixes!RoomBehindPrefix

\* And it attends to the whole prefix and the whole window, and leaves them whole.
PrefixWhole == [][CASE setup = "prefix"   -> Prefix!PrefixStays
                    [] setup = "prefixes" -> Prefixes!PrefixStays
                    [] OTHER              -> TRUE]_allvars

\* Computing a micro-batch leaves no gap in the positions of a sequence, although a
\* window lets it overwrite cells.
NoGaps == [][CASE setup = "window" -> Window!KeepsGapless
               [] setup = "pair"   -> Pair!Swa!KeepsGapless
               [] OTHER            -> TRUE]_allvars

\* The two memories of a pair do not drift apart: layers of both kinds see the same text.
InStep == /\ setup = "pair" => Pair!InStep
          /\ setup = "pairfull" => PairFull!InStep
          /\ setup = "pairstreams" => PairStreams!InStep
          /\ setup = "hybrid" => Hybrid!InStep
          /\ setup = "hybridmoved" => HybridMoved!InStep

\* The cache implements the store: what a token attends to is what the calls say, in
\* whatever stream and cells it is.
SetupsImplement == [][CASE setup = "perseq"   -> PerSeq!StoreStep
                        [] setup = "window"   -> Window!StoreStep
                        [] setup = "prefix"   -> Prefix!StoreStep
                        [] setup = "prefixes" -> Prefixes!StoreStep
                        [] setup = "pair"     -> Pair!Swa!StoreStep
                        [] OTHER              -> TRUE]_allvars

=============================================================================
