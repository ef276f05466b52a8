---------------------------- MODULE IndexPaging ----------------------------
(***************************************************************************)
(* The paginated index views: get_farmer_policies, get_distributor_        *)
(* policies and get_org_obligations are one algorithm over an append-only  *)
(* index of ids.  A reader walks it page by page, each page starting where *)
(* the last one ended, while sales, mints and settlements append to it.    *)
(***************************************************************************)
EXTENDS Naturals, Sequences, SequencesExt

CONSTANTS
    MAX_PAGE_SIZE,
    U32_MAX,        \* the largest u32
    MaxIndex        \* bound: the longest index

ASSUME PagingAssumption ==
    MAX_PAGE_SIZE \in Nat \ {0} /\ U32_MAX \in Nat \ {0} /\ MaxIndex \in 0 .. U32_MAX

VARIABLES
    index,          \* the ids, under keys 0 .. count - 1 in the code
    limit,          \* the page size the reader asks for
    walked          \* what it has collected

pagingVars == <<index, limit, walked>>

saturating_add_Wrapping(a, b) == (a + b) % (U32_MAX + 1)   \* mutant: wrapping add

saturating_add(a, b) == Min({a + b, U32_MAX})

PageEnd(start, n, count) ==
    Min({saturating_add(start, Min({n, MAX_PAGE_SIZE})), count})

Page_FromLast(start, n) ==        \* mutant: the last id of a page read again
    SubSeq(index, IF start = 0 THEN 1 ELSE start, PageEnd(start, n, Len(index)))

(* Items start .. end - 1, counted from zero; none when start is past it.  *)
Page(start, n) == SubSeq(index, start + 1, PageEnd(start, n, Len(index)))

get_farmer_policies(start, n) == Page(start, n)

get_distributor_policies(start, n) == Page(start, n)

get_org_obligations(start, n) == IF start >= Len(index) THEN << >> ELSE Page(start, n)

(* Any limit but zero, which asks for nothing.                             *)
PagingInit == index = << >> /\ walked = << >> /\ limit \in 1 .. U32_MAX

(* A sale, a mint, or a recorded obligation.                               *)
AppendToIndex ==
    /\ Len(index) < MaxIndex
    /\ index' = Append(index, Len(index) + 1)
    /\ UNCHANGED <<limit, walked>>

ReadPage ==
    /\ \E read \in {get_farmer_policies(Len(walked), limit),
                    get_distributor_policies(Len(walked), limit),
                    get_org_obligations(Len(walked), limit)} :
          walked' = walked \o read
    /\ UNCHANGED <<index, limit>>

-----------------------------------------------------------------------------
(* Whatever limits the reader asks for and however the index grows between *)
(* two pages, what it collected is the head of the index: no id twice,     *)
(* none skipped, none out of order.                                        *)
WalkIsExact == IsPrefix(walked, index)

(* A reader that keeps asking gets the whole index, up to the last id a    *)
(* u32 can count.                                                          *)
WalkCompletes == <>[](walked = index)
=============================================================================
