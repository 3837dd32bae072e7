----------------------------- MODULE FieldArena -----------------------------
(***************************************************************************)
(* The bump allocator that stores the fields and elements of GC objects    *)
(* (FieldArena in src/src/gc.zig).  Pages hold PageSlots values; a request *)
(* larger than a page gets a page of its own.  Nothing is freed before the *)
(* whole arena is, so the storage of an object is its slice for ever.      *)
(***************************************************************************)
EXTENDS Integers, Sequences

CONSTANTS
    PageSlots,  \* ARENA_PAGE_SLOTS, 512 in the code
    Sizes,      \* the numbers of fields that are asked for
    MaxArenaPages,   \* bound on the number of pages
    ArenaOom    \* can the host allocator fail?

ASSUME ArenaAssumption ==
    /\ PageSlots \in Nat \ {0}
    /\ Sizes \subseteq Nat
    /\ MaxArenaPages \in Nat
    /\ ArenaOom \in BOOLEAN

VARIABLES
    pages,   \* the length of every page, in the order of pages.items
    cursor,  \* next free position in the current page
    slices   \* history: the non-empty slices handed out to objects

arenaVars == <<pages, cursor, slices>>

ArenaInit ==
    /\ pages = <<>>
    /\ cursor = PageSlots
    /\ slices = {}

Slice(p, start, n) == [page |-> p, start |-> start, n |-> n]

\* Mutant: the dedicated page has the ordinary size.
AllocOversizedSmall(n) ==
    /\ n > PageSlots
    /\ Len(pages) < MaxArenaPages
    /\ pages' = Append(pages, PageSlots)
    /\ slices' = slices \cup {Slice(Len(pages) + 1, 0, n)}
    /\ UNCHANGED cursor

\* n > ARENA_PAGE_SLOTS: a page of exactly n; the cursor keeps its value.
AllocOversized(n) ==
    /\ n > PageSlots
    /\ Len(pages) < MaxArenaPages
    /\ pages' = Append(pages, n)
    /\ slices' = slices \cup {Slice(Len(pages) + 1, 0, n)}
    /\ UNCHANGED cursor

\* Mutant: the cursor of the new page is not moved.
AllocNewPageNoBump(n) ==
    /\ n > 0 /\ n <= PageSlots
    /\ cursor + n > PageSlots
    /\ Len(pages) < MaxArenaPages
    /\ pages' = Append(pages, PageSlots)
    /\ slices' = slices \cup {Slice(Len(pages) + 1, 0, n)}
    /\ cursor' = 0

\* The current page is full: a new one.
AllocNewPage(n) ==
    /\ n > 0 /\ n <= PageSlots
    /\ cursor + n > PageSlots
    /\ Len(pages) < MaxArenaPages
    /\ pages' = Append(pages, PageSlots)
    /\ slices' = slices \cup {Slice(Len(pages) + 1, 0, n)}
    /\ cursor' = n

\* The slice is cut from the LAST page of the list.
AllocBump(n) ==
    /\ n > 0 /\ n <= PageSlots
    /\ cursor + n <= PageSlots
    /\ slices' = slices \cup {Slice(Len(pages), cursor, n)}
    /\ cursor' = cursor + n
    /\ UNCHANGED pages

\* n = 0, the empty slice; or the page, or its entry in pages, cannot be
\* allocated and the error is returned before the cursor moves.
AllocNothing(n) ==
    /\ n = 0 \/ (ArenaOom /\ (n > PageSlots \/ cursor + n > PageSlots))
    /\ UNCHANGED arenaVars

allocFields(n) ==
    AllocOversized(n) \/ AllocNewPage(n) \/ AllocBump(n) \/ AllocNothing(n)

ArenaNext == \E n \in Sizes : allocFields(n)

ArenaSpec == ArenaInit /\ [][ArenaNext]_arenaVars

-----------------------------------------------------------------------------
\* Every variable keeps its type.
ArenaTypeOK ==
    /\ pages \in Seq(Nat)
    /\ cursor \in 0 .. PageSlots
    /\ slices \subseteq [page : Nat, start : Nat, n : Nat]

Overlap(s, t) ==
    /\ s.page = t.page
    /\ s.start < t.start + t.n
    /\ t.start < s.start + s.n

(* No two objects share storage: writing a field of one never changes a    *)
(* field of another.                                                       *)
StorageIsDisjoint == \A s, t \in slices : s = t \/ ~Overlap(s, t)

(* The same until the first request that is larger than a page.            *)
NoOversized == \A i \in 1 .. Len(pages) : pages[i] <= PageSlots
OrdinaryIsDisjoint == NoOversized => StorageIsDisjoint

(* A slice lies inside the page it was cut from.                           *)
SlicesInBounds ==
    \A s \in slices : /\ s.page \in 1 .. Len(pages)
                      /\ s.start + s.n <= pages[s.page]
=============================================================================
