------------------------------- MODULE Mfiles -------------------------------
(***************************************************************************)
(* Many files over few descriptors: tcptrace-src/mfiles.c.  When no        *)
(* descriptor is free the file used least recently is closed; its position *)
(* is kept for the next use.  A file is a sequence of cells.               *)
(***************************************************************************)
EXTENDS Integers, Sequences, SequencesExt, FiniteSets

CONSTANTS
    Files,            \* bound: the files a run may write
    Descriptors       \* streams the process may have open for them

ASSUME MfilesAssumption == IsFiniteSet(Files) /\ Descriptors \in Nat \ {0}

Null == -1
Hole == -2

\* What the module keeps, and the disk: the contents of a file, the position of
\* its stream (Null: no stream), the position it was closed at, the open list
\* from the least to the most recently used, and whether a list was followed to
\* a file without a stream.
Minit ==
    [disk |-> [f \in Files |-> <<>>], stream |-> [f \in Files |-> Null],
     fptr |-> [f \in Files |-> 0], lru |-> <<>>, crashed |-> FALSE]

\* A file is in one place of the lists at most.
Without(seq, f) ==
    IF \E k \in DOMAIN seq : seq[k] = f
    THEN RemoveAt(seq, CHOOSE k \in DOMAIN seq : seq[k] = f) ELSE seq
Mf_unlink(m, f) == [m EXCEPT !.lru = Without(@, f)]
Mf_totail(m, f) == [m EXCEPT !.lru = Append(@, f)]

NoneFree(m) == Cardinality({f \in Files : m.stream[f] # Null}) >= Descriptors

\* Faulty variant of M_closeold: the position is not kept.
M_closeoldForgetting(m) ==
    IF m.lru = <<>> \/ m.stream[Head(m.lru)] = Null THEN [m EXCEPT !.crashed = TRUE]
    ELSE LET old == Head(m.lru)
         IN  Mf_unlink([m EXCEPT !.stream[old] = Null], old)

M_closeold(m) ==
    IF m.lru = <<>> \/ m.stream[Head(m.lru)] = Null THEN [m EXCEPT !.crashed = TRUE]
    ELSE LET old == Head(m.lru)
         IN  Mf_unlink([m EXCEPT !.fptr[old] = m.stream[old], !.stream[old] = Null], old)

\* "w" truncates, "r+" does not; both go to where the file was closed.
Freed(m) == IF NoneFree(m) THEN M_closeold(m) ELSE m
Mfopen_internal(m, f, mode) ==
    [Freed(m) EXCEPT !.stream[f] = m.fptr[f], !.disk[f] = IF mode = "w" THEN <<>> ELSE @]

Mfopen(m, f) == Mf_totail(Mfopen_internal(m, f, "w"), f)

Mcheck(m, f) ==
    LET open == IF m.stream[f] = Null THEN Mfopen_internal(m, f, "r+") ELSE m
    IN  IF open.lru # <<>> /\ Last(open.lru) = f THEN open
        ELSE Mf_totail(Mf_unlink(open, f), f)

\* Writing behind the end of a file leaves a hole.
Put(data, pos, cells) ==
    [k \in 1..(IF Len(data) > pos + Len(cells) THEN Len(data) ELSE pos + Len(cells)) |->
        IF k > pos /\ k <= pos + Len(cells) THEN cells[k - pos]
        ELSE IF k <= Len(data) THEN data[k] ELSE Hole]

Mfwrite(m, f, cells) ==
    LET open == Mcheck(m, f)
    IN  [open EXCEPT !.disk[f] = Put(@, open.stream[f], cells),
                     !.stream[f] = @ + Len(cells)]
Mfprintf(m, f, line) == Mfwrite(m, f, <<line>>)

Mftell(m, f) == Mcheck(m, f).stream[f]
Mfseek(m, f, pos) == [Mcheck(m, f) EXCEPT !.stream[f] = pos]
Mfclose(m, f) == [Mcheck(m, f) EXCEPT !.stream[f] = Null]
=============================================================================
