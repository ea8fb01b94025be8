----------------------------- MODULE ReadBuffer -----------------------------
(***************************************************************************)
(* The circular buffer of read_buffer.h and read_buffer.cpp.  Positions    *)
(* are 16-bit counters that run freely; their remainder modulo the size of *)
(* the buffer is an index.  A buffer is a record of its cells and its two  *)
(* positions.  Assertions do not stop the release build, which is modelled *)
(* here.                                                                   *)
(***************************************************************************)
EXTENDS Integers, FiniteSets, Sequences, FiniteSetsExt, SequencesExt

CONSTANTS Size,   \* BUFFER_SIZE
          Wrap    \* the number of values of a position: 2^16

ASSUME RingAssumption ==
    /\ Size \in Nat \ {0} /\ Wrap \in Nat
    /\ Wrap > Size /\ Wrap % Size = 0

Blank == "-"      \* a cell that holds no unread character

rbuf_init == [buf |-> [i \in 0 .. Size - 1 |-> Blank], read |-> 0, write |-> 0]

Mask(p) == p % Size

\* RBUF_READLEN: the difference is cast back to 16 bits.
rbuf_read_remaining(rb)  == (rb.write - rb.read) % Wrap
rbuf_write_remaining(rb) == Size - rbuf_read_remaining(rb)

\* The difference in the first branch is an int and is not reduced.
rbuf_read_to_end(rb) ==
    IF Mask(rb.read) <= Mask(rb.write) THEN rb.write - rb.read
                                       ELSE Size - Mask(rb.read)

rbuf_write_to_end(rb) ==
    IF Mask(rb.write) <= Mask(rb.read) /\ rb.read # rb.write
    THEN Mask(rb.read) - Mask(rb.write)
    ELSE Size - Mask(rb.write)

\* read() into RBUF_WRITE, then RBUF_WRITEMOVE.
Fill(rb, s) ==
    LET i0 == Mask(rb.write)
    IN  [rb EXCEPT !.buf = [i \in DOMAIN @ |-> IF i \in i0 .. i0 + Len(s) - 1
                                               THEN s[i - i0 + 1] ELSE @[i]],
                   !.write = (@ + Len(s)) % Wrap]

\* The indices of the first n cells from the read position on.
Ahead(rb, n) == {Mask(rb.read + i) : i \in 0 .. n - 1}

\* RBUF_READMOVE.  The characters that were read stay in memory, but nothing
\* looks at them again as long as the positions are right: they are forgotten.
Readmove(rb, n) ==
    [rb EXCEPT !.buf = [i \in DOMAIN @ |-> IF i \in Ahead(rb, n) THEN Blank ELSE @[i]],
               !.read = (@ + n) % Wrap]

\* What memcpy or a loop finds at n cells from index i on.
Cells(rb, i, n) ==
    [j \in 1 .. n |-> IF i + j - 1 < Size THEN rb.buf[i + j - 1] ELSE "past"]

\* Mutant: the second part is taken to be as long as the first one was short.
rbuf_copyn_all(rb, n) ==
    LET first == Min({n, rbuf_read_to_end(rb)})
    IN  Cells(rb, Mask(rb.read), first) \o
        (IF first = n THEN <<>>
         ELSE Cells(rb, 0, rbuf_read_remaining(rb) - rbuf_read_to_end(rb)))

\* rbuf_copyn: up to the end of the memory, then from its start.  It asserts that
\* all that is left there is wanted, to_end <= n, which is false whenever the
\* character that ends a name is there too.  The next statement, which the
\* release build goes on with, takes no more than is wanted.
rbuf_copyn(rb, n) ==
    LET first == Min({n, rbuf_read_to_end(rb)})
        rest  == rbuf_read_remaining(rb) - rbuf_read_to_end(rb)
    IN  Cells(rb, Mask(rb.read), first) \o Cells(rb, 0, Min({n - first, rest}))

\* rbuf_cmpn(buffer, with, n) = 0, where with has n characters.
rbuf_cmpn(rb, with) ==
    LET n     == Len(with)
        first == Min({n, rbuf_read_to_end(rb)})
    IN  /\ rbuf_read_remaining(rb) >= n
        /\ Cells(rb, Mask(rb.read), first) = SubSeq(with, 1, first)
        /\ Cells(rb, 0, n - first) = SubSeq(with, first + 1, n)

\* The characters that rbuf_strntol takes for digits.  The count of the ones at
\* the start of the memory is off: the first loop has left n at -1.
rbuf_strntol(rb, max) ==
    LET end == rbuf_read_to_end(rb)
    IN  IF max # -1 /\ max < end THEN Cells(rb, Mask(rb.read), max)
        ELSE Cells(rb, Mask(rb.read), end) \o Cells(rb, 0, rbuf_read_remaining(rb) + 1)

\* RBUF_ITERATE: where its pointer is at its n-th step.  It goes back to the
\* start of the memory at the step whose number is rbuf_read_to_end.
Pointer(rb, n) ==
    LET end == rbuf_read_to_end(rb)
    IN  IF 0 < end /\ end <= n THEN n - end ELSE Mask(rb.read) + n

\* The steps RBUF_ITERATE may take, and the character it looks at.
Steps(rb) == IF rbuf_read_to_end(rb) = 0 THEN {} ELSE 0 .. rbuf_read_remaining(rb) - 1
At(rb, n) == IF Pointer(rb, n) < Size THEN rb.buf[Pointer(rb, n)] ELSE "past"
=============================================================================
