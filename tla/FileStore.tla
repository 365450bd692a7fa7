----------------------------- MODULE FileStore ------------------------------
(***************************************************************************)
(* bdk_file_store: changesets appended to one file (store.rs) and read     *)
(* back by EntryIter (entry_iter.rs).                                      *)
(*                                                                         *)
(* The file after its magic bytes is a sequence of cells.  A record with   *)
(* value v, a sequence of changesets merged into one, takes Size(v) cells; *)
(* a cell names its record and its place in it.  Writes go to the file     *)
(* unbuffered and in order, so an append that fails or is cut off by a     *)
(* crash of the process leaves a prefix of its cells.                      *)
(***************************************************************************)
EXTENDS Naturals, Sequences, SequencesExt

CONSTANTS
  Changeset,    \* non-empty changesets
  Cells,        \* the number of cells each takes
  Bogus,        \* what misaligned bytes may decode to
  None,
  MaxWrites     \* bound on the number of appends

ASSUME FileStoreAssumption ==
  /\ Cells \in [Changeset \cup {Bogus} -> Nat \ {0}]
  /\ Bogus \notin Changeset
  /\ MaxWrites \in Nat

VARIABLES
  disk,     \* "absent", "short" (not even the magic bytes) or "store"
  file,     \* the cells after the magic bytes
  open,     \* whether a Store is open on the file
  pos,      \* the file offset of the open Store
  dump,     \* the changeset of the last StoreErrorWithDump, None when it is handled
  done,     \* history: the changesets whose cells were all written, in order
  failed,   \* history: some append returned an error and the Store stayed in use
  writes    \* appends so far

vars == <<disk, file, open, pos, dump, done, failed, writes>>

Size(v) ==
  LET sum[i \in 0..Len(v)] == IF i = 0 THEN 0 ELSE sum[i-1] + Cells[v[i]] IN sum[Len(v)]
Record(v) == [i \in 1..Size(v) |-> [value |-> v, at |-> i]]

(* Writing cells at an offset: what was there is overwritten. *)
Write(f, p, cells) ==
  [i \in 1..(IF p + Len(cells) > Len(f) THEN p + Len(cells) ELSE Len(f)) |->
     IF p < i /\ i <= p + Len(cells) THEN cells[i - p] ELSE f[i]]

-----------------------------------------------------------------------------
(* Reading: EntryIter decodes records from the start. *)

IsLast(cell) == cell.at = Size(cell.value)

(* What may come after a cell: the next of its record, or the first of another. *)
Continues(cell, next) ==
  IF IsLast(cell) THEN next.at = 1 ELSE next = [cell EXCEPT !.at = @ + 1]

(* The first n cells are whole records one after the other. *)
WholeRecords(f, n) ==
  /\ n > 0 => (f[1].at = 1 /\ IsLast(f[n]))
  /\ \A i \in 1..(n - 1) : Continues(f[i], f[i+1])

(* The end of the last whole record before an offset, reading from the start. *)
EndBefore(f, p) ==
  CHOOSE n \in 0..p : WholeRecords(f, n) /\ \A m \in 0..p : WholeRecords(f, m) => m <= n
DecodableEnd(f) == EndBefore(f, Len(f))

(* The changesets aggregated so far, when reading stops at n. *)
ValuesUpTo(f, n) ==
  LET read[i \in 0..n] ==
        IF i = 0 THEN << >> ELSE read[i-1] \o (IF f[i].at = 1 THEN f[i].value ELSE << >>)
  IN read[n]
Values(f) == ValuesUpTo(f, DecodableEnd(f))

(* The bytes after the decodable part are the beginning of one record: they  *)
(* end in UnexpectedEof for certain.  Other bytes may decode to anything.    *)
IsTruncated(f) ==
  LET n == DecodableEnd(f) IN
    /\ n < Len(f)
    /\ f[n+1].at = 1
    /\ \A i \in (n+1)..Len(f) : f[i] = [value |-> f[n+1].value, at |-> i - n]

(* The outcomes of Store::dump: aggregated changesets, final offset, error. *)
DumpOutcomes(f) ==
  LET n == DecodableEnd(f) IN
    IF n = Len(f) THEN {[values |-> Values(f), end |-> n, error |-> FALSE]}
    ELSE {[values |-> Values(f), end |-> n, error |-> TRUE]} \cup
         (IF IsTruncated(f) THEN {}
          ELSE {[values |-> Append(Values(f), Bogus), end |-> e, error |-> e < Len(f)] :
                  e \in (n+1)..Len(f)})

-----------------------------------------------------------------------------

Init ==
  /\ disk = "absent" /\ file = << >>
  /\ open = FALSE /\ pos = 0 /\ dump = None
  /\ done = << >> /\ failed = FALSE /\ writes = 0

(* Store::create. *)
Create ==
  /\ ~open /\ disk = "absent"
  /\ disk' = "store" /\ file' = << >>
  /\ open' = TRUE /\ pos' = 0
  /\ UNCHANGED <<dump, done, failed, writes>>

(* The process dies after create_new and before the magic bytes are out. *)
CrashInCreate ==
  /\ ~open /\ disk = "absent"
  /\ disk' = "short"
  /\ UNCHANGED <<file, open, pos, dump, done, failed, writes>>

CountWrite == writes < MaxWrites /\ writes' = writes + 1

(* Store::append of a changeset that is not empty. *)
AppendOk(c) ==
  /\ open
  /\ CountWrite
  /\ file' = Write(file, pos, Record(<<c>>))
  /\ pos' = pos + Cells[c]
  /\ done' = Append(done, c)
  /\ UNCHANGED <<disk, open, dump, failed>>

(* The write returns an io::Error after k cells; the caller goes on. *)
AppendFails(c, k) ==
  /\ open
  /\ CountWrite
  /\ k < Cells[c]
  /\ file' = Write(file, pos, SubSeq(Record(<<c>>), 1, k))
  /\ pos' = pos + k
  /\ failed' = TRUE
  /\ UNCHANGED <<disk, open, dump, done>>

(* The process dies during an append; with all cells written the changeset is *)
(* there although the caller never heard so.                                  *)
CrashInAppend(c, k) ==
  /\ open
  /\ CountWrite
  /\ k <= Cells[c]
  /\ file' = Write(file, pos, SubSeq(Record(<<c>>), 1, k))
  /\ open' = FALSE
  /\ done' = IF k = Cells[c] THEN Append(done, c) ELSE done
  /\ UNCHANGED <<disk, pos, dump, failed>>

Close ==
  /\ open
  /\ open' = FALSE
  /\ UNCHANGED <<disk, file, pos, dump, done, failed, writes>>

(* Store::dump on an open store: the offset ends up where reading stopped. *)
Dump(r) ==
  /\ open
  /\ pos' = r.end
  /\ UNCHANGED <<disk, file, open, dump, done, failed, writes>>

(* Faulty variant: the offset is left at the start. *)
LoadRewound(r) ==
  /\ ~open /\ disk = "store" /\ dump = None
  /\ open' = ~r.error
  /\ pos' = 0
  /\ dump' = IF r.error THEN r.values ELSE None
  /\ UNCHANGED <<disk, file, done, failed, writes>>

(* Store::load: an open store, or an error with what could be read. *)
Load(r) ==
  /\ ~open /\ disk = "store" /\ dump = None
  /\ open' = ~r.error
  /\ pos' = r.end
  /\ dump' = IF r.error THEN r.values ELSE None
  /\ UNCHANGED <<disk, file, done, failed, writes>>

LoadShort ==
  /\ ~open /\ disk = "short" /\ dump = None
  /\ dump' = << >>
  /\ UNCHANGED <<disk, file, open, pos, done, failed, writes>>

(* Faulty variant: the dumped changeset is not written back. *)
RecoverEmpty ==
  /\ ~open /\ dump # None
  /\ disk' = "store"
  /\ file' = << >>
  /\ open' = TRUE
  /\ pos' = 0
  /\ dump' = None
  /\ UNCHANGED <<done, failed, writes>>

(* The recovery that the documentation of load gives: a new file holding the  *)
(* dumped changeset takes the place of the broken one (rename is atomic) and  *)
(* is loaded.  Store::append writes nothing when there is no changeset.       *)
Recover ==
  /\ ~open /\ dump # None
  /\ disk' = "store"
  /\ file' = Record(dump)
  /\ open' = TRUE
  /\ pos' = Size(dump)
  /\ dump' = None
  /\ UNCHANGED <<done, failed, writes>>

Next ==
  \/ Create \/ CrashInCreate
  \/ \E c \in Changeset : AppendOk(c)
  \/ \E c \in Changeset : \E k \in 0..Cells[c] : AppendFails(c, k) \/ CrashInAppend(c, k)
  \/ Close
  \/ \E r \in DumpOutcomes(file) : Dump(r) \/ Load(r)
  \/ LoadShort
  \/ Recover

Spec == Init /\ [][Next]_vars

-----------------------------------------------------------------------------
(* Properties. *)

(* As long as no append reported an error, reading the file gives exactly the *)
(* changesets that were written, through any number of crashes in the middle  *)
(* of an append and recoveries.                                               *)
NothingLostByCrashes == ~failed => Values(file) = done

(* Whatever fails, what lies before the offset of the open Store stays        *)
(* readable, in the same order, and so does everything readable while no      *)
(* Store is open: garbage never reaches back.  Nothing more is true of an     *)
(* open Store.  Writes truncate nothing, so that after a failed append and a  *)
(* dump a record of the same length can make the records behind the garbage   *)
(* readable again, and the next append overwrites those.                      *)
ReadableStaysReadable ==
  [][IsPrefix(ValuesUpTo(file, EndBefore(file, IF open THEN pos ELSE Len(file))), Values(file'))]_vars

=============================================================================
