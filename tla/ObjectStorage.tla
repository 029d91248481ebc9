---------------------------- MODULE ObjectStorage ---------------------------
(***************************************************************************)
(* One object of the filesystem storage (storage.py), put and deleted by   *)
(* concurrent callers that may die.  put opens the file, which empties it, *)
(* and writes the payload piece by piece; nothing is renamed into place.   *)
(***************************************************************************)
EXTENDS Naturals, Sequences

CONSTANTS
  Payloads,     \* what is put: sequences of pieces
  Putters,
  Gap           \* what a file has where nothing was written

\* A payload is a sequence of pieces, none of which looks like NoFile.
ASSUME ObjectStorageAssumption == \A p \in Payloads :
  /\ p \in Seq({p[i] : i \in DOMAIN p})
  /\ \A i \in DOMAIN p : p[i] # "none"

VARIABLES
  file,         \* the pieces of the object, or NoFile
  puts,         \* each call of put: its payload, the pieces written, its file
  latest,       \* history: the payload of the put that emptied the file last
  disturbed,    \* history: since then another put was at work, or that one died
  recent        \* history: the payloads of the puts at work then or since

storageVars == <<file, puts, latest, disturbed, recent>>

NoFile == <<"none">>
Idling == [payload |-> <<>>, done |-> 0, linked |-> FALSE]

Putting(w) == puts[w] # Idling
AtWork(w) == Putting(w) /\ puts[w].linked

ObjectStorageTypeOK ==
  /\ puts \in [Putters -> [payload : Payloads \cup {<<>>}, done : Nat, linked : BOOLEAN]]
  /\ \A w \in Putters : puts[w].done <= Len(puts[w].payload)
  /\ latest \in Payloads \cup {<<>>}
  /\ disturbed \in BOOLEAN
  /\ recent \subseteq Payloads \cup {<<>>}

ObjectStorageInit ==
  /\ file = NoFile
  /\ puts = [w \in Putters |-> Idling]
  /\ latest = <<>>
  /\ disturbed = FALSE
  /\ recent = {}

\* Mutant: the file is opened for writing and not emptied.
Emptied_Kept == IF file = NoFile THEN <<>> ELSE file

Emptied == <<>>

\* write_bytes opens the file, made if there is none.
OpenFile(w, payload) ==
  /\ ~Putting(w)
  /\ file' = Emptied
  /\ puts' = [puts EXCEPT ![w] = [payload |-> payload, done |-> 0, linked |-> TRUE]]
  /\ latest' = payload
  /\ disturbed' = \E v \in Putters : AtWork(v)
  /\ recent' = {payload} \cup {puts[v].payload : v \in {v \in Putters : AtWork(v)}}

\* A piece goes to where its writer is, whatever the file has grown or shrunk to.
Placed(n, piece) ==
  [i \in 1..(IF n > Len(file) THEN n ELSE Len(file)) |->
     IF i = n THEN piece ELSE IF i <= Len(file) THEN file[i] ELSE Gap]

WritePiece(w) ==
  /\ Putting(w) /\ puts[w].done < Len(puts[w].payload)
  /\ LET n == puts[w].done + 1 IN
       /\ puts' = [puts EXCEPT ![w].done = n]
       /\ file' = IF puts[w].linked THEN Placed(n, puts[w].payload[n]) ELSE file
  /\ UNCHANGED <<latest, disturbed, recent>>

\* put returns the digest of the payload.
ClosePut(w) ==
  /\ Putting(w) /\ puts[w].done = Len(puts[w].payload)
  /\ puts' = [puts EXCEPT ![w] = Idling]
  /\ UNCHANGED <<file, latest, disturbed, recent>>

\* The process dies or the disk is full.
AbandonPut(w) ==
  /\ Putting(w) /\ puts[w].done < Len(puts[w].payload)
  /\ puts' = [puts EXCEPT ![w] = Idling]
  /\ disturbed' = (disturbed \/ puts[w].linked)
  /\ UNCHANGED <<file, latest, recent>>

\* unlink: who has the file open goes on writing to it, and nobody sees it.
DeleteObject ==
  /\ file # NoFile
  /\ file' = NoFile
  /\ puts' = [w \in Putters |-> [puts[w] EXCEPT !.linked = FALSE]]
  /\ disturbed' = FALSE
  /\ recent' = {}
  /\ UNCHANGED latest

ObjectStorageNext ==
  \/ \E w \in Putters :
       \/ WritePiece(w) \/ ClosePut(w) \/ AbandonPut(w)
       \/ \E payload \in Payloads : OpenFile(w, payload)
  \/ DeleteObject

ObjectStorageSpec == ObjectStorageInit /\ [][ObjectStorageNext]_storageVars

\* What get returns is the whole of the latest payload put and nothing of an older
\* one, once that put is over, if no other put overlapped it and it did not die;
\* and a put that a delete overtook leaves nothing behind (storage.py 48-69).
UndisturbedIsWhole ==
  (\A w \in Putters : ~AtWork(w)) /\ ~disturbed /\ file # NoFile => file = latest

\* Overlapping puts and puts that died may leave a mixture or a part, with gaps, and
\* get returns it all the same; but each piece of it is where a put had it that was at
\* work when the file was last emptied or since: nothing older and nothing of a
\* deleted object comes back (storage.py 48-69).
NothingOlderIsRead ==
  file # NoFile => \A i \in 1..Len(file) :
    file[i] = Gap \/ \E p \in recent : i <= Len(p) /\ file[i] = p[i]

\* A put at work has its payload among the recent ones; if nothing disturbed it, it
\* is the only one, and the file has what it has written.
ObjectStorageIInv ==
  /\ ObjectStorageTypeOK
  /\ UndisturbedIsWhole
  /\ NothingOlderIsRead
  /\ Len(file) \in Nat
  /\ \A w \in Putters : AtWork(w) => file # NoFile /\ puts[w].payload \in recent
  /\ ~disturbed => \A w \in Putters : AtWork(w) =>
       /\ puts[w].payload = latest
       /\ file = [i \in 1..puts[w].done |-> latest[i]]
       /\ \A v \in Putters : AtWork(v) => v = w
=============================================================================
