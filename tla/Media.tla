--------------------------------- MODULE Media ---------------------------------
(***************************************************************************)
(* Audio clips and sprites (apps/media over platform/storage): a row in the*)
(* database and bytes in a directory, which can come apart.  An upload is  *)
(* received into <id>.partial, renamed to <id>, and then its row is added; *)
(* a delete removes the row and then the bytes; serving finds the row and  *)
(* then opens the bytes.  A mix opens clips, runs a tool in a directory of *)
(* its own and uploads what comes out.  Any of these may meet a crash of   *)
(* the process, which leaves files where they are.                         *)
(*                                                                         *)
(* Bytes are counted in chunks; a declared type and what the first bytes   *)
(* look like stand for the rest of the contents.  A file that is open can  *)
(* be read to its end whatever happens to its name.                        *)
(***************************************************************************)
EXTENDS Integers, Sequences

CONSTANTS
  Request,          \* uploads and mixes under way
  Caller,           \* clients being served, and authors deleting
  Id,               \* what uuid4 gives out, once each
  LIMIT,            \* the most chunks a file may have
  MAX_TRACKS,
  Absent


VARIABLES
  row,        \* audio_clip and sprite: the row of each id, or Absent
  partial,    \* how much of each <id>.partial there is, or Absent
  bytes,      \* how much of each <id> there is, or Absent
  jobs,       \* the requests whose mixing directory is there
  at,         \* where each request is
  ask,        \* where each caller is
  used,       \* the ids given out
  doubtful,   \* auxiliary: ids whose row was added and whose answer was lost
  stranded    \* auxiliary: ids and requests that a crash found under way

vars == <<row, partial, bytes, jobs, at, ask, used, doubtful, stranded>>

Kind == {"audio", "sprite"}
Idle == [pc |-> "idle"]

MediaAssumption ==
  /\ {LIMIT, MAX_TRACKS} \subseteq Nat \ {0}
  /\ Absent \notin Nat /\ Absent \notin [kind : Kind, size : Nat]

Init ==
  /\ row = [i \in Id |-> Absent]
  /\ partial = [i \in Id |-> Absent] /\ bytes = [i \in Id |-> Absent]
  /\ jobs = {}
  /\ at = [r \in Request |-> Idle]
  /\ ask = [c \in Caller |-> Idle]
  /\ used = {} /\ doubtful = {} /\ stranded = {}
-----------------------------------------------------------------------------
AUDIO_TYPES == {"ogg"}
IMAGE_TYPES == {"png", "jpeg"}
allowed(kind) == IF kind = "audio" THEN AUDIO_TYPES ELSE IMAGE_TYPES

(* The label must be one of few; for a sprite the first bytes must agree. *)
accept_declared(kind, declared) == declared \in allowed(kind)
accept_content(kind, declared, head) == kind = "audio" \/ head = declared

(* receive_file: what may be wrong with a form before its file has begun. *)
framing(faults) == faults \cap {"not_multipart", "no_boundary", "malformed", "no_file"}

(* read_mix: a name, and some tracks, not too many, each a clip and a gain. *)
read_mix(tracks, faults) ==
  Len(tracks) \in 1..MAX_TRACKS /\ faults \cap {"no_name", "not_an_id", "not_a_gain"} = {}

Fresh == Id \ used
-----------------------------------------------------------------------------
(* accept: the label, a new id, and an empty file beside its name. *)
Begin(r, i, kind, declared) ==
  /\ accept_declared(kind, declared) /\ i \in Fresh
  /\ used' = used \cup {i}
  /\ partial' = [partial EXCEPT ![i] = 0]
  /\ at' = [at EXCEPT ![r] = [pc |-> "receive", id |-> i, kind |-> kind, declared |-> declared]]

Upload(r, i, kind, declared, faults) ==
  /\ at[r].pc = "idle" /\ framing(faults) = {}
  /\ Begin(r, i, kind, declared)
  /\ UNCHANGED <<row, bytes, jobs, ask, doubtful, stranded>>

(* Mutant: the limit is compared with what was there before the chunk. *)
fits_Late(written) == written <= LIMIT

(* What the writer asks before it writes another chunk. *)
fits(written) == written + 1 <= LIMIT

Receive(r) ==
  /\ at[r].pc = "receive" /\ fits(partial[at[r].id])
  /\ partial' = [partial EXCEPT ![at[r].id] = @ + 1]
  /\ UNCHANGED <<row, bytes, jobs, at, ask, used, doubtful, stranded>>

(* Too large, a form that breaks off, a client that goes away, an empty      *)
(* file, bytes that are not what they were called: abort.                   *)
Abort(r) ==
  /\ at[r].pc = "receive"
  /\ partial' = [partial EXCEPT ![at[r].id] = Absent]
  /\ jobs' = jobs \ {r}
  /\ at' = [at EXCEPT ![r] = Idle]
  /\ UNCHANGED <<row, bytes, ask, used, doubtful, stranded>>

(* finish: not empty, and what it says it is; then fsync and rename. *)
Finish(r, head) ==
  LET i == at[r].id
  IN /\ at[r].pc = "receive" /\ partial[i] > 0
     /\ accept_content(at[r].kind, at[r].declared, head)
     /\ bytes' = [bytes EXCEPT ![i] = partial[i]]
     /\ partial' = [partial EXCEPT ![i] = Absent]
     /\ at' = [at EXCEPT ![r].pc = "add"]
     /\ UNCHANGED <<row, jobs, ask, used, doubtful, stranded>>

(* Mutant: bytes whose row was refused are left where they are. *)
AddRow_Leaving(r) ==
  LET i == at[r].id
  IN /\ at[r].pc = "add"
     /\ row' \in {row, [row EXCEPT ![i] = [kind |-> at[r].kind, size |-> bytes[i]]]}
     /\ jobs' = jobs \ {r}
     /\ at' = [at EXCEPT ![r] = Idle]
     /\ UNCHANGED <<bytes, partial, ask, used, doubtful, stranded>>

(* The row is added, or it is not and the bytes are removed.  A commit that  *)
(* was not heard of is taken for one that failed.                           *)
AddRow(r) ==
  LET i == at[r].id
      added == [row EXCEPT ![i] = [kind |-> at[r].kind, size |-> bytes[i]]]
  IN /\ at[r].pc = "add"
     /\ \/ row' = added /\ UNCHANGED <<bytes, doubtful>>
        \/ row' = row /\ bytes' = [bytes EXCEPT ![i] = Absent] /\ doubtful' = doubtful
        \/ /\ row' = added
           /\ bytes' = [bytes EXCEPT ![i] = Absent]
           /\ doubtful' = doubtful \cup {i}
     /\ jobs' = jobs \ {r}
     /\ at' = [at EXCEPT ![r] = Idle]
     /\ UNCHANGED <<partial, ask, used, stranded>>
-----------------------------------------------------------------------------
Mix(r, tracks, faults) ==
  /\ at[r].pc = "idle" /\ read_mix(tracks, faults)
  /\ at' = [at EXCEPT ![r] = [pc |-> "resolve", todo |-> tracks]]
  /\ UNCHANGED <<row, partial, bytes, jobs, ask, used, doubtful, stranded>>

(* The next track is found in the catalogue and opened, or there is no mix. *)
Resolve(r) ==
  /\ at[r].pc = "resolve" /\ at[r].todo # <<>>
  /\ LET i == Head(at[r].todo)
         found == row[i] # Absent /\ row[i].kind = "audio" /\ bytes[i] # Absent
     IN at' = [at EXCEPT ![r] = IF found THEN [at[r] EXCEPT !.todo = Tail(at[r].todo)] ELSE Idle]
  /\ UNCHANGED <<row, partial, bytes, jobs, ask, used, doubtful, stranded>>

Run(r) ==
  /\ at[r].pc = "resolve" /\ at[r].todo = <<>>
  /\ jobs' = jobs \cup {r}
  /\ at' = [at EXCEPT ![r] = [pc |-> "run"]]
  /\ UNCHANGED <<row, partial, bytes, ask, used, doubtful, stranded>>

(* Mutant: the directory is removed only after a mix that came out. *)
StopRun_Littering(r) ==
  /\ at[r].pc = "run"
  /\ at' = [at EXCEPT ![r] = Idle]
  /\ UNCHANGED <<row, partial, bytes, jobs, ask, used, doubtful, stranded>>

(* The tool fails, makes nothing or too much, or is killed at its time limit. *)
StopRun(r) ==
  /\ at[r].pc = "run"
  /\ jobs' = jobs \ {r}
  /\ at' = [at EXCEPT ![r] = Idle]
  /\ UNCHANGED <<row, partial, bytes, ask, used, doubtful, stranded>>

Mixed(r, i) ==
  /\ at[r].pc = "run"
  /\ Begin(r, i, "audio", "ogg")
  /\ UNCHANGED <<row, bytes, jobs, ask, doubtful, stranded>>
-----------------------------------------------------------------------------
(* Mutant: the bytes go first. *)
Remove_BytesFirst(c, kind, i) ==
  /\ ask[c].pc = "idle" /\ row[i] # Absent /\ row[i].kind = kind
  /\ bytes' = [bytes EXCEPT ![i] = Absent]
  /\ ask' = [ask EXCEPT ![c] = [pc |-> "unlink", id |-> i]]
  /\ UNCHANGED <<row, partial, jobs, at, used, doubtful, stranded>>

(* delete: the row, in a statement of its own that finds it or is a 404 ... *)
Remove(c, kind, i) ==
  /\ ask[c].pc = "idle" /\ row[i] # Absent /\ row[i].kind = kind
  /\ row' = [row EXCEPT ![i] = Absent]
  /\ ask' = [ask EXCEPT ![c] = [pc |-> "unlink", id |-> i]]
  /\ UNCHANGED <<partial, bytes, jobs, at, used, doubtful, stranded>>

(* ... and then the bytes, if they are there. *)
Unlink(c) ==
  /\ ask[c].pc = "unlink"
  /\ bytes' = [bytes EXCEPT ![ask[c].id] = Absent]
  /\ ask' = [ask EXCEPT ![c] = Idle]
  /\ UNCHANGED <<row, partial, jobs, at, used, doubtful, stranded>>

(* _serve: the row, then the bytes.  A row whose bytes are gone is a 404. *)
Find(c, kind, i) ==
  /\ ask[c].pc = "idle" /\ row[i] # Absent /\ row[i].kind = kind
  /\ ask' = [ask EXCEPT ![c] = [pc |-> "open", id |-> i, size |-> row[i].size]]
  /\ UNCHANGED <<row, partial, bytes, jobs, at, used, doubtful, stranded>>

Open(c) ==
  /\ ask[c].pc = "open"
  /\ ask' = [ask EXCEPT ![c] = IF bytes[@.id] = Absent THEN Idle
                               ELSE [pc |-> "stream", size |-> @.size, holds |-> bytes[@.id]]]
  /\ UNCHANGED <<row, partial, bytes, jobs, at, used, doubtful, stranded>>

Served(c) ==
  /\ ask[c].pc = "stream"
  /\ ask' = [ask EXCEPT ![c] = Idle]
  /\ UNCHANGED <<row, partial, bytes, jobs, at, used, doubtful, stranded>>

(* The process dies.  Nothing looks for its leftovers when it starts again. *)
Crash ==
  /\ stranded' = stranded \cup jobs \cup {at[r].id : r \in {q \in Request : "id" \in DOMAIN at[q]}}
                   \cup {ask[c].id : c \in {d \in Caller : ask[d].pc = "unlink"}}
  /\ at' = [r \in Request |-> Idle]
  /\ ask' = [c \in Caller |-> Idle]
  /\ UNCHANGED <<row, partial, bytes, jobs, used, doubtful>>

Tracks == [1..1 -> Id] \cup [1..2 -> Id]

Next ==
  \/ \E r \in Request :
       \/ \E i \in Fresh, kind \in Kind, declared \in AUDIO_TYPES \cup IMAGE_TYPES \cup {"svg"} :
            \E faults \in {{}, {"no_boundary"}} : Upload(r, i, kind, declared, faults)
       \/ Receive(r) \/ Abort(r) \/ AddRow(r)
       \/ \E head \in IMAGE_TYPES \cup {"markup"} : Finish(r, head)
       \/ \E tracks \in Tracks, faults \in {{}, {"not_a_gain"}} : Mix(r, tracks, faults)
       \/ Resolve(r) \/ Run(r) \/ StopRun(r) \/ \E i \in Fresh : Mixed(r, i)
  \/ \E c \in Caller : \/ \E kind \in Kind, i \in Id : Remove(c, kind, i) \/ Find(c, kind, i)
                       \/ Unlink(c) \/ Open(c) \/ Served(c)
  \/ Crash

Spec == Init /\ [][Next]_vars
-----------------------------------------------------------------------------
(* "A row that is never written leaves bytes nobody can name; the reverse    *)
(* would be a row that serves a 404": every row has its bytes, all of them   *)
(* and no more than the limit, and what is streamed is what the row says,   *)
(* through crashes and deletes, unless a commit went unheard.               *)
RowsHaveBytes ==
  /\ \A i \in Id \ doubtful : row[i] # Absent => bytes[i] = row[i].size /\ bytes[i] \in 1..LIMIT
  /\ \A c \in Caller : ask[c].pc = "stream" => ask[c].holds = ask[c].size

(* "Every refusal leaves nothing behind": when nothing is under way, every  *)
(* file but those a crash stranded is the bytes of a row.                   *)
NothingLeftBehind ==
  (\A r \in Request : at[r].pc = "idle") /\ (\A c \in Caller : ask[c].pc # "unlink") =>
    /\ jobs \subseteq stranded
    /\ \A i \in Id \ stranded :
         partial[i] = Absent /\ (bytes[i] # Absent => row[i] # Absent)
=============================================================================
