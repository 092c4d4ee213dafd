------------------------------- MODULE Capture -------------------------------
(***************************************************************************)
(* The capture hooks of one coding session.  Each hook is a process of its *)
(* own: it takes the prompt from stdin, or reads the transcript from the   *)
(* session's byte offset on; it writes to memory, or to the local buffer   *)
(* when that fails, and it saves the offset and the turn count.  A replay  *)
(* reads the buffer, writes every entry to memory and rewrites the file.   *)
(* The coding CLI is taken to wait for a hook before it fires the next;    *)
(* the transcript and a replay go on beside it.                            *)
(*                                                                         *)
(* The transcript is the number of assistant lines in it.  A message id is *)
(* the turn and the event it is hashed from.                               *)
(***************************************************************************)
EXTENDS Integers, Sequences, FiniteSets

CONSTANTS
  Hooks,        \* the hook processes, 1..n in the order they are started
  MaxLines,     \* bound on the transcript
  BufferLimit,  \* entries that make the buffer file reach MAX_BYTES
  KeepAll,      \* MAX_ENTRIES / 2: a buffer this short is not truncated
  WriteFaults   \* how a write to memory may fail

ASSUME CaptureAssumption ==
  /\ IsFiniteSet(Hooks) /\ Hooks = 1..Cardinality(Hooks) /\ MaxLines \in Nat
  /\ BufferLimit \in Nat \ {0} /\ KeepAll \in Nat
  /\ WriteFaults \subseteq {"refused", "unanswered"}

VARIABLES
  transcript,  \* assistant lines written so far
  hook,        \* each hook process
  offset,      \* the offsets file: byte_offset and turn_count
  buffer,      \* pending.jsonl
  memory,      \* the writes that memory took
  replay,      \* the replay process
  truncated,   \* history: entries the limit of the buffer has cost
  queued,      \* history: entries that have been put into the buffer
  raced,       \* history: entries put there while a replay was sending
  flushed      \* history: lines that appeared while a response hook ran

histVars == <<truncated, queued, raced, flushed>>
captureVars == <<transcript, hook, offset, buffer, memory, replay, histVars>>

Events == {"prompt", "response"}

\* The CLI fires its hooks in turn.
Event(p) == IF p % 2 = 1 THEN "prompt" ELSE "response"

\* What a response says is the lines it took; a prompt is known by its hook.
Captures == [prompt : Hooks \cup {0}, lines : SUBSET (1..MaxLines)]
NoContent == [prompt |-> 0, lines |-> {}]
Entries == [turn : 0..Cardinality(Hooks), event : Events, content : Captures]

NewHook == [at |-> "new", content |-> NoContent, turn |-> 0, byte |-> 0]
NoReplay == [at |-> "idle", todo |-> <<>>, failed |-> <<>>]

CaptureInit ==
  /\ transcript = 0
  /\ hook = [p \in Hooks |-> NewHook]
  /\ offset = [byte |-> 0, turn |-> 0]
  /\ buffer = <<>> /\ memory = {} /\ truncated = {} /\ queued = {} /\ raced = {} /\ flushed = {}
  /\ replay = NoReplay

Running(p) == hook[p].at \notin {"new", "ended"}
Entry(p) == [turn |-> hook[p].turn, event |-> Event(p), content |-> hook[p].content]
Elements(s) == {s[i] : i \in DOMAIN s}

-----------------------------------------------------------------------------

\* The assistant says something, and the CLI flushes it to the transcript.
Speak ==
  /\ transcript < MaxLines
  /\ transcript' = transcript + 1
  /\ flushed' = IF \E p \in Hooks : Event(p) = "response" /\ Running(p)
                THEN flushed \cup {transcript'} ELSE flushed
  /\ UNCHANGED <<hook, offset, buffer, memory, replay, truncated, queued, raced>>

MayStart(p) ==
  /\ hook[p].at = "new"
  /\ p - 1 \in Hooks => hook[p - 1].at # "new"
  /\ ~\E q \in Hooks : Running(q)

StartPrompt(p) ==
  /\ MayStart(p) /\ Event(p) = "prompt"
  /\ hook' = [hook EXCEPT ![p].at = "load",
                          ![p].content = [prompt |-> p, lines |-> {}]]
  /\ UNCHANGED <<transcript, offset, buffer, memory, replay, histVars>>

\* Mutant of NewLines: the transcript is read from its beginning.
AllLines == 1..transcript

\* diff_transcript
NewLines == (offset.byte + 1)..transcript

\* A response that finds nothing, twice, writes nothing.
StartResponse(p) ==
  /\ MayStart(p) /\ Event(p) = "response"
  /\ hook' = [hook EXCEPT ![p].at = IF NewLines = {} THEN "ended" ELSE "load",
                          ![p].content = [prompt |-> 0, lines |-> NewLines]]
  /\ UNCHANGED <<transcript, offset, buffer, memory, replay, histVars>>

\* Mutant of Load: a prompt does not begin a turn.
LoadSameTurn(p) ==
  /\ hook[p].at = "load"
  /\ hook' = [hook EXCEPT ![p].at = "send", ![p].byte = offset.byte,
                          ![p].turn = offset.turn]
  /\ UNCHANGED <<transcript, offset, buffer, memory, replay, histVars>>

\* offset::load; a prompt begins a turn.
Load(p) ==
  /\ hook[p].at = "load"
  /\ hook' = [hook EXCEPT ![p].at = "send", ![p].byte = offset.byte,
       ![p].turn = IF Event(p) = "prompt" THEN offset.turn + 1 ELSE offset.turn]
  /\ UNCHANGED <<transcript, offset, buffer, memory, replay, histVars>>

\* Mutant of Send: a refused write counts as done.
SendUnchecked(p) ==
  /\ hook[p].at = "send"
  /\ hook' = [hook EXCEPT ![p].at = "save"]
  /\ \/ memory' = memory \cup {Entry(p)}
     \/ "refused" \in WriteFaults /\ UNCHANGED memory
  /\ UNCHANGED <<transcript, offset, buffer, replay, histVars>>

\* memory_write: taken, refused, or taken without an answer.
Send(p) ==
  /\ hook[p].at = "send"
  /\ \/ /\ memory' = memory \cup {Entry(p)}
        /\ hook' = [hook EXCEPT ![p].at = "save"]
     \/ /\ "refused" \in WriteFaults
        /\ hook' = [hook EXCEPT ![p].at = "enqueue"]
        /\ UNCHANGED memory
     \/ /\ "unanswered" \in WriteFaults
        /\ memory' = memory \cup {Entry(p)}
        /\ hook' = [hook EXCEPT ![p].at = "enqueue"]
  /\ UNCHANGED <<transcript, offset, buffer, replay, histVars>>

\* After a response was written, the offset is the length the transcript has
\* by now; otherwise the one that was loaded.
Save(p) ==
  /\ hook[p].at \in {"save", "save_turn"}
  /\ offset' = [byte |-> IF Event(p) = "response" THEN transcript ELSE hook[p].byte,
                turn |-> hook[p].turn]
  /\ hook' = [hook EXCEPT ![p].at = "ended"]
  /\ UNCHANGED <<transcript, buffer, memory, replay, histVars>>

\* truncate_buffer: the older half goes.
Truncated(b) ==
  IF Len(b) >= BufferLimit /\ Len(b) > KeepAll
  THEN SubSeq(b, Len(b) \div 2 + 1, Len(b)) ELSE b

\* A response that could not be written leaves the offset as it is.
Enqueue(p) ==
  /\ hook[p].at = "enqueue"
  /\ buffer' = Append(Truncated(buffer), Entry(p))
  /\ truncated' = truncated \cup (Elements(buffer) \ Elements(Truncated(buffer)))
  /\ queued' = queued \cup {Entry(p)}
  /\ raced' = IF replay.at = "sending" THEN raced \cup {Entry(p)} ELSE raced
  /\ hook' = [hook EXCEPT ![p].at = IF Event(p) = "prompt" THEN "save_turn" ELSE "ended"]
  /\ UNCHANGED <<transcript, offset, memory, replay, flushed>>

-----------------------------------------------------------------------------
(* Replay of the buffer.                                                   *)

ReplayReads ==
  /\ replay.at = "idle" /\ buffer # <<>>
  /\ replay' = [at |-> "sending", todo |-> buffer, failed |-> <<>>]
  /\ UNCHANGED <<transcript, hook, offset, buffer, memory, histVars>>

ReplaySends ==
  /\ replay.at = "sending" /\ replay.todo # <<>>
  /\ \/ /\ memory' = memory \cup {Head(replay.todo)}
        /\ replay' = [replay EXCEPT !.todo = Tail(@)]
     \/ /\ "refused" \in WriteFaults
        /\ replay' = [replay EXCEPT !.todo = Tail(@), !.failed = Append(@, Head(replay.todo))]
        /\ UNCHANGED memory
     \/ /\ "unanswered" \in WriteFaults
        /\ memory' = memory \cup {Head(replay.todo)}
        /\ replay' = [replay EXCEPT !.todo = Tail(@), !.failed = Append(@, Head(replay.todo))]
  /\ UNCHANGED <<transcript, hook, offset, buffer, histVars>>

\* Mutant of ReplayRewrites: the file is removed in any case.
ReplayRemoves ==
  /\ replay.at = "sending" /\ replay.todo = <<>>
  /\ buffer' = <<>>
  /\ replay' = NoReplay
  /\ UNCHANGED <<transcript, hook, offset, memory, histVars>>

\* The file becomes what failed, or is removed.
ReplayRewrites ==
  /\ replay.at = "sending" /\ replay.todo = <<>>
  /\ buffer' = replay.failed
  /\ replay' = NoReplay
  /\ UNCHANGED <<transcript, hook, offset, memory, histVars>>

-----------------------------------------------------------------------------

HookStep(p) ==
  StartPrompt(p) \/ StartResponse(p) \/ Load(p) \/ Send(p) \/ Save(p) \/ Enqueue(p)

CaptureNext ==
  \/ Speak
  \/ \E p \in Hooks : HookStep(p)
  \/ ReplayReads \/ ReplaySends \/ ReplayRewrites

CaptureSpec == CaptureInit /\ [][CaptureNext]_captureVars

-----------------------------------------------------------------------------
(* Properties.                                                             *)

HookStates ==
  [at : {"new", "load", "send", "save", "enqueue", "save_turn", "ended"},
   content : Captures, turn : 0..Cardinality(Hooks), byte : 0..MaxLines]

CaptureTypeOK ==
  /\ transcript \in 0..MaxLines
  /\ hook \in [Hooks -> HookStates]
  /\ offset \in [byte : 0..MaxLines, turn : 0..Cardinality(Hooks)]
  /\ buffer \in Seq(Entries) /\ memory \subseteq Entries
  /\ truncated \subseteq Entries /\ queued \subseteq Entries
  /\ raced \subseteq Entries /\ flushed \subseteq 1..MaxLines
  /\ replay \in [at : {"idle", "sending"}, todo : Seq(Entries), failed : Seq(Entries)]

Kept == memory \cup Elements(buffer)

\* What a hook has captured stays: in memory, or in the buffer until a replay
\* has brought it there.  It may fall to the buffer's limit, or, when it was put
\* into the buffer while a replay was sending, to what that replay writes back.
CapturesKept ==
  \A p \in Hooks :
    hook[p].at \in {"save", "save_turn", "ended"} /\ hook[p].content # NoContent
      => Entry(p) \in Kept \cup truncated \cup raced

\* The offset passes no line that nobody captured, but for lines which were
\* flushed while a response hook was running.
NoLineSkipped ==
  \A line \in (1..offset.byte) \ flushed :
    \E e \in Kept \cup truncated : line \in e.content.lines

\* Two different contents never share a message id, by which memory would
\* take the second for a repetition of the first.
IdsDiffer ==
  \A e, f \in Kept : e.turn = f.turn /\ e.event = f.event => e.content = f.content

\* A line is written to memory twice only if one of the writes had failed.
NoLineTwice ==
  \A e, f \in memory \ queued : e # f => e.content.lines \cap f.content.lines = {}
=============================================================================
