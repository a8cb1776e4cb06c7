----------------------------- MODULE LogAuditor -----------------------------
(***************************************************************************)
(* The auditor of the log pipeline (logs/auditor/auditor.go): it receives  *)
(* the messages that the sender is done with, remembers the offset of the  *)
(* last one and writes it to the registry file now and then.               *)
(*                                                                         *)
(* One log file is modelled, so the registry is one offset.  Messages are  *)
(* numbered by their place in the file and the offset of a message is its  *)
(* number.  0 stands for "no entry": a registry without the identifier, a  *)
(* file that is missing, and one that a crash or a full disk has left      *)
(* empty, from which recoverRegistry makes an empty registry all the same. *)
(***************************************************************************)
EXTENDS Naturals, Sequences, FiniteSets

CONSTANTS
  MaxMessages,  \* bound: messages in the log file
  ChanSize      \* config.ChanSize(): the capacity of every channel

ASSUME AuditorAssumption ==
  /\ MaxMessages \in Nat
  /\ ChanSize \in Nat \ {0}

Messages == 1..MaxMessages
NoEntry == 0
Offsets == Messages \cup {NoEntry}

VARIABLES
  auditIn,   \* RegistryAuditor.inputChan
  auditor,   \* its goroutine, whether the channel is closed, and a write of the file in progress
  registry,  \* RegistryAuditor.registry
  disk       \* the registry file

auditorVars == <<auditIn, auditor, registry, disk>>

AuditorOff == [on |-> FALSE, closed |-> FALSE, writing |-> FALSE, copy |-> NoEntry]

AuditorInit ==
  /\ auditIn = <<>>
  /\ auditor = AuditorOff
  /\ registry = NoEntry
  /\ disk = NoEntry

\* An entry that was not updated for entryTTL is deleted: any amount of time may have passed.
Cleaned(r) == {r, NoEntry}

\* recoverRegistry: a file that cannot be read or parsed gives an empty registry.
Recovered == {disk, NoEntry}

\* Start: createChannels, recoverRegistry, cleanupRegistry, go run().
AuditorStart ==
  /\ auditIn' = <<>>
  /\ auditor' = [AuditorOff EXCEPT !.on = TRUE]
  /\ \E r \in Recovered : registry' \in Cleaned(r)
  /\ UNCHANGED disk

\* updateRegistry: the last message wins, whatever its offset.
AuditorUpdates ==
  /\ auditor.on /\ ~auditor.writing
  /\ auditIn # <<>>
  /\ registry' = Head(auditIn)
  /\ auditIn' = Tail(auditIn)
  /\ UNCHANGED <<auditor, disk>>

AuditorCleans ==
  /\ auditor.on /\ ~auditor.writing
  /\ registry' \in Cleaned(registry)
  /\ UNCHANGED <<auditIn, auditor, disk>>

\* flushRegistry: the copy is taken under the lock, then the file is truncated,
\* unless it cannot be opened ...
FlushBegins(r) ==
  /\ ~auditor.writing
  /\ \/ auditor' = [auditor EXCEPT !.writing = TRUE, !.copy = r] /\ disk' = NoEntry
     \/ auditor' = [auditor EXCEPT !.writing = TRUE, !.copy = disk] /\ UNCHANGED disk

\* ... and written, which may fail; errors are logged only.
FlushEnds ==
  /\ auditor.writing
  /\ auditor' = [auditor EXCEPT !.writing = FALSE]
  /\ disk' \in {auditor.copy, disk}
  /\ UNCHANGED <<auditIn, registry>>

\* The flush ticker of run().
AuditorFlushes ==
  /\ auditor.on
  /\ FlushBegins(registry)
  /\ UNCHANGED <<auditIn, registry>>

\* The channel is closed and empty: run() returns and closeChannels goes on.
AuditorEnds ==
  /\ auditor.on /\ auditor.closed /\ ~auditor.writing
  /\ auditIn = <<>>
  /\ auditor' = [auditor EXCEPT !.on = FALSE]
  /\ UNCHANGED <<auditIn, registry, disk>>

AuditorRuns == AuditorUpdates \/ AuditorCleans \/ AuditorFlushes \/ FlushEnds \/ AuditorEnds

\* Stop, first half: closeChannels closes the channel and waits for run().
AuditorClose ==
  /\ auditor' = [auditor EXCEPT !.closed = TRUE]
  /\ UNCHANGED <<auditIn, registry, disk>>

\* Stop, second half: cleanupRegistry and flushRegistry.
AuditorStop ==
  /\ ~auditor.on
  /\ \E r \in Cleaned(registry) : registry' = r /\ FlushBegins(r)
  /\ UNCHANGED auditIn

\* The process ends: only the file is left.
AuditorCrash ==
  /\ auditIn' = <<>>
  /\ auditor' = AuditorOff
  /\ registry' = NoEntry
  /\ UNCHANGED disk

AuditorTypeOK ==
  /\ auditIn \in Seq(Messages) /\ Len(auditIn) <= ChanSize
  /\ auditor \in [on : BOOLEAN, closed : BOOLEAN, writing : BOOLEAN, copy : Offsets]
  /\ registry \in Offsets
  /\ disk \in Offsets
=============================================================================
