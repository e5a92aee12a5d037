------------------------------ MODULE IpmbSeq ------------------------------
(***************************************************************************)
(* The request bookkeeping of one IPMB index (ipmb/ipmb.c): the circular   *)
(* linked list of outstanding requests that starts at P_start[index], the  *)
(* table of registered sequence numbers, the counter that decides when the *)
(* oldest record is thrown away, and the sweep of IPMB_SeqTimeout_handler. *)
(*                                                                         *)
(* Every operation of the C code runs under mutex_id[index] and calls      *)
(* nothing that blocks, so each is one action.  The sweep is a loop over   *)
(* the list under the same mutex and is modelled one iteration at a time:  *)
(* sweep_pos is the node its cursor stands on, and NotSweeping says that   *)
(* the mutex is free for the other operations.  get_free_seq runs under    *)
(* mutex_send_req instead, and so in the middle of a sweep, too.           *)
(***************************************************************************)
EXTENDS Integers, SequencesExt

CONSTANTS SEQ_NUM,          \* number of IPMB sequence numbers (64 in ipmb.h)
          MAX_SEQ_QUENE,    \* records kept before the oldest is evicted (15)
          Cmd,              \* the (netfn, cmd) pairs requests can have
          Source,           \* values of InF_source
          Id,               \* identities of requests, to tell them apart
          AllocFails        \* whether malloc may return NULL

ASSUME SeqNumAssumption == SEQ_NUM \in Nat \ {0}
ASSUME QueueAssumption  == MAX_SEQ_QUENE \in Nat \ {0}
ASSUME AllocAssumption  == AllocFails \in BOOLEAN
ASSUME CmdAssumption    == Cmd # {}

VARIABLES ring,               \* the records, oldest first, P_start left out
          linked,             \* FALSE once the tail's next pointer is NULL
          seq_table,          \* the sequence numbers whose entry is 1
          current_seq,        \* the last sequence number handed out
          seq_current_count,  \* the code's own count of the records
          sweep_pos,          \* cursor of the sweep, -1 when none is running
          fault               \* a NULL next pointer has been followed

seqvars == <<ring, linked, seq_table, current_seq, seq_current_count,
             sweep_pos, fault>>

SeqNo == 0 .. SEQ_NUM - 1

(***************************************************************************)
(* The timestamp of a record matters only to the sweeper, which wakes up   *)
(* every IPMB_SEQ_TIMEOUT_MS and removes what is older than that.  It is   *)
(* kept as the record's relation to the sweeps: "fresh" since no sweep has *)
(* started, "aged" once one started too early for it, "expired" once one   *)
(* started late enough.                                                    *)
(***************************************************************************)
Age == {"fresh", "aged", "expired"}

\* buffer.seq and buffer.seq_target are equal in every record (ipmb.c:485).
ReqRecord == [cmd : Cmd, seq : SeqNo, seq_source : SeqNo,
              InF_source : Source, id : Id, timestamp : Age]

SeqTypeOK ==
  /\ ring \in Seq(ReqRecord)
  /\ linked \in BOOLEAN
  /\ seq_table \subseteq SeqNo
  /\ current_seq \in SeqNo
  /\ seq_current_count \in 0 .. MAX_SEQ_QUENE
  /\ sweep_pos \in -1 .. MAX_SEQ_QUENE
  /\ fault \in BOOLEAN

\* create_ipmb_threads: an empty circular list, no registered sequence number.
SeqInit ==
  /\ ring = << >>
  /\ linked = TRUE
  /\ seq_table = {}
  /\ current_seq = 0
  /\ seq_current_count = 0
  /\ sweep_pos = -1
  /\ fault = FALSE

NotSweeping == sweep_pos = -1

----------------------------------------------------------------------------
(***************************************************************************)
(* get_free_seq: current_seq advances to the first number whose entry is   *)
(* 0; after SEQ_NUM tries the loop gives up where it stands, which is the  *)
(* number it started from.                                                 *)
(***************************************************************************)
\* Faulty variant: the table is not looked at.
GetNextSeq(s) ==
  /\ s = (current_seq + 1) % SEQ_NUM
  /\ current_seq' = s
  /\ UNCHANGED <<ring, linked, seq_table, seq_current_count, sweep_pos, fault>>

GetFreeSeq(s) ==
  /\ \E tries \in 1 .. SEQ_NUM :
        /\ s = (current_seq + tries) % SEQ_NUM
        /\ \A j \in 1 .. tries - 1 : (current_seq + j) % SEQ_NUM \in seq_table
        /\ s \notin seq_table \/ tries = SEQ_NUM
  /\ current_seq' = s
  /\ UNCHANGED <<ring, linked, seq_table, seq_current_count, sweep_pos, fault>>

----------------------------------------------------------------------------
(***************************************************************************)
(* insert_req_ipmi_msg.  A full list first loses its oldest record, whose  *)
(* sequence number stays registered.  Walking a list that is no longer     *)
(* circular ends at NULL, and nothing is inserted; a failing malloc leaves *)
(* that NULL in the tail's next pointer.                                   *)
(***************************************************************************)
RingFull == seq_current_count = MAX_SEQ_QUENE

Evicted == IF RingFull THEN Tail(ring) ELSE ring

CountAfterEviction ==
  IF RingFull THEN seq_current_count - 1 ELSE seq_current_count

InsertReq(r) ==
  /\ NotSweeping
  /\ linked
  /\ ring' = Append(Evicted, r)
  /\ seq_table' = seq_table \cup {r.seq}
  /\ seq_current_count' = CountAfterEviction + 1
  /\ UNCHANGED <<linked, current_seq, sweep_pos, fault>>

InsertReqFails ==
  /\ NotSweeping
  /\ ~linked \/ AllocFails
  /\ ring' = Evicted
  /\ linked' = FALSE
  /\ seq_current_count' = CountAfterEviction
  /\ UNCHANGED <<seq_table, current_seq, sweep_pos, fault>>

----------------------------------------------------------------------------
\* Faulty variant: the counter is forgotten.
UnlinkUncounted(k) ==
  /\ ring' = RemoveAt(ring, k)
  /\ seq_table' = seq_table \ {ring[k].seq}
  /\ UNCHANGED seq_current_count

\* Unlinking node k: find, clear and the sweep all do this.
Unlink(k) ==
  /\ ring' = RemoveAt(ring, k)
  /\ seq_table' = seq_table \ {ring[k].seq}
  /\ seq_current_count' = seq_current_count - 1

\* Faulty variant: the sequence number is not compared.
MatchesAnySeq(k, cmd, seq) == ring[k].cmd = cmd

\* The loops of find_req_ipmi_msg and clear_req_ipmi_msg stop at the first
\* record of this command and sequence number.
Matches(k, cmd, seq) == ring[k].cmd = cmd /\ ring[k].seq = seq

FirstMatch(k, cmd, seq) ==
  /\ k \in 1 .. Len(ring)
  /\ Matches(k, cmd, seq)
  /\ \A j \in 1 .. k - 1 : ~Matches(j, cmd, seq)

NoMatch(cmd, seq) == \A k \in 1 .. Len(ring) : ~Matches(k, cmd, seq)

\* Faulty variant: the matching record stays on the list.
TakeReqKeeps(k, cmd, seq) ==
  /\ NotSweeping
  /\ FirstMatch(k, cmd, seq)
  /\ UNCHANGED seqvars

\* find_req_ipmi_msg, clear_req_ipmi_msg: record k is the match, it goes.
TakeReq(k, cmd, seq) ==
  /\ NotSweeping
  /\ FirstMatch(k, cmd, seq)
  /\ Unlink(k)
  /\ UNCHANGED <<linked, current_seq, sweep_pos, fault>>

\* Both functions again, when no record matches.  The tests for NULL come
\* after the dereference: without a match, a list that is not circular is
\* followed through its NULL pointer.
MissReq(cmd, seq) ==
  /\ NotSweeping
  /\ NoMatch(cmd, seq)
  /\ fault' = ~linked
  /\ UNCHANGED <<ring, linked, seq_table, current_seq, seq_current_count,
                 sweep_pos>>

----------------------------------------------------------------------------
(***************************************************************************)
(* IPMB_SeqTimeout_handler.  Timestamps grow along the list, so what is    *)
(* too old is a prefix of it.  Two sweeps are IPMB_SEQ_TIMEOUT_MS apart: a *)
(* record that an earlier sweep has met is too old for the next one, a     *)
(* record that is still fresh may be too old or not.                       *)
(***************************************************************************)
SweepStart ==
  /\ NotSweeping
  /\ sweep_pos' = 0
  /\ \E n \in 0 .. Len(ring) :
        /\ \A i \in n + 1 .. Len(ring) : ring[i].timestamp = "fresh"
        /\ ring' = [i \in 1 .. Len(ring) |->
                      [ring[i] EXCEPT !.timestamp =
                         IF i <= n THEN "expired" ELSE "aged"]]
  /\ UNCHANGED <<linked, seq_table, current_seq, seq_current_count, fault>>

\* Faulty variants: the cursor goes on past the end after the tail is unlinked;
\* the expired record is stepped over and not unlinked.
SweepRemoveNoWrap ==
  /\ sweep_pos \in 0 .. Len(ring) - 1
  /\ ring[sweep_pos + 1].timestamp = "expired"
  /\ Unlink(sweep_pos + 1)
  /\ sweep_pos' = sweep_pos + 1
  /\ UNCHANGED <<linked, current_seq, fault>>

SweepRemoveNothing ==
  /\ sweep_pos \in 0 .. Len(ring) - 1
  /\ ring[sweep_pos + 1].timestamp = "expired"
  /\ sweep_pos' = sweep_pos + 1
  /\ UNCHANGED <<ring, linked, seq_table, current_seq, seq_current_count, fault>>

\* An expired record leaves the list and the cursor moves on all the same:
\* to the record after it, unexamined, or to the start when there is none.
\* When the start is out of reach the cursor is NULL and is dereferenced.
SweepRemove ==
  /\ sweep_pos \in 0 .. Len(ring) - 1
  /\ ring[sweep_pos + 1].timestamp = "expired"
  /\ Unlink(sweep_pos + 1)
  /\ sweep_pos' = IF sweep_pos + 1 < Len(ring) THEN sweep_pos + 1 ELSE 0
  /\ fault' = (sweep_pos + 1 = Len(ring) /\ ~linked)
  /\ UNCHANGED <<linked, current_seq>>

\* Faulty variant: the cursor goes back to the start after every record.
SweepKeepRestarts ==
  /\ sweep_pos \in 0 .. Len(ring) - 1
  /\ ring[sweep_pos + 1].timestamp # "expired"
  /\ sweep_pos' = 0
  /\ UNCHANGED <<ring, linked, seq_table, current_seq, seq_current_count, fault>>

SweepKeep ==
  /\ sweep_pos \in 0 .. Len(ring) - 1
  /\ ring[sweep_pos + 1].timestamp # "expired"
  /\ sweep_pos' = sweep_pos + 1
  /\ UNCHANGED <<ring, linked, seq_table, current_seq, seq_current_count, fault>>

SweepEnd ==
  /\ sweep_pos = Len(ring)
  /\ sweep_pos' = -1
  /\ fault' = ~linked
  /\ UNCHANGED <<ring, linked, seq_table, current_seq, seq_current_count>>

Sweep == SweepStart \/ SweepRemove \/ SweepKeep \/ SweepEnd

----------------------------------------------------------------------------
\* A fault ends the run: the kernel stops on it.
SeqNext ==
  /\ ~fault
  /\ \/ \E s \in SeqNo : GetFreeSeq(s)
     \/ \E r \in ReqRecord : r.timestamp = "fresh" /\ InsertReq(r)
     \/ InsertReqFails
     \/ \E cmd \in Cmd, seq \in SeqNo :
          \/ \E k \in 1 .. Len(ring) : TakeReq(k, cmd, seq)
          \/ MissReq(cmd, seq)
     \/ Sweep

SeqSpec == SeqInit /\ [][SeqNext]_seqvars

SweepFairness ==
  WF_seqvars(~fault /\ (SweepRemove \/ SweepKeep \/ SweepEnd))

SeqFairSpec == SeqSpec /\ SweepFairness
----------------------------------------------------------------------------
(***************************************************************************)
(* Properties                                                              *)
(***************************************************************************)
\* The counter that triggers the eviction in insert_req_ipmi_msg is the
\* length of the list after every interleaving of inserts, finds, clears and
\* sweeps, evictions and failed allocations included, and stays in bounds.
CountMatchesRing ==
  /\ seq_current_count = Len(ring)
  /\ Len(ring) <= MAX_SEQ_QUENE

\* Wherever its cursor is, the sweep stands on P_start or on a record that is
\* still linked: it never continues from a node it has freed.
CursorOnList == sweep_pos \in -1 .. Len(ring)

\* The list is ordered by age: the sweep may treat what is too old as a prefix.
AgeOrder ==
  \A i, j \in 1 .. Len(ring) :
    (i < j /\ ring[j].timestamp # "fresh") => ring[i].timestamp # "fresh"

\* The sweep may go on from where it is, after any inserts, evictions, finds and
\* clears in between: its cursor is on the list, and what is too old is a prefix.
SweepSafe == CursorOnList /\ AgeOrder

\* The sweep's loop, which restarts at P_start after it has unlinked the tail,
\* always comes to its end and gives mutex_id back (or faults).
SweepEnds == (sweep_pos >= 0) ~> (sweep_pos = -1 \/ fault)
============================================================================
