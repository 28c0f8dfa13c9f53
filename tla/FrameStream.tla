---------------------------- MODULE FrameStream ----------------------------
(***************************************************************************)
(* What a publisher's cache promises to its subscribers, with no ring, no  *)
(* offset table and no byte positions.                                     *)
(*                                                                         *)
(* Everything a publisher ever commits is one stream of bytes.  Byte k of  *)
(* the stream is represented by its number k, and ends[n] is the number of *)
(* the last byte of frame n, so frame n is the bytes End(n-1)+1 .. End(n). *)
(* The cache retains the frames base+1 .. Len(ends); each subscriber has   *)
(* a next frame and is told how many frames it lost.                       *)
(***************************************************************************)
EXTENDS Integers, Sequences

CONSTANTS Subscribers,  (* accounts that may subscribe to the publisher     *)
          Capacity,     (* bytes the cache may retain                       *)
          MaxRetained,  (* frames the cache may retain                      *)
          FrameSizes,   (* sizes a publisher offers                         *)
          MaxFrames     (* bound: frames committed in one behaviour         *)

VARIABLES ends,      (* ends[n]: stream number of the last byte of frame n  *)
          base,      (* frames 1..base are gone                             *)
          subs,      (* the subscribers                                     *)
          past,      (* frames before s joined plus frames delivered to s   *)
          lost,      (* frames taken away from s before it read them        *)
          incoming,  (* size of the frame being committed, 0 if none        *)
          out        (* bytes of the frame being delivered, <<>> if none    *)

vars == <<ends, base, subs, past, lost, incoming, out>>

End(n) == IF n = 0 THEN 0 ELSE ends[n]
FrameBytes(n) == [i \in 1 .. End(n) - End(n - 1) |-> End(n - 1) + i]
NextFrame(s) == past[s] + lost[s] + 1

(* The incoming frame fits beside the retained ones.                        *)
Room == /\ Len(ends) - base < MaxRetained
        /\ End(Len(ends)) - End(base) + incoming <= Capacity

Init == /\ ends = <<>>
        /\ base = 0
        /\ subs = {}
        /\ past = [s \in Subscribers |-> 0]
        /\ lost = [s \in Subscribers |-> 0]
        /\ incoming = 0
        /\ out = <<>>

(* A publisher offers a frame that the cache could hold if it were empty.   *)
Offer(n) == /\ incoming = 0
            /\ out = <<>>
            /\ n \in 1 .. Capacity
            /\ Len(ends) < MaxFrames
            /\ incoming' = n
            /\ UNCHANGED <<ends, base, subs, past, lost, out>>

(* Only a frame that does not fit takes the oldest frame away, and everyone *)
(* who had still to read that frame is told of the loss.                    *)
Lose == /\ incoming > 0
        /\ ~Room
        /\ base < Len(ends)
        /\ base' = base + 1
        /\ lost' = [s \in Subscribers |->
                      IF s \in subs /\ NextFrame(s) = base + 1 THEN lost[s] + 1 ELSE lost[s]]
        /\ UNCHANGED <<ends, subs, past, incoming, out>>

Commit == /\ incoming > 0
          /\ Room
          /\ ends' = Append(ends, End(Len(ends)) + incoming)
          /\ incoming' = 0
          /\ UNCHANGED <<base, subs, past, lost, out>>

(* A subscriber is given its next frame, whole.                             *)
Deliver(s) == /\ incoming = 0
              /\ out = <<>>
              /\ s \in subs
              /\ NextFrame(s) <= Len(ends)
              /\ out' = FrameBytes(NextFrame(s))
              /\ past' = [past EXCEPT ![s] = @ + 1]
              /\ UNCHANGED <<ends, base, subs, lost, incoming>>

Return == /\ out # <<>>
          /\ out' = <<>>
          /\ UNCHANGED <<ends, base, subs, past, lost, incoming>>

(* A frame leaves quietly only when no subscriber has still to read it.     *)
Release == /\ base < Len(ends)
           /\ \A s \in subs : NextFrame(s) > base + 1
           /\ base' = base + 1
           /\ UNCHANGED <<ends, subs, past, lost, incoming, out>>

(* A subscriber joins at the live end of the stream.                        *)
Join(s) == /\ s \notin subs
           /\ subs' = subs \cup {s}
           /\ past' = [past EXCEPT ![s] = Len(ends)]
           /\ lost' = [lost EXCEPT ![s] = 0]
           /\ UNCHANGED <<ends, base, incoming, out>>

Leave(s) == /\ s \in subs
            /\ subs' = subs \ {s}
            /\ past' = [past EXCEPT ![s] = 0]
            /\ lost' = [lost EXCEPT ![s] = 0]
            /\ UNCHANGED <<ends, base, incoming, out>>

Next == \/ \E n \in FrameSizes : Offer(n)
        \/ Lose
        \/ Commit
        \/ \E s \in Subscribers : Deliver(s) \/ Join(s) \/ Leave(s)
        \/ Return
        \/ Release

Spec == Init /\ [][Next]_vars
=============================================================================
