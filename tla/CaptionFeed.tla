----------------------------- MODULE CaptionFeed -----------------------------
(***************************************************************************)
(* What listeners are promised of one session's captions, without the      *)
(* operators, queues and tasks that produce them: the transcript only      *)
(* grows, under growing sequence numbers; a channel carries a caption only *)
(* when the transcript holds it under the same number, so that the         *)
(* scrollback a listener fetches and the stream it joins agree; and a      *)
(* channel's numbers grow, so that a listener can drop what it has seen.   *)
(***************************************************************************)
EXTENDS Integers, Sequences

CONSTANTS Texts, Langs

VARIABLES
  transcript,  \* the stored captions
  channel      \* what each language's channel has carried

Captions == [seq : Texts, text : Texts]

Init == transcript = {} /\ channel = [l \in Langs |-> << >>]

Store ==
  /\ \E x \in Captions :
       /\ \A y \in transcript : y.seq < x.seq /\ y.text < x.text
       /\ transcript' = transcript \cup {x}
  /\ UNCHANGED channel

Follows(x, log) == log = << >> \/ log[Len(log)].seq < x.seq

\* Some channels carry a stored caption; cancelled publishes may land together.
Carry ==
  /\ \E S \in SUBSET Langs, x \in transcript :
       /\ \A l \in S : Follows(x, channel[l])
       /\ channel' = [l \in Langs |->
                        IF l \in S THEN Append(channel[l], x) ELSE channel[l]]
  /\ UNCHANGED transcript

Spec == Init /\ [][Store \/ Carry]_<<transcript, channel>>
=============================================================================
