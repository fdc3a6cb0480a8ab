----------------------------- MODULE ReportQueue -----------------------------
(* What usb_fifo promises to the report functions of usbkb.c and usbmouse.c:   *)
(* reports that found their endpoint busy wait in arrival order, at most       *)
(* FifoNum of them; when there is no room the oldest give way ("fifo overflow, *)
(* overlap older data").                                                       *)
EXTENDS Naturals, Sequences, SequencesExt

CONSTANTS
    Report,
    FifoNum,    \* USB_FIFO_NUM
    Burst       \* reports that one notification may queue

VARIABLE queue

Init == queue = <<>>

\* Reports join at the end; d of the oldest give way, none unless it is full
Put ==
    \E d \in 0 .. Len(queue) :
        LET kept == SubSeq(queue, d + 1, Len(queue))
        IN  /\ queue' \in Seq(Report) /\ IsPrefix(kept, queue')
            /\ Len(queue') - Len(kept) <= Burst
            /\ Len(queue') <= FifoNum /\ (d > 0 => Len(queue') = FifoNum)

Take == queue # <<>> /\ queue' = Tail(queue)

Next == Put \/ Take

Spec == Init /\ [][Next]_queue
=============================================================================
