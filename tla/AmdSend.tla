------------------------------ MODULE AmdSend ------------------------------
(***************************************************************************)
(* The send side of the driver of the AMD am79c973 network card            *)
(* (src/src/drivers/amd_am79c973.cpp): amd_am79c973::Send and the ring of  *)
(* descriptors that it shares with the card.                               *)
(*                                                                         *)
(* Send is called from two places: by an application thread, which an      *)
(* interrupt can stop between any two statements, and by Receive, inside   *)
(* the interrupt, to answer a frame.  The card reads the ring meanwhile.   *)
(***************************************************************************)
EXTENDS AmdRing

ASSUME AmdSendAssumption == N # 1

VARIABLES
    sendBufferDescr,    \* per descriptor: the number of the frame that the card
                        \* is to send, or None when the driver owns it
    currentSendBuffer,
    cardSends,      \* the descriptor the card looks at next
    app,            \* the application's Send: its next statement, its
                    \* descriptor and the number of its frame
    nextOut,        \* history: the number of the next frame given to Send
    due,            \* history: the number of the frame to be sent next
    order           \* history: what became of the order

cardVars == <<cardSends, due>>
sendVars == <<sendBufferDescr, currentSendBuffer, cardVars, app, nextOut, order>>

None == -1

(* Frames are numbered modulo SendNumbers, in the order of the calls of    *)
(* Send: one more than a full ring and a call that has begun.              *)
SendNumbers == N + 2
Incremented(no) == (no + 1) % SendNumbers

Idle == [at |-> "idle", slot |-> 0, no |-> 0]

SendInit ==
    /\ sendBufferDescr = [i \in Slots |-> None]
    /\ currentSendBuffer = 0 /\ cardSends = 0
    /\ app = Idle
    /\ nextOut = 0 /\ due = 0 /\ order = "kept"

----------------------------------------------------------------------------
(* The card (not in src/) sends the frame of the next descriptor and gives *)
(* that back; it waits at one that it does not own.                        *)
Transmit ==
    /\ sendBufferDescr[cardSends] # None
    /\ sendBufferDescr' = [sendBufferDescr EXCEPT ![cardSends] = None]
    /\ cardSends' = After(cardSends)
    /\ due' = Incremented(due)
    /\ order' = IF order = "kept" /\ sendBufferDescr[cardSends] # due
                THEN "broken" ELSE order
    /\ UNCHANGED <<currentSendBuffer, app, nextOut>>

(* A descriptor that is given away: to the card, or to a Send under way.   *)
Given(i) == sendBufferDescr[i] # None \/ (app.at = "fill" /\ app.slot = i)

(* The order is excused from here on.                                      *)
Excuse(why) == order' = IF order = "kept" THEN why ELSE order

(* Send by the application.  It takes the current descriptor ...           *)
Pick ==
    /\ app.at = "idle"
    /\ app' = [at |-> "bump", slot |-> currentSendBuffer, no |-> nextOut]
    /\ nextOut' = Incremented(nextOut)
    /\ UNCHANGED <<sendBufferDescr, currentSendBuffer, cardVars, order>>

(* A wrong Bump for the mutation runs: the index stays where it is.         *)
BumpNothing ==
    /\ app.at = "bump"
    /\ app' = [app EXCEPT !.at = "fill"]
    /\ UNCHANGED <<sendBufferDescr, currentSendBuffer, cardVars, nextOut, order>>

(* ... advances the index, in a statement of its own, ...                  *)
Bump ==
    /\ app.at = "bump"
    /\ currentSendBuffer' = After(currentSendBuffer)
    /\ app' = [app EXCEPT !.at = "fill"]
    /\ UNCHANGED <<sendBufferDescr, cardVars, nextOut, order>>

(* ... copies the frame and sets the owner bit.  It does not look whether  *)
(* the card still owns the descriptor.                                     *)
Fill ==
    /\ app.at = "fill"
    /\ sendBufferDescr' = [sendBufferDescr EXCEPT ![app.slot] = app.no]
    /\ IF sendBufferDescr[app.slot] # None THEN Excuse("overrun") ELSE UNCHANGED order
    /\ app' = Idle
    /\ UNCHANGED <<currentSendBuffer, cardVars, nextOut>>

(* A wrong Reply for the mutation runs: the index moves before it is used.  *)
ReplyFirst ==
    /\ sendBufferDescr' = [sendBufferDescr EXCEPT ![After(currentSendBuffer)] = nextOut]
    /\ IF app.at = "bump" \/ Given(currentSendBuffer)
       THEN Excuse(IF app.at = "bump" THEN "crossed" ELSE "overrun")
       ELSE UNCHANGED order
    /\ currentSendBuffer' = After(currentSendBuffer)
    /\ nextOut' = Incremented(nextOut)
    /\ UNCHANGED <<cardVars, app>>

(* Send by the interrupt handler, all of it between two statements of the  *)
(* application.  Between the two at the start of Send it crosses them: it  *)
(* takes the same descriptor, and the index moves twice.                   *)
Reply ==
    /\ sendBufferDescr' = [sendBufferDescr EXCEPT ![currentSendBuffer] = nextOut]
    /\ IF app.at = "bump" \/ Given(currentSendBuffer)
       THEN Excuse(IF app.at = "bump" THEN "crossed" ELSE "overrun")
       ELSE UNCHANGED order
    /\ currentSendBuffer' = After(currentSendBuffer)
    /\ nextOut' = Incremented(nextOut)
    /\ UNCHANGED <<cardVars, app>>

Send == Pick \/ Bump \/ Fill

SendNext == Transmit \/ Send \/ Reply

(* The card sends, and a call of Send goes on; nobody has to call it.      *)
SendFairness == WF_sendVars(Transmit) /\ WF_sendVars(Bump) /\ WF_sendVars(Fill)

SendSpec == SendInit /\ [][SendNext]_sendVars /\ SendFairness

----------------------------------------------------------------------------
SendTypeOK ==
    /\ sendBufferDescr \in [Slots -> -1 .. SendNumbers - 1]
    /\ currentSendBuffer \in Slots /\ cardSends \in Slots
    /\ app \in [at : {"idle", "bump", "fill"}, slot : Slots, no : 0 .. SendNumbers - 1]
    /\ nextOut \in 0 .. SendNumbers - 1 /\ due \in 0 .. SendNumbers - 1
    /\ order \in {"kept", "crossed", "overrun", "broken"}

(* Frames are sent in the order of the calls of Send and each once, unless *)
(* a Send of the handler crossed one of the application, or a Send ran     *)
(* into a descriptor that was given away.                                  *)
SentInOrder == order # "broken"

(* It only runs into one when all are given away: as long as the order is  *)
(* kept, Send uses the ring to the full.                                   *)
OverrunOnlyWhenFull ==
    [][order = "kept" /\ order' = "overrun" => \A i \in Slots : Given(i)]_sendVars

(* As long as the order is kept, the descriptors from the card's index to  *)
(* the driver's hold the frames due, without a gap the card would wait at. *)
Outstanding == (nextOut - due) % SendNumbers

RingHoldsFrames ==
    order = "kept" =>
        \A k \in 0 .. Outstanding - 1 :
            LET i == (cardSends + k) % N
                no == (due + k) % SendNumbers
            IN  IF app.at # "idle" /\ app.no = no
                THEN app.slot = i
                ELSE sendBufferDescr[i] = no

(* The send ring as a whole.                                               *)
SendRingInv == SendTypeOK /\ RingHoldsFrames

(* Every frame given to Send is sent, with the same two exceptions: after  *)
(* a crossing the card may wait for ever at the descriptor passed over.    *)
EveryFrameSent == \A no \in 0 .. SendNumbers - 1 :
    (due = no /\ nextOut # no) ~> (due # no \/ order # "kept")
=============================================================================
