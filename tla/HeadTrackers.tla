----------------------------- MODULE HeadTrackers -----------------------------
(***************************************************************************)
(* The head trackers: a device, the thread that reads from it and sets the *)
(* orientation of the reference, and calibrate(), which other threads call *)
(* at any time.                                                            *)
(*                                                                         *)
(* Angles are quarter turns: 1 is 90 degrees.  What a device sends is a    *)
(* sequence of numbers in wire: whole lines of the Polhemus and reports of *)
(* the VRPN server (an azimuth, or BrokenLine for a line of another        *)
(* length), bytes of the Razor: its frame of 12 bytes is the azimuth and   *)
(* one more number, its replies are three characters long.  The InterSense *)
(* library is asked for the azimuth of now.                                *)
(*                                                                         *)
(* tracker   kind, what the thread does next (pc), its members, and if the *)
(*           controller has the pointer to it already (ready)              *)
(* device    what it has sent, how many reports are left, the requests it  *)
(*           has not handled yet and how many were repeated; streaming:    *)
(*           sends frames without being asked; heading: what the InterSense device calls 0; fails:    *)
(*           what reading gives when the line is broken                    *)
(* seen, zero  history: the azimuth that was read last and the one at the  *)
(*           last calibration, Unknown if there was none                   *)
(* orientation  what was published last                                    *)
(***************************************************************************)
EXTENDS Integers, Sequences

CONSTANTS
  Azimuths,        \* what a device can measure
  MaxReports,      \* bound on the reports of a device
  MaxRequests,     \* bound on the requests the Razor thread repeats
  MaxCalibrations  \* bound on the calls of calibrate()

ASSUME AzimuthsAssumption == Azimuths \subseteq 0..3
ASSUME BoundsAssumption == MaxReports \in Nat /\ MaxRequests \in Nat /\ MaxCalibrations \in Nat

VARIABLES tracker, device, calibrations, seen, zero, orientation

trackerVars == <<tracker, device, calibrations, seen, zero, orientation>>

Unknown == -1
BrokenLine == -2
Hash == 11
Zero == 12
One == 13
NewLine == 14
Other == 15

Kinds == {"intersense", "polhemus", "vrpn", "razor"}

contact_synch_reply == <<Hash, Zero, NewLine>>

\* Mutant: the same reply is expected to the configuration.
Mutant_config_synch_reply == <<Hash, Zero, NewLine>>

config_synch_reply == <<Hash, One, NewLine>>

NoTracker ==
  [kind |-> "", pc |-> "none", ready |-> FALSE, stopped |-> FALSE, current |-> 0,
   corr |-> 1, input |-> 0, init |-> FALSE, yaw |-> 0]

TrackerInit ==
  /\ tracker = NoTracker
  /\ device = [wire |-> <<>>, left |-> 0, requests |-> <<>>, repeated |-> 0, streaming |-> FALSE,
               azimuth |-> 0, heading |-> 0, fails |-> "no"]
  /\ calibrations = 0
  /\ seen = Unknown
  /\ zero = Unknown
  /\ orientation = Unknown

\* The constructor starts the thread.  _current_azimuth of a TrackerVrpn is not
\* initialized; a Razor may still be streaming from an earlier session.
StartThread(kind) ==
  \E current \in IF kind = "vrpn" THEN Azimuths ELSE {0},
     streaming \in IF kind = "razor" THEN BOOLEAN ELSE {FALSE} :
    /\ tracker' = [NoTracker EXCEPT !.kind = kind,
                                    !.pc = IF kind = "razor" THEN "contact" ELSE "read",
                                    !.current = current,
                                    !.init = kind = "razor"]
    /\ device' = [device EXCEPT !.left = MaxReports, !.streaming = streaming,
                                !.requests = IF kind = "razor" THEN <<Zero>> ELSE <<>>]
    /\ UNCHANGED <<calibrations, seen, zero, orientation>>

\* calibrate() of the trackers.  ISD_ResetHeading(): the InterSense device turns
\* its zero, the others correct what they read.
Calibrate ==
  IF tracker.kind = "intersense"
  THEN /\ device' = [device EXCEPT !.heading = device.azimuth]
       /\ UNCHANGED <<tracker, zero>>
  ELSE /\ tracker' = [tracker EXCEPT !.corr = tracker.current + 1]
       /\ zero' = seen
       /\ UNCHANGED device

\* The constructor has waited for the first reports, and the controller gets
\* the pointer.
FinishCreation ==
  /\ tracker.kind \in Kinds /\ ~ tracker.ready
  /\ CASE tracker.kind = "razor" ->
            tracker' = [tracker EXCEPT !.ready = TRUE] /\ UNCHANGED <<device, zero>>
       [] tracker.kind = "intersense" ->
            /\ device' = [device EXCEPT !.heading = device.azimuth]
            /\ tracker' = [tracker EXCEPT !.ready = TRUE]
            /\ UNCHANGED zero
       [] OTHER ->
            /\ tracker' = [tracker EXCEPT !.ready = TRUE, !.corr = tracker.current + 1]
            /\ zero' = seen
            /\ UNCHANGED device
  /\ UNCHANGED <<calibrations, seen, orientation>>

\* Controller::calibrate_client(), called by the GUI, a client or a key.
calibrate_client ==
  /\ tracker.ready
  /\ calibrations < MaxCalibrations
  /\ calibrations' = calibrations + 1
  /\ Calibrate
  /\ UNCHANGED <<seen, orientation>>

\* ------------------------------------------------------------- the devices
Send(numbers) == device' = [device EXCEPT !.wire = @ \o numbers, !.left = @ - 1]

SendReport ==
  /\ device.left > 0
  /\ device.fails = "no"
  /\ \E a \in Azimuths :
       CASE tracker.kind = "intersense" ->
              device' = [device EXCEPT !.azimuth = a, !.left = @ - 1]
         [] tracker.kind = "vrpn" -> Send(<<a>>)
         [] tracker.kind = "polhemus" -> Send(<<a>>) \/ Send(<<BrokenLine>>)
         [] OTHER -> device.streaming /\ \E byte \in {Hash, Other} : Send(<<a, byte>>)
  /\ UNCHANGED <<tracker, calibrations, seen, zero, orientation>>

\* The Razor answers a request, or misses the first ones while it resets; a
\* configuration turns the stream on.
HandleRequest ==
  /\ device.requests # <<>>
  /\ device.fails = "no"
  /\ \/ device' = [device EXCEPT
           !.requests = Tail(@),
           !.wire = @ \o <<Hash, Head(device.requests), NewLine>>,
           !.streaming = @ \/ Head(device.requests) = One]
     \/ /\ ~ device.streaming
        /\ Head(device.requests) = Zero
        /\ device' = [device EXCEPT !.requests = Tail(@)]
  /\ UNCHANGED <<tracker, calibrations, seen, zero, orientation>>

\* The line breaks: reading gives nothing (0) or an error (-1) from now on.
Fail ==
  /\ tracker.kind \in {"polhemus", "razor"}
  /\ device.fails = "no"
  /\ \E how \in {"end", "error"} : device' = [device EXCEPT !.fails = how, !.wire = <<>>]
  /\ UNCHANGED <<tracker, calibrations, seen, zero, orientation>>

DeviceStep == SendReport \/ HandleRequest \/ Fail

\* ------------------------------------------------------------- the threads
\* What the loop does at its head.
Loop == IF tracker.stopped THEN "ended" ELSE "read"

End == tracker' = [tracker EXCEPT !.pc = "ended"] /\ UNCHANGED <<device, seen, zero>>

Take == device' = [device EXCEPT !.wire = Tail(@)]

\* The change handler of the VRPN tracker, and the loop around mainloop().
VrpnRead ==
  /\ tracker.kind = "vrpn" /\ tracker.pc = "read"
  /\ \/ tracker.stopped /\ End
     \/ /\ device.wire # <<>>
        /\ tracker' = [tracker EXCEPT !.current = Head(device.wire), !.pc = "publish"]
        /\ seen' = Head(device.wire)
        /\ Take /\ UNCHANGED zero
  /\ UNCHANGED <<calibrations, orientation>>

\* TrackerPolhemus::thread(): a line, or nothing for 100 ms in the middle of one.
PolhemusRead ==
  /\ tracker.kind = "polhemus" /\ tracker.pc = "read"
  /\ device.wire # <<>>
  /\ Take
  /\ IF Head(device.wire) = BrokenLine
     THEN /\ tracker' = [tracker EXCEPT !.current = 0, !.pc = Loop]
          /\ seen' = Unknown
     ELSE /\ tracker' = [tracker EXCEPT !.current = Head(device.wire), !.pc = "publish"]
          /\ seen' = Head(device.wire)
  /\ UNCHANGED <<calibrations, zero, orientation>>

\* Mutant: poll() waits for as long as it takes.
Mutant_PolhemusGivesUp ==
  /\ tracker.kind = "polhemus" /\ tracker.pc = "read"
  /\ device.wire = <<>>
  /\ device.fails = "end"
  /\ End
  /\ UNCHANGED <<calibrations, orientation>>

\* After a timeout of poll(), or at the end of the file; an error of read() is
\* taken for a character.
PolhemusGivesUp ==
  /\ tracker.kind = "polhemus" /\ tracker.pc = "read"
  /\ device.wire = <<>>
  /\ IF device.fails = "error"
     THEN tracker' = [tracker EXCEPT !.pc = "spins"] /\ UNCHANGED <<device, seen, zero>>
     ELSE End
  /\ UNCHANGED <<calibrations, orientation>>

\* TrackerInterSense::thread(): what is read is relative to the zero of now.
InterSenseRead ==
  /\ tracker.kind = "intersense" /\ tracker.pc = "read"
  /\ IF tracker.stopped
     THEN End
     ELSE /\ tracker' = [tracker EXCEPT !.current = device.azimuth - device.heading,
                                        !.pc = "publish"]
          /\ seen' = device.azimuth
          /\ zero' = device.heading
          /\ UNCHANGED device
  /\ UNCHANGED <<calibrations, orientation>>

\* RazorAHRS::_read_token(): the position in the token after one more byte.  A
\* byte that does not fit is not looked at again.
_read_token(token, byte) == IF byte = token[tracker.input + 1] THEN tracker.input + 1 ELSE 0

\* _init_razor(): both loops wait for the last byte of their token.
RazorWaits(pc, token, next) ==
  /\ tracker.pc = pc
  /\ device.wire # <<>>
  /\ LET position == _read_token(token, Head(device.wire))
     IN  IF position = Len(token)
         THEN /\ tracker' = [tracker EXCEPT !.input = 0, !.pc = next]
              /\ device' = [device EXCEPT !.wire = Tail(@),
                              !.requests = IF next = "configure" THEN Append(@, One) ELSE @]
         ELSE tracker' = [tracker EXCEPT !.input = position] /\ Take
  /\ UNCHANGED <<seen, zero>>

\* 200 ms without an answer: another request.
RazorAsksAgain ==
  /\ tracker.pc = "contact"
  /\ device.repeated < MaxRequests
  /\ device' = [device EXCEPT !.requests = Append(@, Zero), !.repeated = @ + 1]
  /\ UNCHANGED <<tracker, seen, zero>>

\* The frames.  The callback calibrates with the first one.
RazorFrame ==
  /\ tracker.pc = "read"
  /\ device.wire # <<>>
  /\ Take
  /\ IF tracker.input = 0
     THEN /\ tracker' = [tracker EXCEPT !.input = 1, !.yaw = Head(device.wire)]
          /\ UNCHANGED <<seen, zero>>
     ELSE /\ tracker' = [tracker EXCEPT
               !.input = 0, !.current = tracker.yaw, !.init = FALSE, !.pc = "publish",
               !.corr = IF tracker.init THEN tracker.yaw + 1 ELSE @]
          /\ seen' = tracker.yaw
          /\ zero' = IF tracker.init THEN tracker.yaw ELSE zero

RazorRead ==
  /\ tracker.kind = "razor"
  /\ \/ RazorWaits("contact", contact_synch_reply, "configure")
     \/ RazorWaits("configure", config_synch_reply, "read")
     \/ ~ tracker.stopped /\ RazorFrame
  /\ UNCHANGED <<calibrations, orientation>>

\* The timeout of 5 s, an error of read(), and _stop_thread, which only the last
\* loop looks at.  The second loop takes no byte for an error if errno is still
\* set from something else.
RazorEnds ==
  /\ tracker.kind = "razor"
  /\ \/ tracker.pc = "contact"
     \/ tracker.pc \in {"configure", "read"} /\ device.fails = "error"
     \/ tracker.pc = "configure" /\ device.wire = <<>>
     \/ tracker.pc = "read" /\ tracker.stopped
  /\ End
  /\ UNCHANGED <<calibrations, orientation>>

RazorAgain ==
  tracker.kind = "razor" /\ RazorAsksAgain /\ UNCHANGED <<calibrations, orientation>>

\* set_reference_orientation() in all threads, with the correction of now.
Publish ==
  /\ tracker.pc = "publish"
  /\ orientation' = - tracker.current + tracker.corr
  /\ tracker' = [tracker EXCEPT !.pc = Loop]
  /\ UNCHANGED <<device, calibrations, seen, zero>>

ThreadReads ==
  VrpnRead \/ PolhemusRead \/ PolhemusGivesUp \/ InterSenseRead \/ RazorRead

\* What the thread does sooner or later: the timeouts end, and so do the loops
\* that look at _stopped.  That the Razor's second loop ends is not among it.
ThreadStep ==
  \/ ThreadReads
  \/ Publish
  \/ RazorEnds /\ tracker.pc # "configure"

\* ------------------------------------------------------------- properties
\* What the thread cannot leave when it is stopped: the loop that waits for the
\* reply to the configuration, and the one that takes errors for characters.
Stuck == tracker.pc = "spins" \/ (tracker.kind = "razor" /\ tracker.pc = "configure")

\* Whatever is published is the direction of the head since the last
\* calibration, with 90 degrees for straight ahead: also if calibrate() comes
\* between reading and publishing, and whatever the Razor sends before its
\* replies.  The Razor has always been calibrated when it publishes.  Nothing is
\* promised if the calibration came before the first report, or after a line of
\* the Polhemus that could not be read.
CalibratedStep ==
  orientation' # orientation =>
    /\ tracker.kind = "razor" => seen \in Azimuths /\ zero \in Azimuths
    /\ seen # Unknown /\ zero # Unknown => (orientation' - (1 + zero - seen)) % 4 = 0
===============================================================================
