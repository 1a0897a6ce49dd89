------------------------------- MODULE Audio -------------------------------
(***************************************************************************)
(* The audio path of one client: Capture and Playback (client_cli/src/     *)
(* audio/) with their threads, the jitter buffer between the network and   *)
(* the loudspeaker, the peer connection that the capture callback uses,    *)
(* and the lambdas of main.cpp, initRtc and cleanupCall, that make and     *)
(* unmake them.  The user's thread, the WebSocket thread ("ws"), the rtc   *)
(* library's thread ("rtc") and the two audio threads run concurrently.    *)
(* Only record_mutex_ and the jitter buffer's mutex_ order them.           *)
(***************************************************************************)
EXTENDS JitterBuffer

CONSTANTS
    FrameSize,  \* frame_size_ of Playback, in samples
    MaxCalls,   \* bound: calls in one behaviour
    MaxFrame    \* bound: frames read from the microphone in one call

ASSUME AudioAssumption ==
    FrameSize \in 0 .. MaxBlock /\ MaxCalls \in Nat /\ MaxFrame \in Nat

VARIABLES
    call,       \* session.call.state, "Muted" when InCall and muted
    configs,    \* calls made; rtc.config messages received
    call_cleanup_done,
    task,       \* what the ws and rtc threads have left of a lambda
    pc,         \* the peer connection
    capture,    \* the Capture object, id 0 for none
    mic,        \* its thread, with the frames it has read
    playback,   \* the Playback object and its thread
    record,     \* session.record
    fate        \* "fine" until two threads meet where they must not

callVars == <<call, configs>>
mainVars == <<call_cleanup_done, task, pc>>
audioVars == <<call, configs, call_cleanup_done, task, pc, capture, mic, playback,
               record, fate, jitterVars>>

Thread == {"ws", "rtc"}

NoTask == [lambda |-> "none", left |-> <<>>]

\* connected: connected_; track: audio_track_ is set; ready: initRtc has set
\* the callbacks; heard: the remote track has come.
NoPc == [connected |-> FALSE, track |-> FALSE, ready |-> FALSE, heard |-> FALSE]

\* id: which Capture, by its initRtc.
NewCapture(id) == [id |-> id, recording_ |-> FALSE, record_buf_ |-> <<>>]

\* own: the thread is that of the object in hand, not of one being destroyed.
NoMic == [at |-> "none", own |-> TRUE, running_ |-> FALSE, device |-> FALSE, frame |-> 0]

NoPlayback == [made |-> FALSE, running_ |-> FALSE, thread |-> "none"]

\* The frames read when the recording began, and the Capture it began on.
NotRecording == [active |-> FALSE, id |-> 0, from |-> 0]

AudioInit ==
    /\ call = "Idle" /\ configs = [made |-> 0, received |-> 0]
    /\ call_cleanup_done = FALSE
    /\ task = [t \in Thread |-> NoTask]
    /\ pc = NoPc /\ capture = NewCapture(0) /\ mic = NoMic /\ playback = NoPlayback
    /\ record = NotRecording
    /\ fate = "fine"
    /\ JitterInit

----------------------------------------------------------------------------
(* The capture thread, Capture::loop.                                       *)

MicOnly == UNCHANGED <<callVars, mainVars, playback, record, fate, jitterVars>>

\* The test of running_; without a device the frame is silence and is not
\* recorded.
MicTests ==
    /\ mic.at = "loop"
    /\ \/ /\ ~mic.running_
          /\ mic' = [mic EXCEPT !.at = "exited"]
       \/ /\ mic.running_
          /\ mic.device => mic.frame < MaxFrame
          /\ mic' = [mic EXCEPT !.at = IF mic.device THEN "reading" ELSE "callback"]
    /\ UNCHANGED capture /\ MicOnly

\* read() gives a frame or fails, which ends the thread.
MicReads ==
    /\ mic.at = "reading"
    /\ \/ mic' = [mic EXCEPT !.at = "read", !.frame = @ + 1]
       \/ mic' = [mic EXCEPT !.at = "exited"]
    /\ UNCHANGED capture /\ MicOnly

\* recording_ is read before record_mutex_ is taken.
MicTestsRecording ==
    /\ mic.at = "read"
    /\ mic' = [mic EXCEPT !.at = IF mic.own /\ capture.recording_ THEN "recording"
                                 ELSE "callback"]
    /\ UNCHANGED capture /\ MicOnly

MicRecords ==
    /\ mic.at = "recording"
    /\ mic' = [mic EXCEPT !.at = "callback"]
    /\ capture' = IF mic.own THEN [capture EXCEPT !.record_buf_ = Append(@, mic.frame)]
                  ELSE capture
    /\ MicOnly

\* The callback that initRtc passes: the test of pc, then its use.
MicCallback ==
    /\ mic.at = "callback"
    /\ mic' = [mic EXCEPT !.at = IF pc.connected /\ pc.track THEN "sending" ELSE "loop"]
    /\ UNCHANGED capture /\ MicOnly

MicSends ==
    /\ mic.at = "sending"
    /\ mic' = [mic EXCEPT !.at = "loop"]
    /\ UNCHANGED capture /\ MicOnly

MicStep ==
    MicTests \/ MicReads \/ MicTestsRecording \/ MicRecords \/ MicCallback \/ MicSends

----------------------------------------------------------------------------
(* The playback thread, Playback::loop; a failed write() ends it.           *)

PlaybackLoop ==
    /\ playback.thread = "loop"
    /\ \/ /\ ~playback.running_
          /\ playback' = [playback EXCEPT !.thread = "exited"]
          /\ UNCHANGED jitterVars
       \/ /\ playback.running_
          /\ read(FrameSize)
          /\ \E at \in {"loop", "exited"} : playback' = [playback EXCEPT !.thread = at]
    /\ UNCHANGED <<callVars, mainVars, capture, mic, record, fate>>

----------------------------------------------------------------------------
(* cleanupCall and initRtc, run by the ws or the rtc thread step by step.   *)

\* Mutant of CleanupSteps: the peer connection goes first.
CleanupStepsSwapped ==
    <<"resetPc", "stopCapture", "joinCapture", "stopPlayback", "joinPlayback", "resetCall">>

\* What follows the exchange in cleanupCall.
CleanupSteps ==
    <<"stopCapture", "joinCapture", "stopPlayback", "joinPlayback", "resetPc", "resetCall">>

\* Mutant of InitSteps: the old Playback's thread is not joined.
InitStepsUnjoined ==
    <<"resetPc", "newCapture", "joinCapture", "startCapture", "newPlayback", "setCallbacks">>

\* A new Capture or Playback is in place before the old one is destroyed,
\* which stops it.
InitSteps ==
    <<"resetPc", "newCapture", "joinCapture", "startCapture", "newPlayback", "joinPlayback",
      "setCallbacks">>

\* Two lambdas at once change the same pointers and objects with no lock.
Enter(t, lambda, steps) ==
    /\ task' = [task EXCEPT ![t] = [lambda |-> lambda, left |-> steps]]
    /\ fate' = IF \A u \in Thread : task[u] = NoTask THEN fate ELSE "overlap"

\* The second caller returns at once, even when the first is not done.
cleanupCall(t) ==
    \/ call_cleanup_done /\ UNCHANGED <<call_cleanup_done, task, fate>>
    \/ ~call_cleanup_done /\ call_cleanup_done' = TRUE
          /\ Enter(t, "cleanupCall", CleanupSteps)

initRtc == Enter("ws", "initRtc", InitSteps) /\ call_cleanup_done' = FALSE

\* Mutant of StopCapture: running_ stays set.
StopCaptureNot == UNCHANGED <<mic, capture>>

\* The first line of Capture::stop; the join is a step of its own.
StopCapture == mic' = [mic EXCEPT !.running_ = FALSE] /\ UNCHANGED capture

CaptureStep(step) ==
    \/ step = "stopCapture" /\ StopCapture
    \/ /\ step = "newCapture"
       /\ capture' = NewCapture(configs.received)
       /\ mic' = [mic EXCEPT !.own = FALSE, !.running_ = FALSE]
    \/ /\ step = "joinCapture" /\ mic.at \in {"none", "exited"}
       /\ mic' = [mic EXCEPT !.at = "none"] /\ UNCHANGED capture
    \/ /\ step = "startCapture"
       /\ \E device \in BOOLEAN :
             mic' = [NoMic EXCEPT !.at = "loop", !.running_ = TRUE, !.device = device]
       /\ UNCHANGED capture

PlaybackStep(step) ==
    \/ /\ step = "stopPlayback"
       /\ playback' = [playback EXCEPT !.running_ = FALSE] /\ clear
    \/ /\ step = "newPlayback"
       /\ playback' = [playback EXCEPT !.made = TRUE, !.running_ = FALSE] /\ clear
    \/ /\ step = "joinPlayback" /\ playback.thread \in {"none", "exited"}
       /\ playback' = [playback EXCEPT !.thread = "none"] /\ UNCHANGED jitterVars

\* pc goes, or a new one takes its place; the capture thread may be about to
\* use the old one.  setCallbacks ends initRtc: startCall, which adds the
\* audio track, is the caller's alone.
PcStep(step) ==
    \/ /\ step = "resetPc"
       /\ pc' = NoPc
       /\ fate' = IF mic.at = "sending" THEN "dangling" ELSE fate
    \/ /\ step = "setCallbacks"
       /\ pc' = [pc EXCEPT !.ready = TRUE, !.track = call = "Calling"]
       /\ UNCHANGED fate

Do(step) ==
    \/ CaptureStep(step) /\ UNCHANGED <<call, pc, playback, fate, jitterVars>>
    \/ PlaybackStep(step) /\ UNCHANGED <<call, pc, capture, mic, fate>>
    \/ PcStep(step) /\ UNCHANGED <<call, capture, mic, playback, jitterVars>>
    \/ /\ step = "resetCall" /\ call' = "Idle"
       /\ UNCHANGED <<pc, capture, mic, playback, fate, jitterVars>>

Step(t) ==
    /\ task[t] # NoTask
    /\ Do(Head(task[t].left))
    /\ task' = [task EXCEPT ![t] = IF Len(@.left) = 1 THEN NoTask
                                   ELSE [lambda |-> @.lambda, left |-> Tail(@.left)]]
    /\ UNCHANGED <<configs, call_cleanup_done, record>>

\* call.ended or call.failed, whichever call it names.
CallEnded ==
    /\ configs.made > 0
    /\ task["ws"] = NoTask
    /\ call' = "Idle"
    /\ cleanupCall("ws")
    /\ UNCHANGED <<configs, pc, capture, mic, playback, record, jitterVars>>

\* An error while calling, or the end of the connection during a call; it is
\* cleanupCall alone that resets the call, if it does anything.
CallBroken ==
    /\ call # "Idle"
    /\ task["ws"] = NoTask
    /\ cleanupCall("ws")
    /\ UNCHANGED <<callVars, pc, capture, mic, playback, record, jitterVars>>

rtcConfig ==
    /\ configs.received < configs.made
    /\ task["ws"] = NoTask
    /\ configs' = [configs EXCEPT !.received = @ + 1]
    /\ initRtc
    /\ UNCHANGED <<call, pc, capture, mic, playback, record, jitterVars>>

----------------------------------------------------------------------------
(* The rtc thread: handleStateChange, onTrack and onMessage.                *)

RtcIdle == pc.ready /\ task["rtc"] = NoTask

Connected ==
    /\ RtcIdle /\ ~pc.connected
    /\ pc' = [pc EXCEPT !.connected = TRUE]
    /\ call' = IF call = "Muted" THEN "Muted" ELSE "InCall"
    /\ UNCHANGED <<configs, call_cleanup_done, task, capture, mic, playback, record,
                   fate, jitterVars>>

Disconnected ==
    /\ RtcIdle /\ pc.connected
    /\ pc' = [pc EXCEPT !.connected = FALSE]
    /\ call' = "Idle"
    /\ UNCHANGED <<configs, call_cleanup_done, task, capture, mic, playback, record,
                   fate, jitterVars>>

Failed ==
    /\ RtcIdle
    /\ pc' = [pc EXCEPT !.connected = FALSE]
    /\ cleanupCall("rtc")
    /\ UNCHANGED <<callVars, capture, mic, playback, record, jitterVars>>

\* Playback::start: assigning to a joinable std::thread ends the program.
onTrack ==
    /\ RtcIdle /\ ~pc.heard
    /\ pc' = [pc EXCEPT !.heard = TRUE]
    /\ \/ /\ playback.running_
          /\ UNCHANGED <<playback, fate, jitterVars>>
       \/ /\ ~playback.running_ /\ playback.thread = "none"
          /\ playback' = [playback EXCEPT !.running_ = TRUE, !.thread = "loop"]
          /\ UNCHANGED fate
       \/ /\ ~playback.running_ /\ playback.thread # "none"
          /\ fate' = "terminate"
          /\ UNCHANGED playback
    /\ UNCHANGED <<callVars, call_cleanup_done, task, capture, mic, record, jitterVars>>

onMessage ==
    /\ RtcIdle /\ pc.heard
    /\ \E data \in Data : write(data)
    /\ UNCHANGED <<callVars, mainVars, capture, mic, playback, record, fate>>

----------------------------------------------------------------------------
(* The user's thread.                                                       *)

\* call leaves the caller Calling, accept the callee InCall; rtc.config is to
\* come.
Dial ==
    /\ call = "Idle" /\ configs.made < MaxCalls
    /\ \E st \in {"Calling", "InCall"} : call' = st
    /\ configs' = [configs EXCEPT !.made = @ + 1]
    /\ UNCHANGED <<mainVars, capture, mic, playback, record, fate, jitterVars>>

\* hangup stops neither the audio nor the peer connection.
hangup ==
    /\ call # "Idle"
    /\ call' = "Idle"
    /\ UNCHANGED <<configs, mainVars, capture, mic, playback, record, fate, jitterVars>>

\* mute and unmute set a flag of the session; no call reaches setMuted.
mute ==
    /\ \/ call = "InCall" /\ call' = "Muted"
       \/ call = "Muted" /\ call' = "InCall"
    /\ UNCHANGED <<configs, mainVars, capture, mic, playback, record, fate, jitterVars>>

\* The frames that the Capture in hand has read.
FramesRead == IF mic.own THEN mic.frame ELSE 0

\* Mutant of startRecording: the buffer is not cleared.
startRecordingOnto == capture' = [capture EXCEPT !.recording_ = TRUE]

startRecording == capture' = [capture EXCEPT !.recording_ = TRUE, !.record_buf_ = <<>>]

\* Without a Capture the command succeeds and nothing is recorded.
record_ ==
    /\ ~record.active
    /\ record' = [active |-> TRUE, id |-> capture.id, from |-> FramesRead]
    /\ IF capture.id = 0 THEN UNCHANGED capture ELSE startRecording
    /\ UNCHANGED <<callVars, mainVars, mic, playback, fate, jitterVars>>

\* What stopRecording returns, which writeWav puts into the file.
Recorded == capture.record_buf_

\* recording_ is cleared before record_mutex_ is taken.
stop ==
    /\ record.active
    /\ record' = NotRecording
    /\ capture' = IF capture.id = 0 THEN capture ELSE NewCapture(capture.id)
    /\ UNCHANGED <<callVars, mainVars, mic, playback, fate, jitterVars>>

\* playFile writes to the local loudspeaker's buffer.
sendfile ==
    /\ call # "Idle" /\ playback.made
    /\ \E data \in Data : write(data)
    /\ UNCHANGED <<callVars, mainVars, capture, mic, playback, record, fate>>

----------------------------------------------------------------------------

AudioNext ==
    /\ fate = "fine"
    /\ \/ MicStep \/ PlaybackLoop \/ \E t \in Thread : Step(t)
       \/ CallEnded \/ CallBroken \/ rtcConfig
       \/ Connected \/ Disconnected \/ Failed \/ onTrack \/ onMessage
       \/ Dial \/ hangup \/ mute \/ record_ \/ stop \/ sendfile

AudioSpec == AudioInit /\ [][AudioNext]_audioVars

----------------------------------------------------------------------------

(* Nothing in main.cpp:64-147 but call_cleanup_done keeps the threads that
   set up and tear down calls apart.  It suffices against two teardowns:
   lambdas overlap, and the peer connection goes while the capture callback
   is using it (main.cpp:125-133), only when initRtc takes part, that is
   when a new call's rtc.config meets a teardown in progress, or a capture
   thread that a local hangup left running. *)
OnlyNewCallsCollide ==
    fate \in {"overlap", "dangling"} => task["ws"].lambda = "initRtc"

\* Thread t waits in Playback::stop for the playback thread.
JoinsPlayback(t) == task[t] # NoTask /\ Head(task[t].left) = "joinPlayback"

(* Playback::start (playback.cpp:79-83) never assigns to a thread that was
   not joined, unless the remote track comes while Playback::stop waits in
   join (playback.cpp:85-90); a playback thread that a device error ended is
   not restarted either. *)
PlaybackThreadJoined == fate = "terminate" => \E t \in Thread : JoinsPlayback(t)

\* f is a run of frames that covers the recording.
Whole(f) ==
    /\ \A i \in 1 .. Len(f) : f[i] = f[1] + i - 1
    /\ IF f = <<>> THEN FramesRead <= record.from + 1
       ELSE f[1] - record.from \in {0, 1} /\ FramesRead - f[Len(f)] \in {0, 1}

(* A saved recording (capture.cpp:92-102, 123-128) is a run of consecutive
   frames without a gap: from the frame in hand when record was typed, or
   the one after it, to the frame in hand when stop was typed, or the one
   before it; none is left over from an earlier recording.  Only when a new
   call has replaced the Capture in between (main.cpp:124) is all lost. *)
RecordingsWhole ==
    [][stop => IF record.id = capture.id THEN Whole(Recorded) ELSE Recorded = <<>>]_audioVars

(* cleanupCall and initRtc come to their end, for each thread that they wait
   for has been told to stop (capture.cpp:86-90, playback.cpp:85-90); unless
   the remote track comes in the midst of Playback::stop and start() sets
   running_ again: the join then waits for a thread that nothing stops. *)
JoinsStoppedThreads ==
    \A t \in Thread : task[t] # NoTask =>
        /\ Head(task[t].left) = "joinCapture" => ~mic.running_
        /\ JoinsPlayback(t) /\ playback.running_ => pc.heard /\ task[t].lambda = "cleanupCall"
============================================================================
