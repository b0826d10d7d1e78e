-------------------------------- MODULE HubMedia --------------------------------
(***************************************************************************)
(* The conversion of videos, sounds and GIFs: the queue behind             *)
(* POST /v1/media (internal/api/media.go: handleMedia, reserve, RunMedia,  *)
(* convert, pinMedia) and the ladder of ffmpeg runs that fits a file under *)
(* the cap (internal/media/convert.go: Convert, video, audio).             *)
(*                                                                         *)
(* An upload is a goroutine of its own until its job is queued; one        *)
(* goroutine converts.  Who may upload is the door's business.  Of a file  *)
(* the model keeps what decides which runs are made: what the probe finds, *)
(* whether a run fails, and whether its output fits.                       *)
(***************************************************************************)
EXTENDS Integers, Sequences, FiniteSets

CONSTANTS
    Jobs,       \* the jobs there may ever be
    Uploaders,
    QueueMax,   \* jobs that may wait behind the one converting
    NVENC,      \* whether New found that NVENC runs,
    Vulkan,     \* and the Vulkan filters
    Restarts    \* bound: the times the hub starts again

ASSUME JobsAssumption == IsFiniteSet(Jobs)
ASSUME QueueAssumption == QueueMax \in Nat \ {0} /\ Restarts \in Nat
ASSUME EncoderAssumption == {NVENC, Vulkan} \subseteq BOOLEAN

VARIABLES
    jobs,       \* m.jobs, and what became of the jobs that are not there
    queue,      \* m.queue
    conv,       \* the converting goroutine
    outputs,    \* the files pinned: [job, part]
    arrivals,   \* m.seq
    restarts

media == <<jobs, queue, conv, outputs, arrivals, restarts>>

Statuses == {"none", "uploading", "queued", "converting", "done", "failed", "gone"}

\* why: "big" when no run wrote a file under the cap; misses: the runs of x264 that
\* were over it.
Job == [status : Statuses, by : Uploaders \cup {"nobody"}, seq : 0 .. Cardinality(Jobs),
        why : {"", "big", "other"}, misses : 0 .. 4]

NoJob == [status |-> "none", by |-> "nobody", seq |-> 0, why |-> "", misses |-> 0]

\* try, gpu, nvenc: the variables of video.  sound: a run of audio, which has no
\* second try.
Converter == [pc : {"idle", "probe", "run", "sound", "poster", "pinposter", "pin"},
              job : Jobs \cup {0}, try : 0 .. 3, gpu : BOOLEAN, nvenc : BOOLEAN]

AtRest == [pc |-> "idle", job |-> 0, try |-> 0, gpu |-> FALSE, nvenc |-> FALSE]

MediaInit ==
    /\ jobs = [j \in Jobs |-> NoJob]
    /\ queue = <<>>
    /\ conv = AtRest
    /\ outputs = {}
    /\ arrivals = 0
    /\ restarts = 0

Open(j) == jobs[j].status \in {"uploading", "queued", "converting"}
Ended(j) == jobs[j].status \in {"done", "failed"}

-----------------------------------------------------------------------------
(* The uploads.                                                            *)

\* For JobsEnd: a job the queue has no place for stays.
SlipDropped(s) == s

\* drop.
Dropped(s) == [NoJob EXCEPT !.status = "gone"]

\* reserve, past the policy: a job for an uploader with none open; jobs that ended
\* over an hour ago are forgotten on the way.
Reserve(j, a) ==
    /\ jobs[j].status = "none"
    /\ \A o \in Jobs : jobs[o].by = a => ~Open(o)
    /\ arrivals' = arrivals + 1
    /\ \E old \in SUBSET {o \in Jobs : Ended(o)} :
          jobs' = [o \in Jobs |->
              IF o = j THEN [NoJob EXCEPT !.status = "uploading", !.by = a, !.seq = arrivals + 1]
              ELSE IF o \in old THEN Dropped(jobs[o])
              ELSE jobs[o]]
    /\ UNCHANGED <<queue, conv, outputs, restarts>>

\* The body breaks off, is too big, or is not what was signed.
UploadFails(j) ==
    /\ jobs[j].status = "uploading"
    /\ jobs' = [jobs EXCEPT ![j] = Dropped(@)]
    /\ UNCHANGED <<queue, conv, outputs, arrivals, restarts>>

\* The body is in and signed for: the job is marked as queued ...
Uploaded(j) ==
    /\ jobs[j].status = "uploading"
    /\ jobs' = [jobs EXCEPT ![j].status = "queued"]
    /\ UNCHANGED <<queue, conv, outputs, arrivals, restarts>>

InQueue(j) == \E i \in DOMAIN queue : queue[i] = j

\* For MediaTypeOK: one more than the channel holds.
SlipRoom == Len(queue) <= QueueMax

Room == Len(queue) < QueueMax

\* ... and then queued, or dropped when sixteen wait.
Enqueue(j) ==
    /\ jobs[j].status = "queued" /\ ~InQueue(j)
    /\ IF Room
       THEN queue' = Append(queue, j) /\ UNCHANGED jobs
       ELSE jobs' = [jobs EXCEPT ![j] = Dropped(@)] /\ UNCHANGED queue
    /\ UNCHANGED <<conv, outputs, arrivals, restarts>>

-----------------------------------------------------------------------------
(* The conversion.                                                         *)

\* The next of the queue.  RunMedia takes it and marks it in one go; a job it has
\* taken is in no queue.
Begin ==
    /\ conv.pc = "idle" /\ queue # <<>>
    /\ queue' = Tail(queue)
    /\ conv' = [AtRest EXCEPT !.pc = "probe", !.job = Head(queue)]
    /\ jobs' = [jobs EXCEPT ![Head(queue)].status = "converting"]
    /\ UNCHANGED <<outputs, arrivals, restarts>>

Fails(why) ==
    /\ conv' = AtRest
    /\ jobs' = [jobs EXCEPT ![conv.job].status = "failed", ![conv.job].why = why]

\* Probe: what ffprobe finds in a file, by the codec of its picture.
Found == {"unreadable", "nothing", "sound", "still", "gif", "h264", "vp9"}

\* Convert: any of them may be out of range.  A GIF that moves is never the GPU's,
\* nor is a codec Vulkan does not decode; a still one is pinned as it came.
Probe ==
    /\ conv.pc = "probe"
    /\ \E found \in Found :
          \/ Fails("other")
          \/ /\ found \in {"gif", "h264", "vp9"}
             /\ conv' = [conv EXCEPT !.pc = "run", !.gpu = Vulkan /\ found = "h264", !.nvenc = NVENC]
             /\ UNCHANGED jobs
          \/ found = "sound" /\ conv' = [conv EXCEPT !.pc = "sound"] /\ UNCHANGED jobs
          \/ found = "still" /\ conv' = [conv EXCEPT !.pc = "pin"] /\ UNCHANGED jobs
    /\ UNCHANGED <<queue, outputs, arrivals, restarts>>

\* A run fails, or is stopped at twice the length and 30 s: the GPU chain falls to
\* the CPU, then NVENC to x264, in the same try; x264's failure is the job's.
RunFails ==
    /\ conv.pc = "run"
    /\ \/ conv.gpu /\ conv' = [conv EXCEPT !.gpu = FALSE] /\ UNCHANGED jobs
       \/ ~conv.gpu /\ conv.nvenc /\ conv' = [conv EXCEPT !.nvenc = FALSE] /\ UNCHANGED jobs
       \/ ~conv.gpu /\ ~conv.nvenc /\ Fails("other")
    /\ UNCHANGED <<queue, outputs, arrivals, restarts>>

\* For X264Tried: a third miss of NVENC's.
SlipSwitch(try) == try = 2

\* The try whose miss takes NVENC away.
Switch(try) == try = 1

\* The output is over the cap: again at a lower rate, four times in all.
Misses ==
    /\ conv.pc = "run"
    /\ LET counted == [jobs EXCEPT ![conv.job].misses = IF conv.nvenc THEN @ ELSE @ + 1] IN
       IF conv.try = 3
       THEN /\ conv' = AtRest
            /\ jobs' = [counted EXCEPT ![conv.job].status = "failed", ![conv.job].why = "big"]
       ELSE /\ conv' = [conv EXCEPT !.try = @ + 1, !.nvenc = @ /\ ~Switch(conv.try)]
            /\ jobs' = counted
    /\ UNCHANGED <<queue, outputs, arrivals, restarts>>

Fits ==
    /\ conv.pc = "run"
    /\ conv' = [conv EXCEPT !.pc = "poster"]
    /\ UNCHANGED <<jobs, queue, outputs, arrivals, restarts>>

\* One run for a sound, and one for a poster or a waveform.
Runs ==
    /\ conv.pc \in {"sound", "poster"}
    /\ \/ Fails("other")
       \/ /\ conv' = [conv EXCEPT !.pc = IF @ = "sound" THEN "poster" ELSE "pinposter"]
          /\ UNCHANGED jobs
    /\ UNCHANGED <<queue, outputs, arrivals, restarts>>

\* pinMedia: the poster first; kubo may fail at either.
Pin ==
    /\ conv.pc \in {"pinposter", "pin"}
    /\ \/ Fails("other") /\ UNCHANGED outputs
       \/ /\ conv.pc = "pinposter"
          /\ outputs' = outputs \cup {[job |-> conv.job, part |-> "poster"]}
          /\ conv' = [conv EXCEPT !.pc = "pin"]
          /\ UNCHANGED jobs
       \/ /\ conv.pc = "pin"
          /\ outputs' = outputs \cup {[job |-> conv.job, part |-> "file"]}
          /\ conv' = AtRest
          /\ jobs' = [jobs EXCEPT ![conv.job].status = "done"]
    /\ UNCHANGED <<queue, arrivals, restarts>>

\* The jobs are in memory, and their directory is emptied at start.
Restart ==
    /\ restarts < Restarts
    /\ restarts' = restarts + 1
    /\ jobs' = [j \in Jobs |-> IF jobs[j].status = "none" THEN NoJob ELSE Dropped(jobs[j])]
    /\ queue' = <<>>
    /\ conv' = AtRest
    /\ arrivals' = 0
    /\ UNCHANGED outputs

Convert == Begin \/ Probe \/ RunFails \/ Misses \/ Fits \/ Runs \/ Pin

\* What becomes of an upload that is under way.
Comes(j) == UploadFails(j) \/ Uploaded(j) \/ Enqueue(j)

MediaNext ==
    \/ \E j \in Jobs : (\E a \in Uploaders : Reserve(j, a)) \/ Comes(j)
    \/ Convert
    \/ Restart

\* An upload ends, well or not: the client's connection does not stay open for
\* ever.  A run of ffmpeg ends, being stopped if it must.
MediaFairness == (\A j \in Jobs : WF_media(Comes(j))) /\ WF_media(Convert)

MediaSpec == MediaInit /\ [][MediaNext]_media /\ MediaFairness

-----------------------------------------------------------------------------
\* The types of the jobs, the queue, the converter and the pinned outputs.
MediaTypeOK ==
    /\ jobs \in [Jobs -> Job]
    /\ queue \in Seq(Jobs) /\ Len(queue) <= QueueMax
    /\ conv \in Converter
    /\ outputs \subseteq [job : Jobs, part : {"poster", "file"}]
    /\ arrivals \in 0 .. Cardinality(Jobs)
    /\ restarts \in 0 .. Restarts

\* A video is given up as too big only after x264 has written it over the cap twice,
\* whatever the GPU and NVENC did in the tries before: NVENC has a floor it will not
\* go under, and its misses say little of what x264 can do.
X264Tried == \A j \in Jobs : jobs[j].why = "big" => jobs[j].misses >= 2

\* Every job that was opened ends, so no uploader is shut out by a job that is
\* open for ever: whichever upload breaks off, finds the queue full, is not
\* readable, or has a conversion that fails or a hub that starts again.
JobsEnd == \A j \in Jobs : Open(j) ~> ~Open(j)
=============================================================================
