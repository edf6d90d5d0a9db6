-------------------------- MODULE CliImports_proofs --------------------------
(***************************************************************************)
(* Proofs about CliImports for all time zones, recordings and chats: when  *)
(* the time of a Zoom message is right, first of the function that works   *)
(* it out and then of the vCon, whatever else is imported into it; that    *)
(* chats are imported as a whole; and that each sender is one party.       *)
(***************************************************************************)
EXTENDS CliImports, VconContent_proofs

-----------------------------------------------------------------------------
\* Dates and times of day

LEMMA Minutes == Hour = 60 /\ Day = 1440
BY DEF Hour, Day

LEMMA DateAndTime ==
    ASSUME NEW t \in Int
    PROVE  /\ Date(t) \in Int /\ TimeOfDay(t) \in Int
           /\ t = Date(t) * 1440 + TimeOfDay(t)
           /\ 0 <= TimeOfDay(t) /\ TimeOfDay(t) < 1440
BY DEF Date, TimeOfDay, Day, Hour

LEMMA DateBounds ==
    ASSUME NEW t \in Int
    PROVE  /\ Date(t) \in Int
           /\ Date(t) * 1440 <= t /\ t < (Date(t) + 1) * 1440
BY DEF Date, Day, Hour

LEMMA HourOfDay ==
    ASSUME NEW t \in Int
    PROVE  /\ HourOf(t) \in 0 .. 23 /\ HourOf(t) \in Int
           /\ TimeOfDay(t) - HourOf(t) * 60 >= 0
BY DEF HourOf, TimeOfDay, Day, Hour

\* Replacing the hour keeps the date.
LEMMA OtherHourIsSameDay ==
    ASSUME NEW t \in Int, NEW start \in Int, NEW end \in Int
    PROVE  /\ OtherHour(t, start, end) \in Int
           /\ OtherHour(t, start, end) >= Date(t) * 1440
<1> DEFINE d == Date(t)
           r == TimeOfDay(t)
           old == HourOf(t)
<1>1. /\ d \in Int /\ r \in Int /\ old \in Int
      /\ t = d * 1440 + r
      /\ 0 <= r /\ r - old * 60 >= 0
  <2>1. d \in Int /\ r \in Int /\ t = d * 1440 + r /\ 0 <= r
    BY DateAndTime
  <2>2. old \in Int /\ r - old * 60 >= 0
    BY HourOfDay
  <2> QED
    BY <2>1, <2>2
<1>2. HourOf(start) \in 0 .. 23 /\ HourOf(end) \in 0 .. 23
  BY HourOfDay
<1>3. \A h \in 0 .. 23 : ReplaceHour(t, h) = t + (h - old) * 60
  BY DEF ReplaceHour, Hour
<1> HIDE DEF d, r, old
<1>4. \A h \in 0 .. 23 :
          /\ t + (h - old) * 60 \in Int
          /\ t + (h - old) * 60 >= d * 1440
  BY <1>1
<1>5. t >= d * 1440
  BY <1>1
<1>6. \/ OtherHour(t, start, end) = t
      \/ \E h \in 0 .. 23 : OtherHour(t, start, end) = t + (h - old) * 60
  BY <1>2, <1>3 DEF OtherHour
<1>7. /\ OtherHour(t, start, end) \in Int
      /\ OtherHour(t, start, end) >= d * 1440
  BY <1>4, <1>5, <1>6
<1> QED
  BY <1>7 DEF d

LEMMA NextDay ==
    ASSUME NEW t \in Int, NEW start \in Int, NEW end \in Int,
           NEW day \in Int, t >= day * 1440
    PROVE  /\ OtherHour(t, start, end) \in Int
           /\ OtherHour(t, start, end) >= day * 1440
<1> DEFINE d == Date(t)
           other == OtherHour(t, start, end)
<1>1. d \in Int /\ d * 1440 <= t /\ t < (d + 1) * 1440
  BY DateBounds
<1>2. other \in Int /\ other >= d * 1440
  BY OtherHourIsSameDay
<1> HIDE DEF d, other
<1>3. d >= day
  BY <1>1
<1> QED
  BY <1>1, <1>2, <1>3 DEF other

\* The date on which the sender's clock shows the time of day.
LEMMA OnDateFromLocal ==
    ASSUME NEW sent \in Int, NEW meetingZone \in Int, NEW zone \in Int,
           NEW date \in Int
    PROVE  OnDate(date, TimeOfDay(sent + meetingZone), zone)
               = sent - (zone - meetingZone)
                      - (Date(sent + meetingZone) - date) * 1440
<1> DEFINE d == Date(sent + meetingZone)
           r == TimeOfDay(sent + meetingZone)
<1>1. d \in Int /\ r \in Int /\ sent + meetingZone = d * 1440 + r
  BY DateAndTime
<1>2. OnDate(date, r, zone) = date * 1440 + r - zone
  BY DEF OnDate, Day, Hour
<1> HIDE DEF d, r
<1>3. date * 1440 + r - zone = sent - (zone - meetingZone) - (d - date) * 1440
  BY <1>1
<1> QED
  BY <1>2, <1>3 DEF d, r

\* A recording with a message in it that was sent while it was made.
Meeting(sent, start, end, meetingZone, zone) ==
    /\ sent \in Int /\ start \in Int /\ end \in Int
    /\ meetingZone \in Int /\ zone \in Int
    /\ start <= sent /\ sent <= end
    /\ zone \in Zone

\* On or before the sender's date, the first guess is never after the message,
\* and so it is accepted.
LEMMA EarlyIsAccepted ==
    ASSUME NEW sent, NEW start, NEW end, NEW meetingZone, NEW zone,
           Meeting(sent, start, end, meetingZone, zone),
           zone - meetingZone >= 0,
           Date(start) <= Date(sent + meetingZone)
    PROVE  LET tod == TimeOfDay(sent + meetingZone) IN
           /\ ~Raises(tod, start, end, zone)
           /\ ZoomChatToUtc(tod, start, end, zone)
               = sent - (zone - meetingZone)
                      - (Date(sent + meetingZone) - Date(start)) * 1440
<1> DEFINE tod == TimeOfDay(sent + meetingZone)
           local == Date(sent + meetingZone)
           day == Date(start)
           first == OnDate(day, tod, zone)
<1>1. /\ sent \in Int /\ start \in Int /\ end \in Int
      /\ meetingZone \in Int /\ zone \in Int
      /\ start <= sent /\ sent <= end
  BY DEF Meeting
<1>2. day \in Int /\ local \in Int /\ day <= local
  BY <1>1, DateAndTime
<1>3. first = sent - (zone - meetingZone) - (local - day) * 1440
  BY <1>1, <1>2, OnDateFromLocal
<1>4. Accepted(first, start, end) =>
          /\ ZoomChatToUtc(tod, start, end, zone) = first
          /\ ~Raises(tod, start, end, zone)
  BY DEF ZoomChatToUtc, Guesses, Raises
<1> HIDE DEF tod, local, day, first
<1>5. first \in Int /\ first <= sent
  BY <1>1, <1>2, <1>3
<1>6. Accepted(first, start, end)
  BY <1>1, <1>5 DEF Accepted, Tolerance
<1>7. /\ ~Raises(tod, start, end, zone)
      /\ ZoomChatToUtc(tod, start, end, zone)
             = sent - (zone - meetingZone) - (local - day) * 1440
  BY <1>3, <1>4, <1>6
<1> QED
  BY <1>7 DEF tod, local, day

\* After the sender's date, on a machine in the zone of the meeting: the first
\* two guesses are on the next day and are not accepted, the third one is right
\* if it is accepted.
LEMMA LateIsRefused ==
    ASSUME NEW sent, NEW start, NEW end, NEW zone,
           Meeting(sent, start, end, zone, zone),
           end - start < 12 * Hour,
           Date(start) > Date(sent + zone)
    PROVE  LET tod == TimeOfDay(sent + zone) IN
           \/ /\ Raises(tod, start, end, zone)
              /\ OverMidnight(sent, start, end, zone)
           \/ /\ ~Raises(tod, start, end, zone)
              /\ ZoomChatToUtc(tod, start, end, zone) = sent
<1> DEFINE tod == TimeOfDay(sent + zone)
           local == Date(sent + zone)
           day == Date(start)
           last == Date(end + zone)
           first == OnDate(day, tod, zone)
           second == OtherHour(first, start, end)
           third == OnDate(last, tod, zone)
<1>1. /\ sent \in Int /\ start \in Int /\ end \in Int /\ zone \in Int
      /\ start <= sent /\ sent <= end /\ end < start + 720
      /\ -720 <= zone /\ zone <= 840
  BY DEF Meeting, Zone, Hour
<1>2. /\ day \in Int /\ local \in Int /\ last \in Int
      /\ day * 1440 <= start
      /\ local * 1440 <= sent + zone /\ sent + zone < (local + 1) * 1440
      /\ last * 1440 <= end + zone /\ end + zone < (last + 1) * 1440
      /\ day > local
  <2>1. sent + zone \in Int /\ end + zone \in Int
    BY <1>1
  <2>2. day \in Int /\ day * 1440 <= start
    BY <1>1, DateBounds
  <2>3. /\ local \in Int
        /\ local * 1440 <= sent + zone /\ sent + zone < (local + 1) * 1440
    BY <2>1, DateBounds
  <2>4. /\ last \in Int
        /\ last * 1440 <= end + zone /\ end + zone < (last + 1) * 1440
    BY <2>1, DateBounds
  <2> QED
    BY <2>2, <2>3, <2>4
<1>3. /\ first = sent - (local - day) * 1440
      /\ third = sent - (local - last) * 1440
  <2>1. \A date \in Int :
            OnDate(date, tod, zone)
                = sent - (zone - zone) - (local - date) * 1440
    BY <1>1, OnDateFromLocal
  <2>2. /\ first = sent - (zone - zone) - (local - day) * 1440
        /\ third = sent - (zone - zone) - (local - last) * 1440
    BY <1>2, <2>1
  <2> HIDE DEF local, day, last, first, third
  <2> QED
    BY <1>1, <1>2, <2>2
<1>4. /\ ZoomChatToUtc(tod, start, end, zone) =
             IF Accepted(first, start, end) THEN first
             ELSE IF Accepted(second, start, end) THEN second ELSE third
      /\ Raises(tod, start, end, zone) =
             ~Accepted(ZoomChatToUtc(tod, start, end, zone), start, end)
  BY DEF ZoomChatToUtc, Guesses, Raises
<1>5. local < day /\ local < last => OverMidnight(sent, start, end, zone)
  BY DEF OverMidnight
<1> HIDE DEF tod, local, day, last, first, second, third
<1>6. local = day - 1 /\ sent < day * 1440 + 720
  BY <1>1, <1>2
<1>7. first = sent + 1440 /\ first \in Int
  BY <1>1, <1>2, <1>3, <1>6
<1>8. ~Accepted(first, start, end)
  BY <1>1, <1>7 DEF Accepted, Tolerance
<1>9. second \in Int /\ second >= (day + 1) * 1440
  <2>1. /\ first \in Int /\ start \in Int /\ end \in Int /\ day + 1 \in Int
        /\ first >= (day + 1) * 1440
    BY <1>1, <1>2, <1>7
  <2>2. /\ OtherHour(first, start, end) \in Int
        /\ OtherHour(first, start, end) >= (day + 1) * 1440
    BY <2>1, NextDay
  <2> QED
    BY <2>2 DEF second
<1>10. ~Accepted(second, start, end)
  BY <1>1, <1>2, <1>6, <1>9 DEF Accepted, Tolerance
<1>11. ZoomChatToUtc(tod, start, end, zone) = third
  BY <1>4, <1>8, <1>10
<1>12. CASE last = local
  <2>1. third = sent
    BY <1>1, <1>2, <1>3, <1>12
  <2>2. Accepted(third, start, end)
    BY <1>1, <2>1 DEF Accepted
  <2>3. ~Raises(tod, start, end, zone)
    BY <1>4, <1>11, <2>2
  <2> QED
    BY <1>11, <2>1, <2>3 DEF tod
<1>13. CASE last # local
  <2>1. last > local
    BY <1>1, <1>2, <1>13
  <2>2. third \in Int /\ third >= sent + 1440
    BY <1>1, <1>2, <1>3, <2>1
  <2>3. ~Accepted(third, start, end)
    BY <1>1, <2>2 DEF Accepted, Tolerance
  <2>4. Raises(tod, start, end, zone)
    BY <1>4, <1>11, <2>3
  <2>5. OverMidnight(sent, start, end, zone)
    BY <1>2, <1>5, <2>1
  <2> QED
    BY <2>4, <2>5 DEF tod
<1> QED
  BY <1>12, <1>13

\* The time of a Zoom message is one.
LEMMA TimeIsTime ==
    ASSUME NEW tod \in Int, NEW start \in Int, NEW end \in Int, NEW zone \in Int
    PROVE  ZoomChatToUtc(tod, start, end, zone) \in Int
<1>1. end + zone \in Int
  OBVIOUS
<1>2. Date(start) \in Int /\ Date(end + zone) \in Int
  BY <1>1, DateBounds
<1>3. \A date \in Int : OnDate(date, tod, zone) \in Int
  BY DEF OnDate, Day, Hour
<1>4. \A t \in Int : OtherHour(t, start, end) \in Int
  BY OtherHourIsSameDay
<1> QED
  BY <1>2, <1>3, <1>4 DEF ZoomChatToUtc, Guesses

-----------------------------------------------------------------------------
\* The invariant

Zoomed == [kind : {"video"}, start : Int, end : Int]

Commands == {"none", "in-recording", "in-email", "in-zoom", "in-meet"}

Jobs == [command : Commands,
         source : ZoomDirectory \cup MeetRecording \cup Message
                      \cup {NotRecorded},
         zone : Int, todo : SUBSET Entry,
         recorded : Zoomed \cup {NotRecorded}, hasChat : BOOLEAN,
         stage : {"list", "chat", "raised", "done"},
         chat : Seq([sender : STRING, start : Int]),
         first : Nat, chatAt : Nat]

TypesOfJobs ==
    /\ starts \in Seq(Int) /\ saved.starts \in Seq(Int)
    /\ job \in Jobs \cup {Idle}
    /\ imports \in Seq(Jobs)

\* A command adds to what was saved.
StartsGrow ==
    /\ Len(saved.starts) <= Len(starts)
    /\ \A i \in 1 .. Len(saved.starts) : starts[i] = saved.starts[i]

TimeOf(j, k) == ZoomChatToUtc(Written(j.source, j.source.chat[k]),
                              j.recorded.start, j.recorded.end, j.zone)

FromZoom(j) == /\ j.source \in ZoomDirectory /\ j.zone \in MachineZone
               /\ j.recorded # NotRecorded

\* The times of the chat were accepted, and are given to the first n messages.
Dated(j, ss, n) ==
    /\ FromZoom(j)
    /\ \A k \in 1 .. Len(j.source.chat) :
           ~Raises(Written(j.source, j.source.chat[k]),
                   j.recorded.start, j.recorded.end, j.zone)
    /\ \A k \in 1 .. n : /\ j.chatAt + k \in 1 .. Len(ss)
                         /\ ss[j.chatAt + k] = TimeOf(j, k)

\* The command that runs has added messages, and has the times of the others.
JobIsDated ==
    /\ job.stage = "list" => job.command = "in-zoom"
    /\ job.command = "in-zoom" =>
        /\ job.source \in ZoomDirectory /\ job.zone \in MachineZone
        /\ job.stage \in {"chat", "done"} /\ job.hasChat =>
               LET n == Len(job.source.chat) - Len(job.chat) IN
               /\ n \in Nat
               /\ Len(starts) = job.chatAt + n
               /\ Dated(job, starts, n)
               /\ \A k \in 1 .. Len(job.chat) :
                      job.chat[k].start = TimeOf(job, n + k)
        /\ job.stage = "done" /\ job.hasChat => job.chat = <<>>

ImportsAreDated ==
    \A i \in 1 .. Len(imports) :
        imports[i].command = "in-zoom" /\ imports[i].hasChat =>
            Dated(imports[i], saved.starts, Len(imports[i].source.chat))

RefusedRaised ==
    refused # NotRecorded =>
        /\ refused.message \in [sender : STRING, sent : Int]
        /\ refused.job \in Jobs
        /\ FromZoom(refused.job)
        /\ Raises(Written(refused.job.source, refused.message),
                  refused.job.recorded.start, refused.job.recorded.end,
                  refused.job.zone)

ImportsInv ==
    /\ TypesOfJobs
    /\ StartsGrow
    /\ job # Idle => JobIsDated
    /\ ImportsAreDated
    /\ RefusedRaised

LEMMA ImportsInit_Inv == ImportsInit => ImportsInv
BY DEF ImportsInit, ImportsInv, TypesOfJobs, StartsGrow, ImportsAreDated,
       RefusedRaised, Held, Idle, NotRecorded

LEMMA ZonesAreInts == \A zone \in Zone : zone \in Int
BY DEF Zone, Hour

\* What is known of a chat.
LEMMA ZoomTypes ==
    ASSUME NEW z \in ZoomDirectory, NEW m \in [sender : STRING, sent : Int]
    PROVE  /\ z.chat \in Seq([sender : STRING, sent : Int])
           /\ z.entries \subseteq Entry
           /\ z.zone \in Int /\ z.zone \in Zone
           /\ Written(z, m) \in Int
           /\ Written(z, m) = TimeOfDay(m.sent + z.zone)
<1>1. /\ z.zone \in Zone /\ z.entries \subseteq Entry
      /\ z.chat \in Seq([sender : STRING, sent : Int])
  BY ImportsAssumption
<1>2. z.zone \in Int
  BY <1>1, ZonesAreInts
<1>3. m.sent + z.zone \in Int
  BY <1>2
<1>4. TimeOfDay(m.sent + z.zone) \in Int
  BY <1>3, DateAndTime
<1> QED
  BY <1>1, <1>2, <1>4 DEF Written

-----------------------------------------------------------------------------
\* Every action keeps it

LEMMA IdleIsNoJob == Idle \notin Jobs
BY DEF Idle, Jobs

\* A command that is not from Zoom, or has no chat yet: nothing is dated.
LEMMA Undated ==
    ASSUME ImportsInv, job' \in Jobs,
           starts' \in Seq(Int), UNCHANGED <<saved, imports, refused>>,
           Len(saved.starts) <= Len(starts'),
           \A i \in 1 .. Len(saved.starts) : starts'[i] = saved.starts[i],
           job'.stage = "list" => job'.command = "in-zoom",
           job'.command = "in-zoom" =>
               /\ job'.source \in ZoomDirectory /\ job'.zone \in MachineZone
               /\ job'.stage \in {"chat", "done"} => ~job'.hasChat
    PROVE  ImportsInv'
<1>1. TypesOfJobs'
  BY DEF ImportsInv, TypesOfJobs
<1>2. StartsGrow'
  BY DEF StartsGrow
<1>3. JobIsDated'
  BY DEF JobIsDated
<1>4. ImportsAreDated'
  BY DEF ImportsInv, ImportsAreDated
<1>5. RefusedRaised'
  BY DEF ImportsInv, RefusedRaised
<1> QED
  BY <1>1, <1>2, <1>3, <1>4, <1>5 DEF ImportsInv

\* A process that raises.
LEMMA FailKeeps ==
    ASSUME ImportsInv, Fail, RefusedRaised' PROVE ImportsInv'
<1>1. TypesOfJobs'
  BY DEF ImportsInv, TypesOfJobs, Fail
<1>2. StartsGrow'
  BY DEF ImportsInv, TypesOfJobs, StartsGrow, Fail
<1>3. ImportsAreDated'
  BY DEF ImportsInv, ImportsAreDated, Fail
<1> QED
  BY <1>1, <1>2, <1>3 DEF ImportsInv, Fail

\* A command begins.
LEMMA NewJob ==
    ASSUME TypesOfJobs, NEW command \in Commands,
           NEW source \in ZoomDirectory \cup MeetRecording \cup Message
                              \cup {NotRecorded},
           NEW zone \in Int, NEW todo \in SUBSET Entry
    PROVE  Job(command, source, zone, todo) \in Jobs
<1>1. Len(starts) \in Nat
  BY DEF TypesOfJobs
<1>2. <<>> \in Seq([sender : STRING, start : Int])
  OBVIOUS
<1> QED
  BY <1>1, <1>2 DEF Job, Jobs

\* One more dialog with a start.
LEMMA OneMoreStart ==
    ASSUME ImportsInv, NEW t \in Int, starts' = Append(starts, t)
    PROVE  /\ starts' \in Seq(Int) /\ Len(starts') = Len(starts) + 1
           /\ \A i \in 1 .. Len(starts) : starts'[i] = starts[i]
           /\ starts'[Len(starts) + 1] = t
           /\ Len(saved.starts) <= Len(starts')
           /\ \A i \in 1 .. Len(saved.starts) : starts'[i] = saved.starts[i]
<1>1. /\ starts \in Seq(Int) /\ saved.starts \in Seq(Int)
      /\ Len(saved.starts) <= Len(starts)
      /\ \A i \in 1 .. Len(saved.starts) : starts[i] = saved.starts[i]
  BY DEF ImportsInv, TypesOfJobs, StartsGrow
<1>2. /\ starts' \in Seq(Int) /\ Len(starts') = Len(starts) + 1
      /\ \A i \in 1 .. Len(starts) : starts'[i] = starts[i]
      /\ starts'[Len(starts) + 1] = t
  BY <1>1
<1>3. Len(saved.starts) <= Len(starts')
  BY <1>1, <1>2
<1>4. ASSUME NEW i \in 1 .. Len(saved.starts)
      PROVE  starts'[i] = saved.starts[i]
  <2>1. i \in 1 .. Len(starts)
    BY <1>1
  <2> QED
    BY <1>1, <1>2, <2>1
<1> QED
  BY <1>2, <1>3, <1>4

LEMMA InRecordingKeeps ==
    ASSUME ImportsInv, NEW ps, InRecording(ps) PROVE ImportsInv'
<1>1. TypesOfJobs
  BY DEF ImportsInv
<1>2. Job("in-recording", NotRecorded, 0, {}) \in Jobs
  BY <1>1, NewJob DEF Commands
<1>3. /\ job' = [Job("in-recording", NotRecorded, 0, {})
                     EXCEPT !.stage = "done"]
      /\ starts' = Append(starts, NotDated)
      /\ UNCHANGED <<saved, imports, refused>>
  BY DEF InRecording
<1>4. job' \in Jobs /\ job'.command = "in-recording" /\ job'.stage # "list"
  BY <1>2, <1>3 DEF Jobs, Job
<1>5. NotDated \in Int
  BY DEF NotDated
<1> QED
  BY <1>3, <1>4, <1>5, OneMoreStart, Undated

LEMMA InEmailKeeps ==
    ASSUME ImportsInv, NEW m \in Message, InEmail(m) PROVE ImportsInv'
<1>1. TypesOfJobs
  BY DEF ImportsInv
<1>2. Job("in-email", m, 0, {}) \in Jobs
  BY <1>1, NewJob DEF Commands
<1>3. NotDated \in Int
  BY DEF NotDated
<1>4. UNCHANGED <<saved, imports, refused>>
  BY DEF InEmail
<1>5. CASE /\ starts' = Append(starts, NotDated)
           /\ job' = [Job("in-email", m, 0, {}) EXCEPT !.stage = "done"]
  <2>1. job' \in Jobs /\ job'.command = "in-email" /\ job'.stage # "list"
    BY <1>2, <1>5 DEF Jobs, Job
  <2> QED
    BY <1>3, <1>4, <1>5, <2>1, OneMoreStart, Undated
<1>6. CASE /\ starts' = starts
           /\ job' = [Job("in-email", m, 0, {}) EXCEPT !.stage = "raised"]
  <2>1. job' \in Jobs /\ job'.command = "in-email" /\ job'.stage # "list"
    BY <1>2, <1>6 DEF Jobs, Job
  <2>2. /\ starts' \in Seq(Int) /\ Len(saved.starts) <= Len(starts')
        /\ \A i \in 1 .. Len(saved.starts) : starts'[i] = saved.starts[i]
    BY <1>6 DEF ImportsInv, TypesOfJobs, StartsGrow
  <2> QED
    BY <1>4, <2>1, <2>2, Undated
<1> QED
  BY <1>5, <1>6 DEF InEmail

LEMMA RaiseKeeps ==
    ASSUME ImportsInv, Raise PROVE ImportsInv'
<1>1. RefusedRaised'
  BY DEF Raise, ImportsInv, RefusedRaised
<1> QED
  BY <1>1, FailKeeps DEF Raise

LEMMA InZoomKeeps ==
    ASSUME ImportsInv, NEW z \in ZoomDirectory, NEW zone \in MachineZone,
           InZoom(z, zone)
    PROVE  ImportsInv'
<1>1. TypesOfJobs
  BY DEF ImportsInv
<1>2. zone \in Int /\ z.entries \in SUBSET Entry
  BY ImportsAssumption, ZonesAreInts
<1>3. /\ job' = Job("in-zoom", z, zone, z.entries)
      /\ UNCHANGED <<starts, saved, imports, refused>>
  BY DEF InZoom, listVars
<1>4. job' \in Jobs
  BY <1>1, <1>2, <1>3, NewJob DEF Commands
<1>5. /\ job'.command = "in-zoom" /\ job'.source = z /\ job'.zone = zone
      /\ job'.stage = "list"
  BY <1>3 DEF Job
<1>6. /\ starts' \in Seq(Int) /\ Len(saved.starts) <= Len(starts')
      /\ \A i \in 1 .. Len(saved.starts) : starts'[i] = saved.starts[i]
  BY <1>3 DEF ImportsInv, TypesOfJobs, StartsGrow
<1> QED
  BY <1>3, <1>4, <1>5, <1>6, Undated

\* While a directory is listed, there is a command, from Zoom.
LEMMA ListingTypes ==
    ASSUME ImportsInv, job # Idle, job.stage = "list"
    PROVE  /\ job \in Jobs /\ job.command = "in-zoom"
           /\ job.source \in ZoomDirectory /\ job.zone \in MachineZone
           /\ job.todo \subseteq Entry
<1>1. job \in Jobs /\ JobIsDated
  BY DEF ImportsInv, TypesOfJobs
<1> QED
  BY <1>1 DEF JobIsDated, Jobs

LEMMA ReadVideoKeeps ==
    ASSUME ImportsInv, NEW e, ReadVideo(e) PROVE ImportsInv'
<1>1. /\ job # Idle /\ job.stage = "list" /\ e \in job.todo
      /\ e.kind = "video"
      /\ starts' = Append(starts, e.start)
      /\ job' = [[job EXCEPT !.todo = @ \ {e}] EXCEPT !.recorded = e]
      /\ UNCHANGED <<saved, imports, refused>>
  BY DEF ReadVideo, Listing, Listed
<1>2. /\ job \in Jobs /\ job.command = "in-zoom"
      /\ job.source \in ZoomDirectory /\ job.zone \in MachineZone
      /\ job.todo \subseteq Entry
  BY <1>1, ListingTypes
<1>3. e \in Zoomed
  BY <1>1, <1>2 DEF Entry, Zoomed
<1>4. e.start \in Int
  BY <1>3 DEF Zoomed
<1>5. /\ job' \in Jobs /\ job'.command = "in-zoom" /\ job'.stage = "list"
      /\ job'.source \in ZoomDirectory /\ job'.zone \in MachineZone
  BY <1>1, <1>2, <1>3 DEF Jobs
<1> QED
  BY <1>1, <1>4, <1>5, OneMoreStart, Undated

\* A file that is read, without a dialog.
LEMMA ListedKeeps ==
    ASSUME ImportsInv, NEW e, NEW j, job # Idle, job.stage = "list",
           j = job \/ j = [job EXCEPT !.hasChat = TRUE],
           job' = [j EXCEPT !.todo = @ \ {e}],
           UNCHANGED <<starts, saved, imports, refused>>
    PROVE  ImportsInv'
<1>1. /\ job \in Jobs /\ job.command = "in-zoom"
      /\ job.source \in ZoomDirectory /\ job.zone \in MachineZone
      /\ job.todo \subseteq Entry
  BY ListingTypes
<1>2. /\ job' \in Jobs /\ job'.command = "in-zoom" /\ job'.stage = "list"
      /\ job'.source \in ZoomDirectory /\ job'.zone \in MachineZone
  BY <1>1 DEF Jobs
<1>3. /\ starts' \in Seq(Int) /\ Len(saved.starts) <= Len(starts')
      /\ \A i \in 1 .. Len(saved.starts) : starts'[i] = saved.starts[i]
  BY DEF ImportsInv, TypesOfJobs, StartsGrow
<1> QED
  BY <1>2, <1>3, Undated

LEMMA ReadChatFileKeeps ==
    ASSUME ImportsInv, NEW e, ReadChatFile(e) PROVE ImportsInv'
<1>1. /\ job # Idle /\ job.stage = "list" /\ e \in job.todo
      /\ job' = [[job EXCEPT !.todo = @ \ {e}] EXCEPT !.hasChat = TRUE]
      /\ UNCHANGED <<starts, saved, imports, refused>>
  BY DEF ReadChatFile, Listing, Listed, listVars
<1>2. job \in Jobs
  BY <1>1, ListingTypes
<1>3. job' = [[job EXCEPT !.hasChat = TRUE] EXCEPT !.todo = @ \ {e}]
  BY <1>1, <1>2 DEF Jobs
<1> QED
  BY <1>1, <1>3, ListedKeeps

LEMMA ReadFileKeeps ==
    ASSUME ImportsInv, NEW e, ReadFile(e) PROVE ImportsInv'
<1>1. CASE Datable(e)
  <2>1. /\ job # Idle /\ job.stage = "list"
        /\ job' = [job EXCEPT !.todo = @ \ {e}]
        /\ UNCHANGED <<starts, saved, imports, refused>>
    BY <1>1 DEF ReadFile, Listing, Listed, AddAttachmentInline
  <2> QED
    BY <2>1, ListedKeeps
<1>2. CASE ~Datable(e)
  <2>1. Fail /\ UNCHANGED refused
    BY <1>2 DEF ReadFile
  <2>2. RefusedRaised'
    BY <2>1 DEF ImportsInv, RefusedRaised
  <2> QED
    BY <2>1, <2>2, FailKeeps
<1> QED
  BY <1>1, <1>2

LEMMA NoZoomChatKeeps ==
    ASSUME ImportsInv, NoZoomChat PROVE ImportsInv'
<1>1. /\ job # Idle /\ job.stage = "list" /\ ~job.hasChat
      /\ job' = [job EXCEPT !.stage = "done"]
      /\ UNCHANGED <<starts, saved, imports, refused>>
  BY DEF NoZoomChat, listVars
<1>2. /\ job \in Jobs /\ job.command = "in-zoom"
      /\ job.source \in ZoomDirectory /\ job.zone \in MachineZone
  BY <1>1, ListingTypes
<1>3. /\ job' \in Jobs /\ job'.command = "in-zoom" /\ job'.stage = "done"
      /\ job'.source \in ZoomDirectory /\ job'.zone \in MachineZone
      /\ ~job'.hasChat
  BY <1>1, <1>2 DEF Jobs
<1>4. /\ starts' \in Seq(Int) /\ Len(saved.starts) <= Len(starts')
      /\ \A i \in 1 .. Len(saved.starts) : starts'[i] = saved.starts[i]
  BY <1>1 DEF ImportsInv, TypesOfJobs, StartsGrow
<1> QED
  BY <1>1, <1>3, <1>4, Undated

\* The chat: it is refused, or all its times are worked out.
LEMMA ParseZoomChatKeeps ==
    ASSUME ImportsInv, ParseZoomChat PROVE ImportsInv'
<1> DEFINE z == job.source
           r == job.recorded
           Time(m) == ZoomChatToUtc(Written(z, m), r.start, r.end, job.zone)
           bad == {m \in Range(z.chat) :
                       Raises(Written(z, m), r.start, r.end, job.zone)}
<1>1. /\ job # Idle /\ job.stage = "list" /\ job.hasChat
      /\ \/ /\ r = NotRecorded
            /\ Fail
            /\ UNCHANGED refused
         \/ /\ r # NotRecorded
            /\ Fail
            /\ \E m \in bad : refused' = [message |-> m, job |-> job]
         \/ /\ r # NotRecorded
            /\ bad = {}
            /\ job' = [job EXCEPT !.stage = "chat",
                                  !.chatAt = Len(starts),
                                  !.chat = [k \in DOMAIN z.chat |->
                                               [sender |-> z.chat[k].sender,
                                                start |-> Time(z.chat[k])]]]
            /\ UNCHANGED <<listVars, saved, imports, refused>>
  BY DEF ParseZoomChat
<1>2. /\ job \in Jobs /\ job.command = "in-zoom"
      /\ z \in ZoomDirectory /\ job.zone \in MachineZone
  BY <1>1, ListingTypes
<1>3. z.chat \in Seq([sender : STRING, sent : Int])
  BY <1>2, ImportsAssumption
<1>4. \A k \in 1 .. Len(z.chat) : z.chat[k] \in [sender : STRING, sent : Int]
  <2> HIDE DEF z
  <2> QED
    BY <1>3, ElementOfSeq
<1>5. Range(z.chat) = {z.chat[k] : k \in 1 .. Len(z.chat)}
  BY <1>3 DEF Range
<1>6. CASE Fail /\ UNCHANGED refused
  <2>1. RefusedRaised'
    BY <1>6 DEF ImportsInv, RefusedRaised
  <2> QED
    BY <1>6, <2>1, FailKeeps
<1>7. ASSUME r # NotRecorded, Fail,
             NEW m \in bad, refused' = [message |-> m, job |-> job]
      PROVE  ImportsInv'
  <2>1. /\ m \in [sender : STRING, sent : Int]
        /\ Raises(Written(z, m), r.start, r.end, job.zone)
    BY <1>4, <1>5, <1>7
  <2>2. FromZoom(job)
    BY <1>2, <1>7 DEF FromZoom
  <2>3. RefusedRaised'
    BY <1>2, <1>7, <2>1, <2>2 DEF RefusedRaised, FromZoom
  <2> QED
    BY <1>7, <2>3, FailKeeps
<1>8. CASE /\ r # NotRecorded
           /\ bad = {}
           /\ job' = [job EXCEPT !.stage = "chat",
                                 !.chatAt = Len(starts),
                                 !.chat = [k \in DOMAIN z.chat |->
                                              [sender |-> z.chat[k].sender,
                                               start |-> Time(z.chat[k])]]]
           /\ UNCHANGED <<listVars, saved, imports, refused>>
  <2>1. r \in Zoomed /\ r.start \in Int /\ r.end \in Int
    BY <1>2, <1>8 DEF Jobs, Zoomed
  <2>2. job.zone \in Int
    BY <1>2, ImportsAssumption, ZonesAreInts
  <2>3. \A m \in [sender : STRING, sent : Int] :
            /\ Written(z, m) \in Int
            /\ Time(m) \in Int
    BY <1>2, <2>1, <2>2, ZoomTypes, TimeIsTime
  <2> DEFINE timed == [k \in 1 .. Len(z.chat) |->
                          [sender |-> z.chat[k].sender,
                           start |-> Time(z.chat[k])]]
  <2>4. /\ timed \in Seq([sender : STRING, start : Int])
        /\ Len(timed) = Len(z.chat)
    <3>1. Len(z.chat) \in Nat
      BY <1>3
    <3>2. \A k \in 1 .. Len(z.chat) :
              [sender |-> z.chat[k].sender, start |-> Time(z.chat[k])]
                  \in [sender : STRING, start : Int]
      BY <1>4, <2>3
    <3> HIDE DEF Time, z
    <3> QED
      BY <3>1, <3>2
  <2>5. DOMAIN z.chat = 1 .. Len(z.chat)
    BY <1>3
  <2>6. job' = [job EXCEPT !.stage = "chat", !.chatAt = Len(starts),
                           !.chat = timed]
    BY <1>8, <2>5
  <2>7. UNCHANGED <<starts, saved, imports, refused>>
    BY <1>8 DEF listVars
  <2>8. Len(starts) \in Nat /\ TypesOfJobs
    BY DEF ImportsInv, TypesOfJobs
  <2>9. job' \in Jobs
    <3> HIDE DEF timed
    <3> QED
      BY <1>2, <2>4, <2>6, <2>8 DEF Jobs
  <2>10. TypesOfJobs' /\ StartsGrow' /\ ImportsAreDated' /\ RefusedRaised'
    BY <2>7, <2>9 DEF ImportsInv, TypesOfJobs, StartsGrow, ImportsAreDated,
                      RefusedRaised
  <2>11. /\ job'.command = "in-zoom" /\ job'.source = z
         /\ job'.zone = job.zone /\ job'.recorded = r
         /\ job'.stage = "chat" /\ job'.chatAt = Len(starts)
         /\ job'.chat = timed
    BY <1>2, <2>6 DEF Jobs
  <2>12. \A k \in 1 .. Len(z.chat) :
            ~Raises(Written(z, z.chat[k]), r.start, r.end, job.zone)
    BY <1>5, <1>8
  <2>13. \A k \in 1 .. Len(z.chat) : timed[k].start = TimeOf(job, k)
    BY DEF TimeOf
  <2>14. /\ FromZoom(job')
         /\ \A k \in 1 .. Len(z.chat) : TimeOf(job', k) = TimeOf(job, k)
    BY <1>2, <1>8, <2>11 DEF FromZoom, TimeOf
  <2> HIDE DEF timed, Time, z, r, bad
  <2>15. Dated(job', starts', 0)
    BY <2>11, <2>12, <2>14 DEF Dated, z
  <2>16. Len(z.chat) \in Nat /\ Len(z.chat) - Len(job'.chat) = 0
    BY <1>3, <2>4, <2>11
  <2>17. \A k \in 1 .. Len(z.chat) : job'.chat[k].start = TimeOf(job', 0 + k)
    BY <2>11, <2>13, <2>14
  <2>18. Len(starts') = job'.chatAt + 0
    BY <2>7, <2>8, <2>11
  <2>19. JobIsDated'
    <3> DEFINE n == Len(job'.source.chat) - Len(job'.chat)
    <3>1. n = 0
      BY <2>11, <2>16
    <3> HIDE DEF n
    <3>2. /\ n \in Nat /\ Len(starts') = job'.chatAt + n
          /\ Dated(job', starts', n)
      BY <2>15, <2>18, <3>1
    <3>3. \A k \in 1 .. Len(job'.chat) : job'.chat[k].start = TimeOf(job', n + k)
      BY <2>4, <2>11, <2>17, <3>1
    <3>4. job'.source \in ZoomDirectory /\ job'.zone \in MachineZone
      BY <1>2, <2>11 DEF z
    <3> QED
      BY <2>11, <3>2, <3>3, <3>4 DEF JobIsDated, n
  <2> QED
    BY <2>10, <2>19 DEF ImportsInv
<1> QED
  BY <1>1, <1>6, <1>7, <1>8

LEMMA InMeetKeeps ==
    ASSUME ImportsInv, NEW r \in MeetRecording, InMeet(r) PROVE ImportsInv'
<1> DEFINE messages == IF r.chat = Absent THEN <<>>
                       ELSE [k \in DOMAIN r.chat |->
                                [sender |-> r.chat[k].sender,
                                 start |-> r.start + r.chat[k].sent]]
<1>1. TypesOfJobs /\ Len(starts) + 1 \in Nat
  BY DEF ImportsInv, TypesOfJobs
<1>2. Job("in-meet", r, 0, {}) \in Jobs
  BY <1>1, NewJob DEF Commands
<1>3. /\ r.start \in Int
      /\ r.chat = Absent \/ r.chat \in Seq([sender : STRING, sent : Int])
  BY ImportsAssumption
<1>4. messages \in Seq([sender : STRING, start : Int])
  <2>1. CASE r.chat = Absent
    BY <2>1
  <2>2. CASE r.chat # Absent
    <3> DEFINE chat == r.chat
               item(k) == [sender |-> chat[k].sender,
                           start |-> r.start + chat[k].sent]
               timed == [k \in 1 .. Len(chat) |-> item(k)]
    <3>1. chat \in Seq([sender : STRING, sent : Int])
      BY <1>3, <2>2
    <3>2. messages = timed
      BY <2>2, <3>1
    <3> HIDE DEF chat
    <3>3. \A k \in 1 .. Len(chat) : chat[k] \in [sender : STRING, sent : Int]
      BY <3>1, ElementOfSeq
    <3>4. \A k \in 1 .. Len(chat) : item(k) \in [sender : STRING, start : Int]
      BY <1>3, <3>3
    <3>5. Len(chat) \in Nat
      BY <3>1
    <3> HIDE DEF item
    <3>6. timed \in Seq([sender : STRING, start : Int])
      BY <3>4, <3>5
    <3> QED
      BY <3>2, <3>6
  <2> QED
    BY <2>1, <2>2
<1>5. /\ starts' = Append(starts, r.start)
      /\ UNCHANGED <<saved, imports, refused>>
      /\ job' = [Job("in-meet", r, 0, {}) EXCEPT
                    !.stage = IF ~r.named THEN "done"
                              ELSE IF r.chat = Absent THEN "raised"
                              ELSE "chat",
                    !.chatAt = Len(starts) + 1,
                    !.chat = messages]
  BY DEF InMeet
<1> HIDE DEF messages
<1>6. /\ job' \in Jobs /\ job'.command = "in-meet" /\ job'.stage # "list"
  BY <1>1, <1>2, <1>4, <1>5 DEF Jobs, Job
<1> QED
  BY <1>3, <1>5, <1>6, OneMoreStart, Undated

\* A message more has the time that was worked out for it.
LEMMA AddMessageKeeps ==
    ASSUME ImportsInv, AddMessage PROVE ImportsInv'
<1> DEFINE t == job.chat[1].start
<1>1. /\ job # Idle /\ job.stage = "chat" /\ job.chat # <<>>
      /\ starts' = Append(starts, Head(job.chat).start)
      /\ job' = [job EXCEPT !.chat = Tail(@)]
      /\ UNCHANGED <<saved, imports, refused>>
  BY DEF AddMessage
<1>2. job \in Jobs /\ JobIsDated
  BY <1>1 DEF ImportsInv, TypesOfJobs
<1>3. job.chat \in Seq([sender : STRING, start : Int])
  BY <1>2 DEF Jobs
<1>4. /\ Head(job.chat) = job.chat[1]
      /\ Len(job.chat) \in Nat /\ Len(job.chat) > 0
      /\ Tail(job.chat) \in Seq([sender : STRING, start : Int])
      /\ Len(Tail(job.chat)) = Len(job.chat) - 1
      /\ \A k \in 1 .. Len(job.chat) - 1 : Tail(job.chat)[k] = job.chat[k + 1]
  BY <1>1, <1>3, HeadTailProperties
<1>5. t \in Int /\ starts' = Append(starts, t)
  <2>1. 1 \in 1 .. Len(job.chat)
    BY <1>4
  <2>2. job.chat[1] \in [sender : STRING, start : Int]
    BY <1>3, <2>1, ElementOfSeq
  <2> QED
    BY <1>1, <1>4, <2>2
<1>6. /\ job' \in Jobs
      /\ job'.command = job.command /\ job'.stage = job.stage
      /\ job'.source = job.source /\ job'.zone = job.zone
      /\ job'.recorded = job.recorded /\ job'.hasChat = job.hasChat
      /\ job'.chatAt = job.chatAt /\ job'.chat = Tail(job.chat)
  BY <1>1, <1>2, <1>4 DEF Jobs
<1>7. /\ starts' \in Seq(Int) /\ Len(starts') = Len(starts) + 1
      /\ \A i \in 1 .. Len(starts) : starts'[i] = starts[i]
      /\ starts'[Len(starts) + 1] = t
      /\ Len(saved.starts) <= Len(starts')
      /\ \A i \in 1 .. Len(saved.starts) : starts'[i] = saved.starts[i]
  <2> HIDE DEF t
  <2> QED
    BY <1>5, OneMoreStart
<1>8. CASE ~(job.command = "in-zoom" /\ job.hasChat)
  <2>1. job.command = "in-zoom" =>
            job.source \in ZoomDirectory /\ job.zone \in MachineZone
    BY <1>2 DEF JobIsDated
  <2> QED
    BY <1>1, <1>6, <1>7, <1>8, <2>1, Undated
<1>9. CASE job.command = "in-zoom" /\ job.hasChat
  <2> DEFINE n == Len(job.source.chat) - Len(job.chat)
             m == Len(job'.source.chat) - Len(job'.chat)
  <2>1. /\ job.source \in ZoomDirectory /\ job.zone \in MachineZone
        /\ n \in Nat /\ Len(starts) = job.chatAt + n
        /\ Dated(job, starts, n)
        /\ \A k \in 1 .. Len(job.chat) : job.chat[k].start = TimeOf(job, n + k)
    BY <1>1, <1>2, <1>9 DEF JobIsDated
  <2>2. m = n + 1
    <3> DEFINE a == Len(job.source.chat)
               b == Len(job.chat)
    <3>1. a \in Nat /\ b \in Nat
      BY <1>4, <2>1, ImportsAssumption
    <3>2. m = a - (b - 1) /\ n = a - b
      BY <1>4, <1>6
    <3> HIDE DEF a, b, m, n
    <3> QED
      BY <3>1, <3>2
  <2>3. \A k : TimeOf(job', k) = TimeOf(job, k)
    BY <1>6 DEF TimeOf
  <2>4. job.chatAt \in Nat
    BY <1>2 DEF Jobs
  <2> HIDE DEF n, m
  <2>5. Dated(job', starts', m)
    <3>1. FromZoom(job') /\ \A k \in 1 .. Len(job'.source.chat) :
              ~Raises(Written(job'.source, job'.source.chat[k]),
                      job'.recorded.start, job'.recorded.end, job'.zone)
      BY <1>6, <2>1 DEF Dated, FromZoom
    <3>2. ASSUME NEW k \in 1 .. n
          PROVE  /\ job'.chatAt + k \in 1 .. Len(starts')
                 /\ starts'[job'.chatAt + k] = TimeOf(job', k)
      <4>1. /\ job.chatAt + k \in 1 .. Len(starts)
            /\ starts[job.chatAt + k] = TimeOf(job, k)
        BY <2>1 DEF Dated
      <4>2. job.chatAt + k \in 1 .. Len(starts')
        BY <1>7, <2>1, <2>4, <4>1
      <4> QED
        BY <1>6, <1>7, <2>3, <4>1, <4>2
    <3>3. /\ job'.chatAt + (n + 1) \in 1 .. Len(starts')
          /\ starts'[job'.chatAt + (n + 1)] = TimeOf(job', n + 1)
      <4>1. job'.chatAt + (n + 1) = Len(starts) + 1
        BY <1>6, <2>1, <2>4
      <4>2. t = TimeOf(job, n + 1)
        BY <1>4, <2>1
      <4>3. Len(starts) + 1 \in 1 .. Len(starts')
        BY <1>7, <2>1, <2>4
      <4> QED
        BY <1>7, <2>3, <4>1, <4>2, <4>3
    <3>4. \A k \in 1 .. m : k \in 1 .. n \/ k = n + 1
      BY <2>1, <2>2
    <3> QED
      BY <3>1, <3>2, <3>3, <3>4 DEF Dated
  <2>6. \A k \in 1 .. Len(job'.chat) : job'.chat[k].start = TimeOf(job', m + k)
    <3>1. ASSUME NEW k \in 1 .. Len(job'.chat)
          PROVE  job'.chat[k].start = TimeOf(job', m + k)
      <4>1. /\ k \in 1 .. Len(job.chat) - 1 /\ k + 1 \in 1 .. Len(job.chat)
            /\ n + (k + 1) = m + k
        BY <1>4, <1>6, <2>1, <2>2
      <4>2. job'.chat[k] = job.chat[k + 1]
        BY <1>4, <1>6, <4>1
      <4>3. job.chat[k + 1].start = TimeOf(job, n + (k + 1))
        BY <2>1, <4>1
      <4> QED
        BY <2>3, <4>1, <4>2, <4>3
    <3> QED
      BY <3>1
  <2>7. m \in Nat /\ Len(starts') = job'.chatAt + m
    BY <1>6, <1>7, <2>1, <2>2, <2>4
  <2>8. JobIsDated'
    BY <1>1, <1>6, <2>1, <2>5, <2>6, <2>7 DEF JobIsDated, m
  <2>9. TypesOfJobs' /\ StartsGrow' /\ ImportsAreDated' /\ RefusedRaised'
    BY <1>1, <1>6, <1>7 DEF ImportsInv, TypesOfJobs, StartsGrow,
                            ImportsAreDated, RefusedRaised
  <2> QED
    BY <2>8, <2>9 DEF ImportsInv
<1> QED
  BY <1>8, <1>9

LEMMA EndOfChatKeeps ==
    ASSUME ImportsInv, EndOfChat PROVE ImportsInv'
<1>1. /\ job # Idle /\ job.stage = "chat" /\ job.chat = <<>>
      /\ job' = [job EXCEPT !.stage = "done"]
      /\ UNCHANGED <<starts, saved, imports, refused>>
  BY DEF EndOfChat, listVars
<1>2. job \in Jobs /\ JobIsDated
  BY <1>1 DEF ImportsInv, TypesOfJobs
<1>3. /\ job' \in Jobs /\ job'.stage = "done"
      /\ job'.command = job.command
      /\ job'.source = job.source /\ job'.zone = job.zone
      /\ job'.recorded = job.recorded /\ job'.hasChat = job.hasChat
      /\ job'.chatAt = job.chatAt /\ job'.chat = job.chat
  BY <1>1, <1>2 DEF Jobs
<1>4. TypesOfJobs' /\ StartsGrow' /\ ImportsAreDated' /\ RefusedRaised'
  BY <1>1, <1>3 DEF ImportsInv, TypesOfJobs, StartsGrow, ImportsAreDated,
                    RefusedRaised
<1>5. \A n : /\ Dated(job', starts', n) = Dated(job, starts, n)
            /\ TimeOf(job', n) = TimeOf(job, n)
  BY <1>1, <1>3 DEF Dated, TimeOf, FromZoom
<1>6. ASSUME job.command = "in-zoom", job.hasChat
      PROVE  LET n == Len(job'.source.chat) - Len(job'.chat) IN
             /\ n \in Nat /\ Len(starts') = job'.chatAt + n
             /\ Dated(job', starts', n)
             /\ \A k \in 1 .. Len(job'.chat) :
                    job'.chat[k].start = TimeOf(job', n + k)
  <2> DEFINE n == Len(job.source.chat) - Len(job.chat)
  <2>1. /\ n \in Nat /\ Len(starts) = job.chatAt + n
        /\ Dated(job, starts, n)
    BY <1>1, <1>2, <1>6 DEF JobIsDated
  <2>2. Len(job'.source.chat) - Len(job'.chat) = n
    BY <1>3
  <2> HIDE DEF n
  <2>3. \A k \in 1 .. Len(job'.chat) : job'.chat[k].start = TimeOf(job', n + k)
    BY <1>1, <1>3
  <2> QED
    BY <1>1, <1>3, <1>5, <2>1, <2>2, <2>3
<1>7. JobIsDated'
  BY <1>1, <1>2, <1>3, <1>6 DEF JobIsDated
<1> QED
  BY <1>4, <1>7 DEF ImportsInv

\* What was added is written: the times of earlier imports are still there.
LEMMA FinishKeeps ==
    ASSUME ImportsInv, Finish PROVE ImportsInv'
<1>1. /\ job # Idle /\ job.stage = "done"
      /\ saved'.starts = starts /\ UNCHANGED <<starts, refused>>
      /\ imports' = Append(imports, job) /\ job' = Idle
  BY DEF Finish, Held, listVars
<1>2. /\ job \in Jobs /\ JobIsDated
      /\ starts \in Seq(Int) /\ saved.starts \in Seq(Int)
      /\ imports \in Seq(Jobs)
  BY <1>1 DEF ImportsInv, TypesOfJobs
<1>3. /\ imports' \in Seq(Jobs) /\ Len(imports) \in Nat
      /\ Len(imports') = Len(imports) + 1
      /\ \A i \in 1 .. Len(imports) : imports'[i] = imports[i]
      /\ imports'[Len(imports) + 1] = job
  BY <1>1, <1>2
<1>4. TypesOfJobs' /\ StartsGrow' /\ RefusedRaised'
  BY <1>1, <1>2, <1>3 DEF ImportsInv, TypesOfJobs, StartsGrow, RefusedRaised
<1>5. ASSUME NEW j, NEW n, Dated(j, saved.starts, n)
      PROVE  Dated(j, starts, n)
  <2>1. Len(saved.starts) \in Nat /\ Len(starts) \in Nat
    BY <1>2
  <2>2. /\ Len(saved.starts) <= Len(starts)
        /\ \A i \in 1 .. Len(saved.starts) : starts[i] = saved.starts[i]
    BY DEF ImportsInv, StartsGrow
  <2>3. \A i \in 1 .. Len(saved.starts) : i \in 1 .. Len(starts)
    BY <2>1, <2>2
  <2> QED
    BY <1>5, <2>2, <2>3 DEF Dated
<1>6. ASSUME NEW i \in 1 .. Len(imports'),
             imports'[i].command = "in-zoom" /\ imports'[i].hasChat
      PROVE  Dated(imports'[i], saved'.starts, Len(imports'[i].source.chat))
  <2>1. CASE i \in 1 .. Len(imports)
    BY <1>1, <1>3, <1>5, <1>6, <2>1 DEF ImportsInv, ImportsAreDated
  <2>2. CASE i = Len(imports) + 1
    <3> DEFINE chat == job.source.chat
    <3>1. /\ job.source \in ZoomDirectory /\ job.chat = <<>>
          /\ Dated(job, starts, Len(chat) - Len(job.chat))
      BY <1>1, <1>2, <1>3, <1>6, <2>2 DEF JobIsDated
    <3>2. Len(chat) \in Nat
      BY <3>1, ImportsAssumption
    <3>3. Len(chat) - Len(job.chat) = Len(chat)
      BY <3>1, <3>2
    <3> QED
      BY <1>1, <1>3, <2>2, <3>1, <3>3
  <2> QED
    BY <1>3, <2>1, <2>2
<1>7. ImportsAreDated'
  BY <1>6 DEF ImportsAreDated
<1> QED
  BY <1>1, <1>4, <1>7 DEF ImportsInv

LEMMA ImportsStep_Inv ==
    ImportsInv /\ [ImportsNext]_importsVars => ImportsInv'
<1> SUFFICES ASSUME ImportsInv, [ImportsNext]_importsVars PROVE ImportsInv'
  OBVIOUS
<1>1. ASSUME NEW i \in 0 .. Len(parties),
             InRecording(IF i = 0 THEN <<>> ELSE <<i>>)
      PROVE  ImportsInv'
  BY <1>1, InRecordingKeeps
<1>2. ASSUME NEW m \in Message, InEmail(m) PROVE ImportsInv'
  BY <1>2, InEmailKeeps
<1>3. CASE Raise
  BY <1>3, RaiseKeeps
<1>4. ASSUME NEW z \in ZoomDirectory, NEW zone \in MachineZone, InZoom(z, zone)
      PROVE  ImportsInv'
  BY <1>4, InZoomKeeps
<1>5. ASSUME NEW e, ReadVideo(e) \/ ReadChatFile(e) \/ ReadFile(e)
      PROVE  ImportsInv'
  BY <1>5, ReadVideoKeeps, ReadChatFileKeeps, ReadFileKeeps
<1>6. CASE ParseZoomChat
  BY <1>6, ParseZoomChatKeeps
<1>7. CASE NoZoomChat
  BY <1>7, NoZoomChatKeeps
<1>8. ASSUME NEW r \in MeetRecording, InMeet(r) PROVE ImportsInv'
  BY <1>8, InMeetKeeps
<1>9. CASE AddMessage
  BY <1>9, AddMessageKeeps
<1>10. CASE EndOfChat
  BY <1>10, EndOfChatKeeps
<1>11. CASE Finish
  BY <1>11, FinishKeeps
<1>12. CASE UNCHANGED importsVars
  BY <1>12 DEF importsVars, listVars, ImportsInv, TypesOfJobs, StartsGrow,
               JobIsDated, ImportsAreDated, RefusedRaised
<1> QED
  BY <1>1, <1>2, <1>3, <1>4, <1>5, <1>6, <1>7, <1>8, <1>9, <1>10, <1>11,
     <1>12 DEF ImportsNext

\* The times of the chats, in the vCon that was written and in the one a command
\* works on, are those that zoom_chat_to_utc gives for the recording that was
\* listed last.
THEOREM ImportsInvariance == ImportsSpec => []ImportsInv
<1>1. ImportsInit => ImportsInv
  BY ImportsInit_Inv
<1>2. ImportsInv /\ [ImportsNext]_importsVars => ImportsInv'
  BY ImportsStep_Inv
<1> QED
  BY <1>1, <1>2, PTL DEF ImportsSpec

-----------------------------------------------------------------------------
\* What follows for the sender

\* A message that was recorded, and a machine of any zone.
LEMMA RecordedIsMeeting ==
    ASSUME NEW j \in Jobs, FromZoom(j),
           NEW m \in [sender : STRING, sent : Int], Recorded(m.sent, j.recorded)
    PROVE  /\ Meeting(m.sent, j.recorded.start, j.recorded.end,
                      j.source.zone, j.zone)
           /\ Written(j.source, m) = TimeOfDay(m.sent + j.source.zone)
           /\ j.recorded.end - j.recorded.start < 12 * Hour
           /\ Date(j.recorded.start) \in Int
           /\ Date(m.sent + j.source.zone) \in Int
           /\ j.zone \in Int /\ j.source.zone \in Int /\ m.sent \in Int
<1>1. /\ j.recorded.start \in Int /\ j.recorded.end \in Int
      /\ j.source \in ZoomDirectory /\ j.zone \in MachineZone
  BY DEF FromZoom, Jobs, Zoomed
<1>2. /\ j.zone \in Zone /\ j.zone \in Int
      /\ j.source.zone \in Zone /\ j.source.zone \in Int
  BY <1>1, ImportsAssumption, ZonesAreInts
<1>3. m.sent + j.source.zone \in Int
  BY <1>2
<1>4. Date(j.recorded.start) \in Int /\ Date(m.sent + j.source.zone) \in Int
  BY <1>1, <1>3, DateBounds
<1>5. Written(j.source, m) = TimeOfDay(m.sent + j.source.zone)
  BY DEF Written
<1> QED
  BY <1>1, <1>2, <1>4, <1>5 DEF Meeting, Recorded

LEMMA DatedIsKnown ==
    ASSUME NEW j \in Jobs, NEW ss, j.source \in ZoomDirectory,
           NEW k \in 1 .. Len(j.source.chat),
           Dated(j, ss, Len(j.source.chat)),
           Recorded(j.source.chat[k].sent, j.recorded)
    PROVE  TimeIsKnown(ss[j.chatAt + k], j.source.chat[k].sent,
                       j.recorded.start, j.source.zone, j.zone)
<1> DEFINE m == j.source.chat[k]
           start == j.recorded.start
           end == j.recorded.end
           zone == j.zone
           meetingZone == j.source.zone
           at == ss[j.chatAt + k]
           local == Date(m.sent + meetingZone)
           tod == TimeOfDay(m.sent + meetingZone)
<1>1. j.source.chat \in Seq([sender : STRING, sent : Int])
  BY ImportsAssumption
<1>2. m \in [sender : STRING, sent : Int]
  BY <1>1, ElementOfSeq
<1>3. /\ Meeting(m.sent, start, end, meetingZone, zone)
      /\ Written(j.source, m) = tod
      /\ end - start < 12 * Hour
      /\ Date(start) \in Int /\ local \in Int
      /\ zone \in Int /\ meetingZone \in Int /\ m.sent \in Int
  BY <1>2, RecordedIsMeeting DEF Dated
<1>4. /\ ~Raises(tod, start, end, zone)
      /\ at = ZoomChatToUtc(tod, start, end, zone)
  BY <1>3 DEF Dated, TimeOf
<1>5. ASSUME zone - meetingZone >= 0, Date(start) <= local
      PROVE  at = m.sent - (zone - meetingZone) - (local - Date(start)) * Day
  <2>1. ZoomChatToUtc(tod, start, end, zone)
            = m.sent - (zone - meetingZone) - (local - Date(start)) * 1440
    BY <1>3, <1>5, EarlyIsAccepted
  <2>2. Day = 1440
    BY Minutes
  <2> QED
    BY <1>4, <2>1, <2>2
<1>6. ASSUME zone - meetingZone = 0, Date(start) > local
      PROVE  at = m.sent
  <2>1. zone = meetingZone
    <3> HIDE DEF zone, meetingZone
    <3> QED
      BY <1>3, <1>6
  <2>2. \/ Raises(tod, start, end, zone)
        \/ ZoomChatToUtc(tod, start, end, zone) = m.sent
    BY <1>3, <1>6, <2>1, LateIsRefused
  <2> QED
    BY <1>4, <2>2
<1> QED
  BY <1>5, <1>6 DEF TimeIsKnown

\* Every message of a Zoom chat that was imported has the time it was sent at,
\* on a machine in the time zone of the meeting, unless the recording starts on
\* an earlier date in UTC than the sender's: then it is early by those days.
THEOREM ChatTimeTheorem == ImportsSpec => []ChatTimeIsKnown
<1>1. ImportsInv => ChatTimeIsKnown
  <2> SUFFICES ASSUME ImportsInv,
                      NEW im \in Range(imports), NEW k \in DOMAIN Chat(im),
                      im.command = "in-zoom",
                      Recorded(Chat(im)[k].sent, im.recorded)
               PROVE  TimeIsKnown(saved.starts[Place(im, k)], Chat(im)[k].sent,
                                  im.recorded.start, im.source.zone, im.zone)
    BY DEF ChatTimeIsKnown
  <2>2. imports \in Seq(Jobs) /\ ImportsAreDated
    BY DEF ImportsInv, TypesOfJobs
  <2>1. PICK i \in 1 .. Len(imports) : im = imports[i]
    <3>1. DOMAIN imports = 1 .. Len(imports)
      BY ONLY <2>2
    <3> QED
      BY ONLY <3>1, im \in Range(imports) DEF Range
  <2>3. im \in Jobs
    BY <2>1, <2>2, ElementOfSeq
  <2>4. im.hasChat /\ Chat(im) = im.source.chat
    BY DEF Chat
  <2>5. Dated(im, saved.starts, Len(im.source.chat))
    BY <2>1, <2>2, <2>4 DEF ImportsAreDated
  <2>6. im.source \in ZoomDirectory
    BY <2>5 DEF Dated, FromZoom
  <2>7. k \in 1 .. Len(im.source.chat)
    BY <2>4, <2>6, ImportsAssumption
  <2> QED
    BY <2>3, <2>4, <2>5, <2>6, <2>7, DatedIsKnown DEF Place
<1> QED
  BY <1>1, ImportsInvariance, PTL

\* Where no chat is refused: on a machine in the time zone of the meeting, but
\* over a midnight there that is later than one in UTC.
THEOREM RefusedTheorem == ImportsSpec => []RefusedOverMidnight
<1>1. ImportsInv => RefusedOverMidnight
  <2> SUFFICES ASSUME ImportsInv, refused # NotRecorded,
                      refused.job.zone = refused.job.source.zone,
                      Recorded(refused.message.sent, refused.job.recorded)
               PROVE  OverMidnight(refused.message.sent,
                                   refused.job.recorded.start,
                                   refused.job.recorded.end, refused.job.zone)
    BY DEF RefusedOverMidnight
  <2> DEFINE m == refused.message
             j == refused.job
             start == j.recorded.start
             end == j.recorded.end
             zone == j.zone
             tod == TimeOfDay(m.sent + zone)
  <2>1. /\ m \in [sender : STRING, sent : Int] /\ j \in Jobs /\ FromZoom(j)
        /\ Raises(Written(j.source, m), start, end, zone)
    BY DEF ImportsInv, RefusedRaised
  <2>2. /\ Meeting(m.sent, start, end, zone, zone)
        /\ Written(j.source, m) = tod
        /\ end - start < 12 * Hour
        /\ Date(start) \in Int /\ Date(m.sent + zone) \in Int /\ zone \in Int
    BY <2>1, RecordedIsMeeting
  <2>3. Raises(tod, start, end, zone)
    BY <2>1, <2>2
  <2>4. zone - zone >= 0
    BY <2>2
  <2>5. CASE Date(start) <= Date(m.sent + zone)
    BY <2>2, <2>3, <2>4, <2>5, EarlyIsAccepted
  <2>6. CASE Date(start) > Date(m.sent + zone)
    BY <2>2, <2>3, <2>6, LateIsRefused
  <2> QED
    BY <2>2, <2>5, <2>6
<1> QED
  BY <1>1, ImportsInvariance, PTL

-----------------------------------------------------------------------------
(***************************************************************************)
(* The messages of the chats.  They are in the dialogs behind the          *)
(* recordings, each with the first party that has the sender's name; this  *)
(* party stays the first one, since parties are only added at the end.     *)
(***************************************************************************)

Chats(j) == \/ j.command = "in-zoom" /\ j.hasChat
            \/ j.command = "in-meet" /\ j.source.named

\* A text by the first of the parties in the name of which that of the sender
\* occurs.
SpokenBy(e, sender, ps) ==
    /\ e.type = "text"
    /\ \E p \in 1 .. Len(ps) :
           /\ e.parties = <<p>>
           /\ Occurs(sender, ps[p].name)
           /\ \A q \in 1 .. Len(ps) : Occurs(sender, ps[q].name) => p <= q

\* The first n messages of a chat, in the dialogs d that follow at.
Said(chat, at, d, ps, n) ==
    \A k \in 1 .. n : /\ at + k \in 1 .. Length(d)
                      /\ SpokenBy(d[at + k], chat[k].sender, ps)

Videos(entries) == {e \in entries : e.kind = "video"}

HasChat(entries) == \E e \in entries : e.kind = "chat"

\* What an earlier command and the one that runs added is added to what was
\* there, under names that were not there.
ListsGrow ==
    /\ parties \in Seq(Party) /\ saved.parties \in Seq(Party)
    /\ Extends(parties, saved.parties)
    /\ NewNames(parties, saved.parties)
    /\ dialog \in Seq(Dialog) \cup {Absent}
    /\ saved.dialog \in Seq(Dialog) \cup {Absent}
    /\ Longer(dialog, saved.dialog)
    /\ Length(dialog) = Len(starts)
    /\ Length(saved.dialog) = Len(saved.starts)

\* While the directory is listed, there is a dialog for each of its videos that
\* was read.
ListedAreThere ==
    job.command = "in-zoom" =>
        /\ job.stage = "list" =>
               /\ job.todo \subseteq job.source.entries
               /\ job.hasChat = HasChat(job.source.entries \ job.todo)
               /\ Len(starts) = job.first
                      + Cardinality(Videos(job.source.entries \ job.todo))
        /\ job.stage # "list" =>
               /\ job.hasChat = HasChat(job.source.entries)
               /\ job.hasChat => job.chatAt = job.first
                                  + Cardinality(Videos(job.source.entries))

MeetingIsThere ==
    job.command = "in-meet" =>
        /\ job.source \in MeetRecording
        /\ job.chatAt = job.first + 1
        /\ job.stage # "raised" /\ job.source.named => job.source.chat # Absent

\* The messages that were added are there, the others are to be added.
ChatIsBegun ==
    /\ job.stage = "chat" => Chats(job)
    /\ job.stage = "done" /\ Chats(job) => job.chat = <<>>
    /\ job.stage \in {"chat", "done"} /\ Chats(job) =>
           LET n == Len(job.source.chat) - Len(job.chat) IN
           /\ n \in Nat
           /\ Len(starts) = job.chatAt + n
           /\ Said(job.source.chat, job.chatAt, dialog, parties, n)
           /\ \A k \in 1 .. Len(job.chat) :
                  job.chat[k].sender = job.source.chat[n + k].sender

\* A command that has ended, with the vCon it has written.
Whole(im, d, ps) ==
    /\ im.command = "in-zoom" =>
           im.source \in ZoomDirectory /\ im.hasChat = HasChat(im.source.entries)
    /\ Chats(im) =>
           /\ im.source.chat \in Seq([sender : STRING, sent : Int])
           /\ im.chatAt = im.first + Recordings(im)
           /\ Said(im.source.chat, im.chatAt, d, ps, Len(im.source.chat))

WholeInv ==
    /\ ListsGrow
    /\ job # Idle => ListedAreThere /\ MeetingIsThere /\ ChatIsBegun
    /\ \A i \in 1 .. Len(imports) :
           Whole(imports[i], saved.dialog, saved.parties)

LEMMA SpokenStays ==
    ASSUME NEW before \in Seq(Party), NEW after \in Seq(Party),
           Extends(after, before),
           NEW e, NEW sender, SpokenBy(e, sender, before)
    PROVE  SpokenBy(e, sender, after)
<1>1. PICK p \in 1 .. Len(before) :
          /\ e.parties = <<p>>
          /\ Occurs(sender, before[p].name)
          /\ \A q \in 1 .. Len(before) :
                 Occurs(sender, before[q].name) => p <= q
  BY DEF SpokenBy
<1>2. /\ Len(before) \in Nat /\ Len(after) \in Nat
      /\ Len(before) <= Len(after)
      /\ \A q \in 1 .. Len(before) : after[q] = before[q]
  BY DEF Extends
<1>3. p \in 1 .. Len(after) /\ Occurs(sender, after[p].name)
  BY <1>1, <1>2
<1>4. ASSUME NEW q \in 1 .. Len(after), Occurs(sender, after[q].name)
      PROVE  p <= q
  <2>1. CASE q \in 1 .. Len(before)
    BY <1>1, <1>2, <1>4, <2>1
  <2>2. CASE q \notin 1 .. Len(before)
    BY <1>2, <2>2
  <2> QED
    BY <2>1, <2>2
<1> QED
  BY <1>1, <1>3, <1>4 DEF SpokenBy

\* Whoever writes under one name is one party.
LEMMA SpokenOnce ==
    ASSUME NEW ps \in Seq(Party), NEW d, NEW e, NEW sender,
           SpokenBy(d, sender, ps), SpokenBy(e, sender, ps)
    PROVE  d.parties = e.parties
<1>1. PICK p \in 1 .. Len(ps) :
          /\ d.parties = <<p>>
          /\ Occurs(sender, ps[p].name)
          /\ \A q \in 1 .. Len(ps) : Occurs(sender, ps[q].name) => p <= q
  BY DEF SpokenBy
<1>2. PICK p2 \in 1 .. Len(ps) :
          /\ e.parties = <<p2>>
          /\ Occurs(sender, ps[p2].name)
          /\ \A q \in 1 .. Len(ps) : Occurs(sender, ps[q].name) => p2 <= q
  BY DEF SpokenBy
<1>3. p <= p2 /\ p2 <= p
  BY <1>1, <1>2
<1>4. p = p2
  BY <1>3
<1> QED
  BY <1>1, <1>2, <1>4

LEMMA SaidStays ==
    ASSUME NEW before \in Seq(Party), NEW after \in Seq(Party),
           Extends(after, before),
           NEW d \in Seq(Dialog) \cup {Absent},
           NEW d2 \in Seq(Dialog) \cup {Absent}, Longer(d2, d),
           NEW chat, NEW at, NEW n, Said(chat, at, d, before, n)
    PROVE  Said(chat, at, d2, after, n)
<1>1. Length(d) \in Nat /\ Length(d2) \in Nat
  BY LengthFacts
<1> SUFFICES ASSUME NEW k \in 1 .. n
             PROVE  /\ at + k \in 1 .. Length(d2)
                    /\ SpokenBy(d2[at + k], chat[k].sender, after)
  BY DEF Said
<1>2. /\ at + k \in 1 .. Length(d)
      /\ SpokenBy(d[at + k], chat[k].sender, before)
  BY DEF Said
<1> DEFINE i == at + k
<1>3. i \in 1 .. Length(d) /\ SpokenBy(d[i], chat[k].sender, before)
  BY <1>2
<1> HIDE DEF i
<1>4. i \in 1 .. Length(d2) /\ d2[i] = d[i]
  BY <1>1, <1>3 DEF Longer
<1>5. SpokenBy(d2[i], chat[k].sender, after)
  BY <1>3, <1>4, SpokenStays
<1> QED
  BY <1>4, <1>5 DEF i

LEMMA LongerTransitive ==
    ASSUME NEW a \in Seq(Dialog) \cup {Absent},
           NEW b \in Seq(Dialog) \cup {Absent},
           NEW c \in Seq(Dialog) \cup {Absent}, Longer(b, a), Longer(c, b)
    PROVE  Longer(c, a)
<1>1. Length(a) \in Nat /\ Length(b) \in Nat /\ Length(c) \in Nat
  BY LengthFacts
<1> QED
  BY <1>1 DEF Longer

LEMMA SameDialogs ==
    ASSUME NEW a \in Seq(Dialog) \cup {Absent}
    PROVE  Longer(a, a)
<1>1. Length(a) \in Nat
  BY LengthFacts
<1> QED
  BY <1>1 DEF Longer

LEMMA WholeInit == ImportsInit => WholeInv
<1> SUFFICES ASSUME ImportsInit PROVE WholeInv
  OBVIOUS
<1>1. /\ parties \in Seq(Party) /\ dialog \in {<<>>, Absent}
      /\ starts = <<>> /\ imports = <<>> /\ job = Idle
      /\ saved.parties = parties /\ saved.dialog = dialog
      /\ saved.starts = starts
  <2>1. parties \in Seq([name : STRING, mailto : STRING])
    BY ImportsAssumption DEF ImportsInit
  <2>2. [name : STRING, mailto : STRING] \subseteq Party
    BY DEF Party
  <2>3. parties \in Seq(Party)
    BY ONLY <2>1, <2>2, SeqMonotonic
  <2> QED
    BY <2>3 DEF ImportsInit, Held
<1>2. <<>> \in Seq(Dialog)
  OBVIOUS
<1>3. dialog \in Seq(Dialog) \cup {Absent} /\ Length(dialog) = 0
  BY <1>1, <1>2 DEF Length
<1>4. /\ Extends(parties, parties) /\ NewNames(parties, parties)
      /\ Longer(dialog, dialog)
  BY <1>1, <1>3, SameParties, SameDialogs
<1>5. ListsGrow
  BY <1>1, <1>3, <1>4 DEF ListsGrow
<1> QED
  BY <1>1, <1>5 DEF WholeInv

\* A step by which a command adds to the vCon.
LEMMA GrowKeeps ==
    ASSUME WholeInv, UNCHANGED <<saved, imports>>,
           parties' \in Seq(Party),
           Extends(parties', parties), NewNames(parties', parties),
           dialog' \in Seq(Dialog) \cup {Absent}, Longer(dialog', dialog),
           Length(dialog') = Len(starts'),
           ListedAreThere', MeetingIsThere', ChatIsBegun'
    PROVE  WholeInv'
<1>1. ListsGrow
  BY DEF WholeInv
<1>2. /\ Extends(parties', saved.parties)
      /\ NewNames(parties', saved.parties)
      /\ Longer(dialog', saved.dialog)
  BY <1>1, ExtendsTransitive, LongerTransitive DEF ListsGrow
<1>3. ListsGrow'
  BY <1>1, <1>2 DEF ListsGrow
<1>4. \A i \in 1 .. Len(imports') :
          Whole(imports'[i], saved'.dialog, saved'.parties)
  BY DEF WholeInv
<1> QED
  BY <1>3, <1>4 DEF WholeInv

\* One by which it does not.
LEMMA StayKeeps ==
    ASSUME WholeInv, UNCHANGED <<saved, imports, parties, dialog, starts>>,
           ListedAreThere', MeetingIsThere', ChatIsBegun'
    PROVE  WholeInv'
<1>1. /\ parties' \in Seq(Party) /\ parties' = parties
      /\ dialog' \in Seq(Dialog) \cup {Absent} /\ dialog' = dialog
      /\ Length(dialog') = Len(starts')
  BY DEF WholeInv, ListsGrow
<1>2. /\ Extends(parties', parties) /\ NewNames(parties', parties)
      /\ Longer(dialog', dialog)
  BY <1>1, SameParties, SameDialogs
<1> QED
  BY <1>1, <1>2, GrowKeeps

\* A process that raises.
LEMMA FailWhole ==
    ASSUME WholeInv, Fail PROVE WholeInv'
<1>1. /\ ListsGrow
      /\ parties' = saved.parties /\ dialog' = saved.dialog
      /\ starts' = saved.starts /\ job' = Idle
      /\ UNCHANGED <<saved, imports>>
  BY DEF WholeInv, Fail
<1>2. /\ Extends(saved.parties, saved.parties)
      /\ NewNames(saved.parties, saved.parties)
      /\ Longer(saved.dialog, saved.dialog)
  BY <1>1, SameParties, SameDialogs DEF ListsGrow
<1>3. ListsGrow'
  BY <1>1, <1>2 DEF ListsGrow
<1>4. \A i \in 1 .. Len(imports') :
          Whole(imports'[i], saved'.dialog, saved'.parties)
  BY <1>1 DEF WholeInv
<1> QED
  BY <1>1, <1>3, <1>4 DEF WholeInv

\* A dialog more, with a start.
LEMMA OneMoreDialog ==
    ASSUME ImportsInv, WholeInv, NEW e \in Dialog, dialog' = Added(dialog, e),
           NEW t \in Int, starts' = Append(starts, t)
    PROVE  /\ dialog' \in Seq(Dialog) \cup {Absent}
           /\ Longer(dialog', dialog)
           /\ Len(starts) \in Nat
           /\ Length(dialog) = Len(starts)
           /\ Len(starts') = Len(starts) + 1
           /\ Length(dialog') = Len(starts')
           /\ dialog'[Len(starts) + 1] = e
<1>1. /\ dialog \in Seq(Dialog) \cup {Absent} /\ Length(dialog) = Len(starts)
      /\ Absent \notin Seq(Dialog)
  BY AbsentAssumption DEF WholeInv, ListsGrow
<1>2. /\ Added(dialog, e) \in Seq(Dialog)
      /\ Length(Added(dialog, e)) = Length(dialog) + 1
      /\ Added(dialog, e)[Length(dialog) + 1] = e
      /\ Longer(Added(dialog, e), dialog)
  BY <1>1, AddedFacts
<1>3. Len(starts) \in Nat /\ Len(starts') = Len(starts) + 1
  BY DEF ImportsInv, TypesOfJobs
<1> QED
  BY <1>1, <1>2, <1>3

\* Of a recording or a message there is no chat.
LEMMA NoChatBegun ==
    ASSUME job'.command \in {"in-recording", "in-email"}, job'.stage # "chat"
    PROVE  ListedAreThere' /\ MeetingIsThere' /\ ChatIsBegun'
<1>1. /\ job'.command # "in-zoom" /\ job'.command # "in-meet"
      /\ job'.stage # "chat"
  OBVIOUS
<1>2. ~Chats(job)'
  BY <1>1 DEF Chats
<1> QED
  BY <1>1, <1>2 DEF ListedAreThere, MeetingIsThere, ChatIsBegun

LEMMA DialogKinds ==
    ASSUME NEW ps \in Seq(Nat), NEW single \in BOOLEAN, NEW media \in Media
    PROVE  /\ TextDialog(ps, single, media) \in Dialog
           /\ TextDialog(ps, single, media).type = "text"
           /\ TextDialog(ps, single, media).parties = ps
           /\ [type |-> "recording", parties |-> ps, single |-> single,
               media |-> media] \in Dialog
BY DEF TextDialog, Dialog, Kind

LEMMA InRecordingWhole ==
    ASSUME ImportsInv, WholeInv, NEW i \in 0 .. Len(parties),
           InRecording(IF i = 0 THEN <<>> ELSE <<i>>)
    PROVE  WholeInv'
<1> DEFINE ps == IF i = 0 THEN <<>> ELSE <<i>>
           e == [type |-> "recording", parties |-> ps, single |-> FALSE,
                 media |-> "audio"]
<1>1. parties \in Seq(Party)
  BY DEF WholeInv, ListsGrow
<1>2. i \in Nat
  BY <1>1
<1>3. ps \in Seq(Nat)
  BY <1>2
<1> HIDE DEF ps
<1>4. e \in Dialog
  BY <1>3, DialogKinds DEF Media
<1>5. /\ dialog' = Added(dialog, e) /\ UNCHANGED <<parties, saved, imports>>
      /\ starts' = Append(starts, NotDated)
      /\ job' = [Job("in-recording", NotRecorded, 0, {})
                     EXCEPT !.stage = "done"]
  BY DEF InRecording, AddDialogRecording, ps
<1> HIDE DEF e
<1>6. NotDated \in Int
  BY DEF NotDated
<1>7. /\ dialog' \in Seq(Dialog) \cup {Absent} /\ Longer(dialog', dialog)
      /\ Length(dialog') = Len(starts')
  BY <1>4, <1>5, <1>6, OneMoreDialog
<1>8. job'.command = "in-recording" /\ job'.stage = "done"
  BY <1>5 DEF Job
<1>9. ListedAreThere' /\ MeetingIsThere' /\ ChatIsBegun'
  BY <1>8, NoChatBegun
<1>10. Extends(parties', parties) /\ NewNames(parties', parties)
  BY <1>1, <1>5, SameParties
<1> QED
  BY <1>1, <1>5, <1>7, <1>9, <1>10, GrowKeeps

\* The people of a message are added under names that were not there.
LEMMA InEmailWhole ==
    ASSUME ImportsInv, WholeInv, NEW m \in Message, InEmail(m)
    PROVE  WholeInv'
<1> DEFINE known == Identified(m)
<1>1. parties \in Seq(Party) /\ dialog \in Seq(Dialog) \cup {Absent}
      /\ Length(dialog) = Len(starts)
  BY DEF WholeInv, ListsGrow
<1>2. /\ known \in KnownSet
      /\ Extends(known.parties, parties) /\ NewNames(known.parties, parties)
  BY <1>1, IdentifiedFacts DEF After, Sound
<1>3. /\ parties' = known.parties
      /\ \/ dialog' = dialog
         \/ dialog' = Added(dialog, TextDialog(known.indices, FALSE, m.media))
  BY DEF InEmail, AddDialogInlineEmailMessage
<1> HIDE DEF known
<1>4. known.parties \in Seq(Party) /\ known.indices \in Seq(Nat)
  BY <1>2 DEF KnownSet
<1>5. TextDialog(known.indices, FALSE, m.media) \in Dialog
  BY <1>4, DialogKinds, ContentAssumption
<1>6. /\ UNCHANGED <<saved, imports>>
      /\ \/ /\ dialog' # dialog
            /\ starts' = Append(starts, NotDated)
            /\ job' = [Job("in-email", m, 0, {}) EXCEPT !.stage = "done"]
         \/ /\ dialog' = dialog
            /\ job' = [Job("in-email", m, 0, {}) EXCEPT !.stage = "raised"]
            /\ UNCHANGED starts
  BY DEF InEmail
<1>7. /\ job'.command = "in-email" /\ job'.stage \in {"done", "raised"}
  BY <1>6 DEF Job
<1>8. ListedAreThere' /\ MeetingIsThere' /\ ChatIsBegun'
  BY <1>7, NoChatBegun
<1>9. /\ dialog' \in Seq(Dialog) \cup {Absent} /\ Longer(dialog', dialog)
      /\ Length(dialog') = Len(starts')
  <2>1. CASE dialog' # dialog
    <3>1. NotDated \in Int
      BY DEF NotDated
    <3> QED
      BY <1>3, <1>5, <1>6, <2>1, <3>1, OneMoreDialog
  <2>2. CASE dialog' = dialog
    BY <1>1, <1>6, <2>2, SameDialogs
  <2> QED
    BY <2>1, <2>2
<1> QED
  BY <1>2, <1>3, <1>4, <1>6, <1>8, <1>9, GrowKeeps

LEMMA RaiseWhole == ASSUME WholeInv, Raise PROVE WholeInv'
BY FailWhole DEF Raise

-----------------------------------------------------------------------------
\* The videos that were listed are counted

LEMMA ListedMore ==
    ASSUME NEW z \in ZoomDirectory, NEW todo \in SUBSET z.entries,
           NEW e \in todo
    PROVE  LET done == z.entries \ todo
               more == z.entries \ (todo \ {e})
           IN  /\ HasChat(more) = (HasChat(done) \/ e.kind = "chat")
               /\ Cardinality(Videos(done)) \in Nat
               /\ e.kind = "video" => Cardinality(Videos(more))
                                          = Cardinality(Videos(done)) + 1
               /\ e.kind # "video" => Videos(more) = Videos(done)
<1> DEFINE done == z.entries \ todo
           more == z.entries \ (todo \ {e})
<1>1. IsFiniteSet(z.entries)
  BY ImportsAssumption
<1>2. IsFiniteSet(Videos(done))
  <2>1. Videos(done) \subseteq z.entries
    BY DEF Videos
  <2> QED
    BY <1>1, <2>1, FS_Subset
<1>3. Cardinality(Videos(done)) \in Nat
  BY <1>2, FS_CardinalityType
<1>4. more = done \cup {e} /\ e \notin done
  OBVIOUS
<1> HIDE DEF done, more
<1>5. HasChat(more) = (HasChat(done) \/ e.kind = "chat")
  BY <1>4 DEF HasChat
<1>6. ASSUME e.kind = "video"
      PROVE  Cardinality(Videos(more)) = Cardinality(Videos(done)) + 1
  <2>1. Videos(more) = Videos(done) \cup {e} /\ e \notin Videos(done)
    BY <1>4, <1>6 DEF Videos
  <2> QED
    BY <1>2, <2>1, FS_AddElement
<1>7. ASSUME e.kind # "video" PROVE Videos(more) = Videos(done)
  BY <1>4, <1>7 DEF Videos
<1> QED
  BY <1>3, <1>5, <1>6, <1>7 DEF done, more

LEMMA NothingListed ==
    ASSUME NEW S
    PROVE  /\ Cardinality(Videos(S \ S)) = 0 /\ ~HasChat(S \ S)
           /\ S \ {} = S
<1>1. Videos(S \ S) = {}
  BY DEF Videos
<1>2. Cardinality(Videos(S \ S)) = 0
  BY <1>1, FS_EmptySet
<1> QED
  BY <1>2 DEF HasChat

\* While a directory is listed, no chat is begun.
LEMMA StillListed ==
    ASSUME job'.command = "in-zoom", job'.stage = "list"
    PROVE  MeetingIsThere' /\ ChatIsBegun'
<1>1. /\ job'.command # "in-meet" /\ job'.stage # "chat"
      /\ job'.stage # "done" /\ job'.stage # "raised"
  OBVIOUS
<1> QED
  BY <1>1 DEF MeetingIsThere, ChatIsBegun

LEMMA InZoomWhole ==
    ASSUME ImportsInv, WholeInv,
           NEW z \in ZoomDirectory, NEW zone \in MachineZone, InZoom(z, zone)
    PROVE  WholeInv'
<1>1. /\ job' = Job("in-zoom", z, zone, z.entries)
      /\ UNCHANGED <<parties, dialog, starts, saved, imports>>
  BY DEF InZoom, listVars, contentVars
<1>2. /\ job'.command = "in-zoom" /\ job'.stage = "list"
      /\ job'.source = z /\ job'.todo = z.entries
      /\ job'.hasChat = FALSE /\ job'.first = Len(starts)
  BY <1>1 DEF Job
<1>3. /\ Cardinality(Videos(z.entries \ z.entries)) = 0
      /\ HasChat(z.entries \ z.entries) = FALSE
  BY NothingListed
<1>4. Len(starts) \in Nat
  BY DEF ImportsInv, TypesOfJobs
<1>5. ListedAreThere'
  <2> DEFINE done == job'.source.entries \ job'.todo
             nothing == z.entries \ z.entries
  <2>1. done = nothing /\ job'.todo \subseteq job'.source.entries
    BY <1>2
  <2>2. Cardinality(Videos(nothing)) = 0 /\ HasChat(nothing) = FALSE
    BY <1>3
  <2> HIDE DEF nothing, done
  <2>3. job'.hasChat = HasChat(done)
    BY <1>2, <2>1, <2>2
  <2>4. starts' = starts /\ job'.first = Len(starts)
    BY <1>1, <1>2
  <2>5. Len(starts') = job'.first + Cardinality(Videos(done))
    BY ONLY <1>4, <2>1, <2>2, <2>4
  <2> QED
    BY <1>2, <2>1, <2>3, <2>5 DEF ListedAreThere, done
<1>6. MeetingIsThere' /\ ChatIsBegun'
  BY <1>2, StillListed
<1> QED
  BY <1>1, <1>5, <1>6, StayKeeps

\* An entry that was read: n dialogs more.
LEMMA ListedWhole ==
    ASSUME ImportsInv, WholeInv, job # Idle, job.stage = "list",
           NEW e \in job.todo, job'.command = "in-zoom", job'.stage = "list",
           job'.source = job.source, job'.first = job.first,
           job'.todo = job.todo \ {e},
           job'.hasChat = (job.hasChat \/ e.kind = "chat"),
           Len(starts') = Len(starts) + IF e.kind = "video" THEN 1 ELSE 0
    PROVE  ListedAreThere' /\ MeetingIsThere' /\ ChatIsBegun'
<1> DEFINE z == job.source
           done == z.entries \ job.todo
           more == z.entries \ (job.todo \ {e})
<1>1. /\ job.command = "in-zoom" /\ z \in ZoomDirectory
      /\ job.first \in Nat /\ Len(starts) \in Nat
  BY ListingTypes DEF ImportsInv, TypesOfJobs, Jobs
<1>2. /\ job.todo \in SUBSET z.entries
      /\ job.hasChat = HasChat(done)
      /\ Len(starts) = job.first + Cardinality(Videos(done))
  BY <1>1 DEF WholeInv, ListedAreThere
<1>3. /\ HasChat(more) = (HasChat(done) \/ e.kind = "chat")
      /\ Cardinality(Videos(done)) \in Nat
      /\ e.kind = "video" =>
             Cardinality(Videos(more)) = Cardinality(Videos(done)) + 1
      /\ e.kind # "video" => Videos(more) = Videos(done)
  <2> HIDE DEF z
  <2> QED
    BY <1>1, <1>2, ListedMore
<1>4. job'.source.entries \ job'.todo = more
  OBVIOUS
<1> HIDE DEF done, more
<1>5. job'.hasChat = HasChat(more)
  BY <1>2, <1>3
<1>6. Len(starts') = job.first + Cardinality(Videos(more))
  <2>1. CASE e.kind = "video"
    BY <1>1, <1>2, <1>3, <2>1
  <2>2. CASE e.kind # "video"
    BY <1>1, <1>2, <1>3, <2>2
  <2> QED
    BY <2>1, <2>2
<1>7. job'.todo \subseteq job'.source.entries
  BY <1>2
<1>8. ListedAreThere'
  BY <1>4, <1>5, <1>6, <1>7 DEF ListedAreThere
<1>9. MeetingIsThere' /\ ChatIsBegun'
  BY StillListed
<1> QED
  BY <1>8, <1>9

LEMMA ReadVideoWhole ==
    ASSUME ImportsInv, WholeInv, NEW e, ReadVideo(e) PROVE WholeInv'
<1> DEFINE d == [type |-> "recording", parties |-> <<Unknown>>,
                 single |-> FALSE, media |-> "other"]
<1>1. /\ job # Idle /\ job.stage = "list" /\ e \in job.todo
      /\ e.kind = "video"
      /\ dialog' = Added(dialog, d) /\ UNCHANGED <<parties, saved, imports>>
      /\ starts' = Append(starts, e.start)
      /\ job' = [[job EXCEPT !.todo = @ \ {e}] EXCEPT !.recorded = e]
  BY DEF ReadVideo, Listing, Listed, AddDialogRecording
<1>2. d \in Dialog
  <2>1. <<Unknown>> \in Seq(Nat)
    BY DEF Unknown
  <2> QED
    BY <2>1, DialogKinds DEF Media
<1> HIDE DEF d
<1>3. job \in Jobs /\ job.command = "in-zoom" /\ job.todo \subseteq Entry
  BY <1>1, ListingTypes
<1>4. e.start \in Int
  BY <1>1, <1>3 DEF Entry
<1>5. /\ dialog' \in Seq(Dialog) \cup {Absent} /\ Longer(dialog', dialog)
      /\ Length(dialog') = Len(starts')
      /\ Len(starts') = Len(starts) + 1
  BY <1>1, <1>2, <1>4, OneMoreDialog
<1>6. /\ job'.command = "in-zoom" /\ job'.stage = "list"
      /\ job'.source = job.source /\ job'.first = job.first
      /\ job'.todo = job.todo \ {e} /\ job'.hasChat = job.hasChat
  BY <1>1, <1>3 DEF Jobs
<1>7. job'.hasChat = (job.hasChat \/ e.kind = "chat")
  <2>1. job.hasChat \in BOOLEAN
    BY <1>3 DEF Jobs
  <2>2. e.kind # "chat"
    BY <1>1
  <2> QED
    BY <1>6, <2>1, <2>2
<1>8. ListedAreThere' /\ MeetingIsThere' /\ ChatIsBegun'
  BY <1>1, <1>5, <1>6, <1>7, ListedWhole
<1>9. /\ parties' \in Seq(Party)
      /\ Extends(parties', parties) /\ NewNames(parties', parties)
  BY <1>1, SameParties DEF WholeInv, ListsGrow
<1> QED
  BY <1>1, <1>5, <1>8, <1>9, GrowKeeps

\* One that is no video adds no dialog.
LEMMA ReadOther ==
    ASSUME ImportsInv, WholeInv, job # Idle, job.stage = "list",
           NEW e \in job.todo, e.kind # "video",
           job'.command = "in-zoom", job'.stage = "list",
           job'.source = job.source, job'.first = job.first,
           job'.todo = job.todo \ {e},
           job'.hasChat = (job.hasChat \/ e.kind = "chat"),
           UNCHANGED <<parties, dialog, starts, saved, imports>>
    PROVE  WholeInv'
<1>1. Len(starts) \in Nat
  BY DEF ImportsInv, TypesOfJobs
<1>2. Len(starts') = Len(starts) + IF e.kind = "video" THEN 1 ELSE 0
  BY <1>1
<1>3. ListedAreThere' /\ MeetingIsThere' /\ ChatIsBegun'
  BY <1>2, ListedWhole
<1> QED
  BY <1>3, StayKeeps

LEMMA ReadChatFileWhole ==
    ASSUME ImportsInv, WholeInv, NEW e, ReadChatFile(e) PROVE WholeInv'
<1>1. /\ job # Idle /\ job.stage = "list" /\ e \in job.todo
      /\ e.kind = "chat"
      /\ job' = [[job EXCEPT !.todo = @ \ {e}] EXCEPT !.hasChat = TRUE]
      /\ UNCHANGED <<parties, dialog, starts, saved, imports>>
  BY DEF ReadChatFile, Listing, Listed, listVars, contentVars
<1>2. job \in Jobs /\ job.command = "in-zoom"
  BY <1>1, ListingTypes
<1>3. /\ job'.command = "in-zoom" /\ job'.stage = "list"
      /\ job'.source = job.source /\ job'.first = job.first
      /\ job'.todo = job.todo \ {e} /\ job'.hasChat = TRUE
  BY <1>1, <1>2 DEF Jobs
<1>4. job'.hasChat = (job.hasChat \/ e.kind = "chat")
  BY <1>1, <1>3
<1>5. e.kind # "video"
  BY <1>1
<1> QED
  BY <1>1, <1>3, <1>4, <1>5, ReadOther

LEMMA ReadFileWhole ==
    ASSUME ImportsInv, WholeInv, NEW e, ReadFile(e) PROVE WholeInv'
<1>1. CASE Datable(e)
  <2>1. /\ job # Idle /\ job.stage = "list" /\ e \in job.todo
        /\ e.kind = "file"
        /\ job' = [job EXCEPT !.todo = @ \ {e}]
        /\ UNCHANGED <<parties, dialog, starts, saved, imports>>
    BY <1>1 DEF ReadFile, Listing, Listed, AddAttachmentInline, contentVars
  <2>2. job \in Jobs /\ job.command = "in-zoom" /\ job.hasChat \in BOOLEAN
    BY <2>1, ListingTypes DEF Jobs
  <2>3. /\ job'.command = "in-zoom" /\ job'.stage = "list"
        /\ job'.source = job.source /\ job'.first = job.first
        /\ job'.todo = job.todo \ {e} /\ job'.hasChat = job.hasChat
    BY <2>1, <2>2 DEF Jobs
  <2>4. e.kind # "video" /\ e.kind # "chat"
    BY <2>1
  <2>5. job'.hasChat = (job.hasChat \/ e.kind = "chat")
    BY <2>2, <2>3, <2>4
  <2> QED
    BY <2>1, <2>3, <2>4, <2>5, ReadOther
<1>2. CASE ~Datable(e)
  BY <1>2, FailWhole DEF ReadFile
<1> QED
  BY <1>1, <1>2

\* The whole directory was listed.
LEMMA AllListed ==
    ASSUME ImportsInv, WholeInv, job # Idle, job.stage = "list", job.todo = {}
    PROVE  /\ job \in Jobs /\ job.command = "in-zoom"
           /\ job.hasChat = HasChat(job.source.entries)
           /\ Len(starts) = job.first + Cardinality(Videos(job.source.entries))
<1>1. job \in Jobs /\ job.command = "in-zoom"
  BY ListingTypes
<1>2. job.source.entries \ job.todo = job.source.entries
  OBVIOUS
<1>3. ListedAreThere
  BY DEF WholeInv
<1> QED
  BY <1>1, <1>2, <1>3 DEF ListedAreThere

LEMMA NoZoomChatWhole ==
    ASSUME ImportsInv, WholeInv, NoZoomChat PROVE WholeInv'
<1>1. /\ job # Idle /\ job.stage = "list" /\ job.todo = {} /\ ~job.hasChat
      /\ job' = [job EXCEPT !.stage = "done"]
      /\ UNCHANGED <<parties, dialog, starts, saved, imports>>
  BY DEF NoZoomChat, listVars, contentVars
<1>2. /\ job \in Jobs /\ job.command = "in-zoom"
      /\ job.hasChat = HasChat(job.source.entries)
  BY <1>1, AllListed
<1>3. /\ job'.command = "in-zoom" /\ job'.stage = "done"
      /\ job'.source = job.source /\ job'.hasChat = job.hasChat
  BY <1>1, <1>2 DEF Jobs
<1>4. ListedAreThere'
  BY <1>1, <1>2, <1>3 DEF ListedAreThere
<1>5. ~Chats(job)'
  BY <1>1, <1>3 DEF Chats
<1>6. job'.command # "in-meet" /\ job'.stage # "chat"
  BY <1>3
<1>7. MeetingIsThere' /\ ChatIsBegun'
  BY <1>5, <1>6 DEF MeetingIsThere, ChatIsBegun
<1> QED
  BY <1>1, <1>4, <1>7, StayKeeps

-----------------------------------------------------------------------------
\* The chat, message by message

\* A chat before its first message: chat is what was said, texts what is to be
\* added.
LEMMA ChatStarts ==
    ASSUME job'.stage = "chat", Chats(job)', NEW chat, NEW texts,
           chat \in Seq([sender : STRING, sent : Int]),
           job'.source.chat = chat, job'.chat = texts,
           Len(texts) = Len(chat), job'.chatAt \in Nat,
           \A k \in 1 .. Len(chat) : texts[k].sender = chat[k].sender,
           Len(starts') = job'.chatAt
    PROVE  ChatIsBegun'
<1> DEFINE n == Len(chat) - Len(texts)
<1>1. n = 0
  <2>1. Len(chat) \in Nat
    OBVIOUS
  <2> QED
    BY <2>1
<1>2. \A k \in 1 .. Len(chat) : n + k = k
  BY <1>1
<1> HIDE DEF n
<1>3. /\ n \in Nat /\ Len(starts') = job'.chatAt + n
      /\ \A k \in 1 .. Len(texts) : texts[k].sender = chat[n + k].sender
  BY <1>1, <1>2
<1>4. Said(chat, job'.chatAt, dialog', parties', n)
  BY <1>1 DEF Said
<1>5. job'.stage # "done"
  OBVIOUS
<1> QED
  BY <1>3, <1>4, <1>5 DEF ChatIsBegun, n

\* What is to be added of a chat.
LEMMA TextsOfChat ==
    ASSUME NEW chat \in Seq([sender : STRING, sent : Int]), NEW Time(_),
           NEW texts,
           texts = [k \in DOMAIN chat |-> [sender |-> chat[k].sender,
                                           start |-> Time(chat[k])]]
    PROVE  /\ Len(texts) = Len(chat)
           /\ \A k \in 1 .. Len(chat) : texts[k].sender = chat[k].sender
<1>1. DOMAIN chat = 1 .. Len(chat) /\ Len(chat) \in Nat
  OBVIOUS
<1>2. DOMAIN texts = 1 .. Len(chat)
  BY <1>1
<1>3. Len(texts) = Len(chat)
  BY <1>1, <1>2
<1> QED
  BY <1>1, <1>3

LEMMA ParseZoomChatWhole ==
    ASSUME ImportsInv, WholeInv, ParseZoomChat PROVE WholeInv'
<1> DEFINE z == job.source
           Time(m) == ZoomChatToUtc(Written(z, m), job.recorded.start,
                                    job.recorded.end, job.zone)
           texts == [k \in DOMAIN z.chat |-> [sender |-> z.chat[k].sender,
                                              start |-> Time(z.chat[k])]]
<1>1. /\ job # Idle /\ job.stage = "list" /\ job.todo = {} /\ job.hasChat
      /\ \/ Fail
         \/ /\ job' = [job EXCEPT !.stage = "chat", !.chatAt = Len(starts),
                                  !.chat = texts]
            /\ UNCHANGED <<listVars, saved, imports>>
  BY DEF ParseZoomChat
<1>2. CASE Fail
  BY <1>2, FailWhole
<1>3. CASE /\ job' = [job EXCEPT !.stage = "chat", !.chatAt = Len(starts),
                                 !.chat = texts]
           /\ UNCHANGED <<listVars, saved, imports>>
  <2>1. /\ job \in Jobs /\ job.command = "in-zoom"
        /\ job.hasChat = HasChat(z.entries)
        /\ Len(starts) = job.first + Cardinality(Videos(z.entries))
    BY <1>1, AllListed
  <2>2. z \in ZoomDirectory
    BY <1>1, ListingTypes
  <2>3. z.chat \in Seq([sender : STRING, sent : Int])
    BY <2>2, ImportsAssumption
  <2>4. /\ Len(texts) = Len(z.chat)
        /\ \A k \in 1 .. Len(z.chat) : texts[k].sender = z.chat[k].sender
    <3> HIDE DEF z, Time
    <3>1. texts = [k \in DOMAIN z.chat |-> [sender |-> z.chat[k].sender,
                                            start |-> Time(z.chat[k])]]
      OBVIOUS
    <3> HIDE DEF texts
    <3> QED
      BY <2>3, <3>1, TextsOfChat
  <2>5. UNCHANGED <<parties, dialog, starts, saved, imports>>
    BY <1>3 DEF listVars, contentVars
  <2>6. Len(starts) \in Nat
    BY DEF ImportsInv, TypesOfJobs
  <2> HIDE DEF texts
  <2>7. /\ job'.command = "in-zoom" /\ job'.stage = "chat"
        /\ job'.source = z /\ job'.hasChat = job.hasChat
        /\ job'.first = job.first
        /\ job'.chatAt = Len(starts) /\ job'.chat = texts
    BY <1>3, <2>1 DEF Jobs
  <2> HIDE DEF z
  <2>8. ListedAreThere'
    BY <2>1, <2>7 DEF ListedAreThere
  <2>9. MeetingIsThere'
    <3>1. job'.command # "in-meet"
      BY <2>7
    <3> QED
      BY <3>1 DEF MeetingIsThere
  <2>10. Chats(job)'
    BY <1>1, <2>7 DEF Chats
  <2>11. /\ Len(starts') = job'.chatAt /\ job'.chatAt \in Nat
         /\ job'.source.chat = z.chat
    BY <2>5, <2>6, <2>7
  <2>12. ChatIsBegun'
    BY <2>3, <2>4, <2>7, <2>10, <2>11, ChatStarts
  <2> QED
    BY <2>5, <2>8, <2>9, <2>12, StayKeeps
<1> QED
  BY <1>1, <1>2, <1>3

LEMMA InMeetWhole ==
    ASSUME ImportsInv, WholeInv, NEW r \in MeetRecording, InMeet(r)
    PROVE  WholeInv'
<1> DEFINE d == [type |-> "recording", parties |-> <<>>, single |-> FALSE,
                 media |-> "other"]
           Time(m) == r.start + m.sent
           timed == [k \in DOMAIN r.chat |-> [sender |-> r.chat[k].sender,
                                              start |-> Time(r.chat[k])]]
           texts == IF r.chat = Absent THEN <<>> ELSE timed
<1>1. /\ dialog' = Added(dialog, d) /\ UNCHANGED <<parties, saved, imports>>
      /\ starts' = Append(starts, r.start)
      /\ job' = [Job("in-meet", r, 0, {}) EXCEPT
                    !.stage = IF ~r.named THEN "done"
                              ELSE IF r.chat = Absent THEN "raised"
                              ELSE "chat",
                    !.chatAt = Len(starts) + 1,
                    !.chat = texts]
  BY DEF InMeet
<1> HIDE DEF texts
<1>2. /\ job'.command = "in-meet" /\ job'.source = r
      /\ job'.first = Len(starts) /\ job'.chatAt = Len(starts) + 1
      /\ job'.chat = texts
      /\ job'.stage = IF ~r.named THEN "done"
                      ELSE IF r.chat = Absent THEN "raised" ELSE "chat"
  BY <1>1 DEF Job
<1>3. r.start \in Int /\ r.named \in BOOLEAN
  BY ImportsAssumption
<1>4. d \in Dialog
  <2>1. <<>> \in Seq(Nat)
    OBVIOUS
  <2> QED
    BY <2>1, DialogKinds DEF Media
<1> HIDE DEF d
<1>5. /\ dialog' \in Seq(Dialog) \cup {Absent} /\ Longer(dialog', dialog)
      /\ Len(starts) \in Nat
      /\ Length(dialog') = Len(starts')
      /\ Len(starts') = Len(starts) + 1
  BY <1>1, <1>3, <1>4, OneMoreDialog
<1>6. /\ parties' \in Seq(Party)
      /\ Extends(parties', parties) /\ NewNames(parties', parties)
  BY <1>1, SameParties DEF WholeInv, ListsGrow
<1>7. ListedAreThere'
  <2>1. job'.command # "in-zoom"
    BY <1>2
  <2> QED
    BY <2>1 DEF ListedAreThere
<1>8. MeetingIsThere'
  <2>1. job'.stage # "raised" /\ r.named => r.chat # Absent
    BY <1>2
  <2> QED
    BY <1>2, <2>1 DEF MeetingIsThere
<1>9. ChatIsBegun'
  <2>1. CASE r.named /\ r.chat # Absent
    <3> DEFINE chat == r.chat
    <3>1. chat \in Seq([sender : STRING, sent : Int])
      BY <2>1, ImportsAssumption
    <3>2. texts = timed
      BY <2>1 DEF texts
    <3> HIDE DEF Time
    <3>3. texts = [k \in DOMAIN chat |-> [sender |-> chat[k].sender,
                                          start |-> Time(chat[k])]]
      BY <3>2
    <3> HIDE DEF chat, timed
    <3>4. /\ Len(texts) = Len(chat)
          /\ \A k \in 1 .. Len(chat) : texts[k].sender = chat[k].sender
      BY <3>1, <3>3, TextsOfChat
    <3>5. job'.stage = "chat" /\ Chats(job)'
      BY <1>2, <2>1 DEF Chats
    <3>6. /\ job'.source.chat = chat /\ job'.chat = texts
          /\ job'.chatAt \in Nat /\ Len(starts') = job'.chatAt
      BY <1>2, <1>5 DEF chat
    <3> QED
      BY <3>1, <3>4, <3>5, <3>6, ChatStarts
  <2>2. CASE r.named /\ r.chat = Absent
    <3>1. job'.stage # "chat" /\ job'.stage # "done"
      BY <1>2, <2>2
    <3> QED
      BY <3>1 DEF ChatIsBegun
  <2>3. CASE ~r.named
    <3>1. job'.stage = "done" /\ job'.stage # "chat" /\ ~Chats(job)'
      BY <1>2, <2>3 DEF Chats
    <3> QED
      BY <3>1 DEF ChatIsBegun
  <2> QED
    BY <1>3, <2>1, <2>2, <2>3
<1> QED
  BY <1>1, <1>5, <1>6, <1>7, <1>8, <1>9, GrowKeeps

\* The party p of a message, and the parties then.
Takes(p, after, ps, sender) ==
    LET found == FindPartiesByParameter(ps, "name", sender)
    IN  /\ p = IF found = <<>> THEN Len(ps) + 1 ELSE found[1]
        /\ after = IF found # <<>> THEN ps
                   ELSE Append(ps, [name |-> sender, mailto |-> ""])

\* It is the first one that has the sender's name, or one that is added.
LEMMA SenderIsFirst ==
    ASSUME NEW ps \in Seq(Party), NEW sender \in STRING,
           NEW p, NEW after, Takes(p, after, ps, sender)
    PROVE  /\ after \in Seq(Party)
           /\ Extends(after, ps) /\ NewNames(after, ps)
           /\ p \in 1 .. Len(after) /\ p \in Nat
           /\ Occurs(sender, after[p].name)
           /\ \A q \in 1 .. Len(after) :
                  Occurs(sender, after[q].name) => p <= q
<1> DEFINE found == FindPartiesByParameter(ps, "name", sender)
<1>0. /\ p = IF found = <<>> THEN Len(ps) + 1 ELSE found[1]
      /\ after = IF found # <<>> THEN ps
                 ELSE Append(ps, [name |-> sender, mailto |-> ""])
  BY DEF Takes
<1>1. /\ found \in Seq(1 .. Len(ps))
      /\ Range(found) = {i \in 1 .. Len(ps) : Occurs(sender, ps[i].name)}
      /\ found = <<>> <=> \A i \in 1 .. Len(ps) : ~Occurs(sender, ps[i].name)
      /\ \A i, j \in DOMAIN found : i < j => found[i] < found[j]
  BY FindFacts
<1> HIDE DEF found
<1>2. Len(ps) \in Nat
  BY ONLY ps \in Seq(Party)
<1>3. CASE found # <<>>
  <2>1. 1 \in DOMAIN found /\ DOMAIN found = 1 .. Len(found)
    BY ONLY <1>1, <1>3
  <2>2. found[1] \in Range(found)
    BY ONLY <2>1 DEF Range
  <2>3. after = ps /\ p = found[1]
    BY ONLY <1>0, <1>3
  <2>4. p \in 1 .. Len(ps) /\ Occurs(sender, ps[p].name)
    BY ONLY <1>1, <2>2, <2>3
  <2>5. ASSUME NEW q \in 1 .. Len(ps), Occurs(sender, ps[q].name)
        PROVE  p <= q
    <3>1. q \in Range(found)
      BY ONLY <1>1, <2>5
    <3>2. PICK j \in DOMAIN found : found[j] = q
      BY ONLY <3>1 DEF Range
    <3>3. j = 1 \/ 1 < j
      BY ONLY <1>1, <2>1, <3>2
    <3> QED
      BY ONLY <1>1, <1>2, <2>1, <2>3, <2>4, <2>5, <3>2, <3>3
  <2>6. Extends(after, ps) /\ NewNames(after, ps)
    BY <2>3, SameParties
  <2>7. p \in Nat
    BY ONLY <1>2, <2>4
  <2> QED
    BY ONLY ps \in Seq(Party), <2>3, <2>4, <2>5, <2>6, <2>7
<1>4. CASE found = <<>>
  <2> DEFINE new == [name |-> sender, mailto |-> ""]
  <2>1. new \in Party /\ new.name = sender
    BY DEF Party
  <2>2. after = Append(ps, new) /\ p = Len(ps) + 1
    BY <1>0, <1>4
  <2> HIDE DEF new
  <2>3. \A i \in 1 .. Len(ps) : ~Occurs(new.name, ps[i].name)
    BY ONLY <1>1, <1>4, <2>1
  <2>4. /\ after \in Seq(Party) /\ Len(after) = Len(ps) + 1
        /\ after[Len(ps) + 1] = new
        /\ Extends(after, ps) /\ NewNames(after, ps)
    BY <2>1, <2>2, <2>3, NewParty
  <2>5. Occurs(sender, after[p].name)
    BY ONLY <2>1, <2>2, <2>4 DEF Occurs
  <2>6. ASSUME NEW q \in 1 .. Len(after), Occurs(sender, after[q].name)
        PROVE  p <= q
    <3>1. CASE q \in 1 .. Len(ps)
      <4>1. after[q] = ps[q]
        BY ONLY <2>4, <3>1 DEF Extends
      <4> QED
        BY ONLY <2>1, <2>3, <2>6, <3>1, <4>1
    <3>2. CASE q \notin 1 .. Len(ps)
      BY ONLY <1>2, <2>2, <2>4, <2>6, <3>2
    <3> QED
      BY <3>1, <3>2
  <2>7. p \in 1 .. Len(after) /\ p \in Nat
    BY ONLY <1>2, <2>2, <2>4
  <2> QED
    BY ONLY <2>4, <2>5, <2>6, <2>7
<1> QED
  BY <1>3, <1>4

\* One more message of the n that were said.
LEMMA SaidMore ==
    ASSUME NEW before \in Seq(Party), NEW after \in Seq(Party),
           Extends(after, before),
           NEW d \in Seq(Dialog) \cup {Absent},
           NEW d2 \in Seq(Dialog) \cup {Absent}, Longer(d2, d),
           NEW chat, NEW at \in Nat, NEW n \in Nat,
           Said(chat, at, d, before, n),
           Length(d2) = at + n + 1,
           SpokenBy(d2[at + n + 1], chat[n + 1].sender, after)
    PROVE  Said(chat, at, d2, after, n + 1)
<1>1. Said(chat, at, d2, after, n)
  BY SaidStays
<1>2. at + (n + 1) = at + n + 1 /\ at + n + 1 \in 1 .. at + n + 1
  OBVIOUS
<1>3. /\ at + (n + 1) \in 1 .. Length(d2)
      /\ SpokenBy(d2[at + (n + 1)], chat[n + 1].sender, after)
  BY <1>2
<1>4. \A k \in 1 .. n + 1 : k \in 1 .. n \/ k = n + 1
  OBVIOUS
<1> QED
  BY <1>1, <1>3, <1>4 DEF Said

LEMMA AddMessageWhole ==
    ASSUME ImportsInv, WholeInv, AddMessage PROVE WholeInv'
<1> DEFINE texts == job.chat
           sender == Head(texts).sender
           p == SenderIndex(sender)
           e == TextDialog(<<p>>, TRUE, "plain")
           chat == job.source.chat
           n == Len(chat) - Len(texts)
           at == job.chatAt
<1>1. /\ job # Idle /\ job.stage = "chat" /\ texts # <<>>
      /\ parties' = IF SenderIndices(sender) # <<>> THEN parties
                    ELSE Append(parties, [name |-> sender, mailto |-> ""])
      /\ dialog' = Added(dialog, e)
      /\ starts' = Append(starts, Head(texts).start)
      /\ job' = [job EXCEPT !.chat = Tail(texts)]
      /\ UNCHANGED <<saved, imports>>
  BY DEF AddMessage
<1>2. /\ job \in Jobs /\ ListedAreThere /\ MeetingIsThere /\ ChatIsBegun
      /\ ListsGrow
  BY <1>1 DEF ImportsInv, TypesOfJobs, WholeInv
<1>3. texts \in Seq([sender : STRING, start : Int]) /\ at \in Nat
  BY <1>2 DEF Jobs
<1>4. /\ job'.command = job.command /\ job'.stage = "chat"
      /\ job'.source = job.source /\ job'.first = job.first
      /\ job'.hasChat = job.hasChat /\ job'.chatAt = at
      /\ job'.chat = Tail(texts)
  BY <1>1, <1>2 DEF Jobs
<1>5. /\ Chats(job) /\ n \in Nat /\ Len(starts) = at + n
      /\ Said(chat, at, dialog, parties, n)
      /\ \A k \in 1 .. Len(texts) : texts[k].sender = chat[n + k].sender
  BY <1>1, <1>2 DEF ChatIsBegun
<1> HIDE DEF texts
<1>6. /\ Head(texts) = texts[1]
      /\ Len(texts) \in Nat /\ Len(texts) > 0
      /\ Tail(texts) \in Seq([sender : STRING, start : Int])
      /\ Len(Tail(texts)) = Len(texts) - 1
      /\ \A k \in 1 .. Len(texts) - 1 : Tail(texts)[k] = texts[k + 1]
  <2>1. texts # <<>>
    BY <1>1
  <2> QED
    BY ONLY <1>3, <2>1, HeadTailProperties
<1>7. 1 \in 1 .. Len(texts)
  BY <1>6
<1>8. Head(texts) \in [sender : STRING, start : Int]
  <2>1. texts[1] \in [sender : STRING, start : Int]
    BY <1>3, <1>7, ElementOfSeq
  <2> QED
    BY <1>6, <2>1
<1>9. /\ sender \in STRING /\ Head(texts).start \in Int
      /\ sender = chat[n + 1].sender
  BY <1>5, <1>6, <1>7, <1>8
<1> HIDE DEF sender, n, chat, at
<1>10. parties \in Seq(Party) /\ dialog \in Seq(Dialog) \cup {Absent}
  BY <1>2 DEF ListsGrow
<1>11. /\ parties' \in Seq(Party)
       /\ Extends(parties', parties) /\ NewNames(parties', parties)
       /\ p \in 1 .. Len(parties') /\ p \in Nat
       /\ Occurs(sender, parties'[p].name)
       /\ \A q \in 1 .. Len(parties') :
              Occurs(sender, parties'[q].name) => p <= q
  <2>1. Takes(p, parties', parties, sender)
    BY <1>1 DEF Takes, SenderIndex, SenderIndices
  <2> HIDE DEF p
  <2> QED
    BY <1>9, <1>10, <2>1, SenderIsFirst
<1> HIDE DEF p
<1>12. e \in Dialog /\ e.type = "text" /\ e.parties = <<p>>
  <2>1. <<p>> \in Seq(Nat)
    BY <1>11
  <2> QED
    BY <2>1, DialogKinds DEF Media
<1> HIDE DEF e
<1>13. SpokenBy(e, sender, parties')
  BY <1>11, <1>12 DEF SpokenBy
<1>14. /\ dialog' \in Seq(Dialog) \cup {Absent} /\ Longer(dialog', dialog)
       /\ Length(dialog') = Len(starts') /\ Len(starts') = Len(starts) + 1
       /\ dialog'[Len(starts) + 1] = e
  BY <1>1, <1>9, <1>12, OneMoreDialog
<1>15. Said(chat, at, dialog', parties', n + 1)
  <2>1. Len(starts) = at + n /\ Length(dialog') = at + n + 1
    BY <1>5, <1>14
  <2>2. SpokenBy(dialog'[at + n + 1], chat[n + 1].sender, parties')
    BY <1>9, <1>13, <1>14, <2>1
  <2>3. at \in Nat
    BY <1>3
  <2> QED
    BY <1>5, <1>10, <1>11, <1>14, <2>1, <2>2, <2>3, SaidMore
<1>16. ListedAreThere'
  <2>1. job'.stage # "list" /\ job.stage # "list"
    BY <1>1, <1>4
  <2>2. job'.command = "in-zoom" =>
            /\ job'.hasChat = HasChat(job'.source.entries)
            /\ job'.hasChat => job'.chatAt = job'.first
                                + Cardinality(Videos(job'.source.entries))
    BY <1>2, <1>4, <2>1 DEF ListedAreThere, at
  <2> QED
    BY ONLY <2>1, <2>2 DEF ListedAreThere
<1>17. MeetingIsThere'
  BY <1>1, <1>2, <1>4 DEF MeetingIsThere, at
<1>18. ChatIsBegun'
  <2> DEFINE m == Len(chat) - Len(Tail(texts))
  <2>1. m = n + 1
    <3>1. n = Len(chat) - Len(texts)
      BY DEF n
    <3>2. Len(chat) \in Int
      BY <1>5, <1>6, <3>1
    <3> QED
      BY <1>6, <3>1, <3>2
  <2> HIDE DEF m
  <2>2. m \in Nat /\ Len(starts') = at + m
    BY <1>3, <1>5, <1>14, <2>1
  <2>3. ASSUME NEW k \in 1 .. Len(Tail(texts))
        PROVE  Tail(texts)[k].sender = chat[m + k].sender
    <3>1. /\ k \in 1 .. Len(texts) - 1 /\ k + 1 \in 1 .. Len(texts)
          /\ n + (k + 1) = m + k
      BY <1>5, <1>6, <2>1
    <3> QED
      BY <1>5, <1>6, <3>1
  <2>4. Chats(job)' /\ job'.stage # "done"
    BY <1>4, <1>5 DEF Chats
  <2>5. job'.source.chat = chat
    BY <1>4 DEF chat
  <2> QED
    BY <1>4, <1>15, <2>1, <2>2, <2>3, <2>4, <2>5 DEF ChatIsBegun, m
<1> QED
  BY <1>1, <1>11, <1>14, <1>16, <1>17, <1>18, GrowKeeps

LEMMA EndOfChatWhole ==
    ASSUME ImportsInv, WholeInv, EndOfChat PROVE WholeInv'
<1>1. /\ job # Idle /\ job.stage = "chat" /\ job.chat = <<>>
      /\ job' = [job EXCEPT !.stage = "done"]
      /\ UNCHANGED <<parties, dialog, starts, saved, imports>>
  BY DEF EndOfChat, listVars, contentVars
<1>2. job \in Jobs /\ ListedAreThere /\ MeetingIsThere /\ ChatIsBegun
  BY <1>1 DEF ImportsInv, TypesOfJobs, WholeInv
<1>3. /\ job'.command = job.command /\ job'.stage = "done"
      /\ job'.source = job.source /\ job'.first = job.first
      /\ job'.hasChat = job.hasChat /\ job'.chatAt = job.chatAt
      /\ job'.chat = job.chat
  BY <1>1, <1>2 DEF Jobs
<1>4. ListedAreThere'
  <2>1. job'.stage # "list" /\ job.stage # "list"
    BY <1>1, <1>3
  <2>2. job'.command = "in-zoom" =>
            /\ job'.hasChat = HasChat(job'.source.entries)
            /\ job'.hasChat => job'.chatAt = job'.first
                                + Cardinality(Videos(job'.source.entries))
    BY <1>2, <1>3, <2>1 DEF ListedAreThere
  <2> QED
    BY ONLY <2>1, <2>2 DEF ListedAreThere
<1>5. MeetingIsThere'
  BY <1>1, <1>2, <1>3 DEF MeetingIsThere
<1>6. ChatIsBegun'
  <2> DEFINE n == Len(job.source.chat) - Len(job.chat)
  <2>1. /\ n \in Nat /\ Len(starts) = job.chatAt + n
        /\ Said(job.source.chat, job.chatAt, dialog, parties, n)
        /\ \A k \in 1 .. Len(job.chat) :
               job.chat[k].sender = job.source.chat[n + k].sender
    BY <1>1, <1>2 DEF ChatIsBegun
  <2>2. Len(job'.source.chat) - Len(job'.chat) = n
    BY <1>3
  <2> HIDE DEF n
  <2>3. Said(job'.source.chat, job'.chatAt, dialog', parties', n)
    BY <1>1, <1>3, <2>1
  <2>4. \A k \in 1 .. Len(job'.chat) :
            job'.chat[k].sender = job'.source.chat[n + k].sender
    BY <1>3, <2>1
  <2>5. Len(starts') = job'.chatAt + n /\ job'.stage # "chat"
    BY <1>1, <1>3, <2>1
  <2>6. job'.chat = <<>>
    BY <1>1, <1>3
  <2> QED
    BY <2>1, <2>2, <2>3, <2>4, <2>5, <2>6 DEF ChatIsBegun
<1> QED
  BY <1>1, <1>4, <1>5, <1>6, StayKeeps

\* A command that has ended has imported its chat as a whole.
LEMMA DoneIsWhole ==
    ASSUME ImportsInv, WholeInv, job # Idle, job.stage = "done"
    PROVE  Whole(job, dialog, parties)
<1>1. /\ job \in Jobs /\ JobIsDated
      /\ ListedAreThere /\ MeetingIsThere /\ ChatIsBegun
  BY DEF ImportsInv, TypesOfJobs, WholeInv
<1>2. job.command = "in-zoom" =>
          /\ job.source \in ZoomDirectory
          /\ job.hasChat = HasChat(job.source.entries)
  BY <1>1 DEF JobIsDated, ListedAreThere
<1>3. ASSUME Chats(job)
      PROVE  /\ job.source.chat \in Seq([sender : STRING, sent : Int])
             /\ job.chatAt = job.first + Recordings(job)
             /\ Said(job.source.chat, job.chatAt, dialog, parties,
                     Len(job.source.chat))
  <2> DEFINE chat == job.source.chat
  <2>1. chat \in Seq([sender : STRING, sent : Int])
    <3>1. CASE job.command = "in-zoom"
      BY <1>2, <3>1, ImportsAssumption
    <3>2. CASE job.command = "in-meet"
      <4>1. job.source.named
        BY <1>3, <3>2 DEF Chats
      <4>2. job.source \in MeetRecording /\ chat # Absent
        BY <1>1, <3>2, <4>1 DEF MeetingIsThere
      <4> QED
        BY <4>2, ImportsAssumption
    <3> QED
      BY <1>3, <3>1, <3>2 DEF Chats
  <2>2. job.chatAt = job.first + Recordings(job)
    <3>1. CASE job.command = "in-zoom"
      <4>1. job.hasChat
        BY <1>3, <3>1 DEF Chats
      <4>2. job.chatAt = job.first + Cardinality(Videos(job.source.entries))
        BY <1>1, <3>1, <4>1 DEF ListedAreThere
      <4>3. Recordings(job) = Cardinality(Videos(job.source.entries))
        BY <3>1 DEF Recordings, Videos
      <4> QED
        BY <4>2, <4>3
    <3>2. CASE job.command = "in-meet"
      BY <1>1, <3>2 DEF MeetingIsThere, Recordings
    <3> QED
      BY <1>3, <3>1, <3>2 DEF Chats
  <2>3. /\ job.chat = <<>>
        /\ Said(chat, job.chatAt, dialog, parties, Len(chat) - Len(job.chat))
    BY <1>1, <1>3 DEF ChatIsBegun
  <2>4. Len(chat) - Len(job.chat) = Len(chat)
    <3>1. Len(chat) \in Nat
      BY <2>1
    <3> QED
      BY <2>3, <3>1
  <2> QED
    BY <2>1, <2>2, <2>3, <2>4
<1> QED
  BY <1>2, <1>3 DEF Whole

\* The chats that were imported before are still there.
LEMMA FinishWhole ==
    ASSUME ImportsInv, WholeInv, Finish PROVE WholeInv'
<1>1. /\ job # Idle /\ job.stage = "done"
      /\ saved'.parties = parties /\ saved'.dialog = dialog
      /\ saved'.starts = starts
      /\ UNCHANGED <<parties, dialog, starts>>
      /\ imports' = Append(imports, job) /\ job' = Idle
  BY DEF Finish, Held, listVars, contentVars
<1>2. ListsGrow /\ job \in Jobs /\ imports \in Seq(Jobs)
  BY <1>1 DEF WholeInv, ImportsInv, TypesOfJobs
<1>3. ListsGrow'
  <2>1. /\ Extends(parties, parties) /\ NewNames(parties, parties)
        /\ Longer(dialog, dialog)
    BY <1>2, SameParties, SameDialogs DEF ListsGrow
  <2> QED
    BY <1>1, <1>2, <2>1 DEF ListsGrow
<1>4. /\ Len(imports) \in Nat /\ Len(imports') = Len(imports) + 1
      /\ \A i \in 1 .. Len(imports) : imports'[i] = imports[i]
      /\ imports'[Len(imports) + 1] = job
  BY <1>1, <1>2
<1>5. ASSUME NEW i \in 1 .. Len(imports')
      PROVE  Whole(imports'[i], saved'.dialog, saved'.parties)
  <2>1. CASE i \in 1 .. Len(imports)
    <3> DEFINE im == imports[i]
    <3>1. Whole(im, saved.dialog, saved.parties)
      BY <2>1 DEF WholeInv
    <3> HIDE DEF im
    <3>2. ASSUME Chats(im)
          PROVE  Said(im.source.chat, im.chatAt, dialog, parties,
                      Len(im.source.chat))
      <4>1. Said(im.source.chat, im.chatAt, saved.dialog, saved.parties,
                 Len(im.source.chat))
        BY <3>1, <3>2 DEF Whole
      <4> QED
        BY <1>2, <4>1, SaidStays DEF ListsGrow
    <3>3. Whole(im, dialog, parties)
      BY <3>1, <3>2 DEF Whole
    <3> QED
      BY <1>1, <1>4, <2>1, <3>3 DEF im
  <2>2. CASE i = Len(imports) + 1
    <3>1. Whole(job, dialog, parties)
      BY <1>1, DoneIsWhole
    <3> QED
      BY <1>1, <1>4, <2>2, <3>1
  <2> QED
    BY <1>4, <2>1, <2>2
<1> QED
  BY <1>1, <1>3, <1>5 DEF WholeInv

LEMMA WholeStep ==
    ImportsInv /\ WholeInv /\ [ImportsNext]_importsVars => WholeInv'
<1> SUFFICES ASSUME ImportsInv, WholeInv, [ImportsNext]_importsVars
             PROVE  WholeInv'
  OBVIOUS
<1>1. ASSUME NEW i \in 0 .. Len(parties),
             InRecording(IF i = 0 THEN <<>> ELSE <<i>>)
      PROVE  WholeInv'
  BY <1>1, InRecordingWhole
<1>2. ASSUME NEW m \in Message, InEmail(m) PROVE WholeInv'
  BY <1>2, InEmailWhole
<1>3. CASE Raise
  BY <1>3, RaiseWhole
<1>4. ASSUME NEW z \in ZoomDirectory, NEW zone \in MachineZone, InZoom(z, zone)
      PROVE  WholeInv'
  BY <1>4, InZoomWhole
<1>5. ASSUME NEW e, ReadVideo(e) \/ ReadChatFile(e) \/ ReadFile(e)
      PROVE  WholeInv'
  BY <1>5, ReadVideoWhole, ReadChatFileWhole, ReadFileWhole
<1>6. CASE ParseZoomChat
  BY <1>6, ParseZoomChatWhole
<1>7. CASE NoZoomChat
  BY <1>7, NoZoomChatWhole
<1>8. ASSUME NEW r \in MeetRecording, InMeet(r) PROVE WholeInv'
  BY <1>8, InMeetWhole
<1>9. CASE AddMessage
  BY <1>9, AddMessageWhole
<1>10. CASE EndOfChat
  BY <1>10, EndOfChatWhole
<1>11. CASE Finish
  BY <1>11, FinishWhole
<1>12. CASE UNCHANGED importsVars
  <2>1. UNCHANGED <<parties, dialog, starts, job, saved, imports>>
    BY <1>12 DEF importsVars, listVars, contentVars
  <2> QED
    BY <2>1 DEF WholeInv, ListsGrow, ListedAreThere, MeetingIsThere,
                ChatIsBegun, Chats
<1> QED
  BY <1>1, <1>2, <1>3, <1>4, <1>5, <1>6, <1>7, <1>8, <1>9, <1>10, <1>11,
     <1>12 DEF ImportsNext

LEMMA WholeInvariance == ImportsSpec => [](ImportsInv /\ WholeInv)
<1>1. ImportsInit => ImportsInv /\ WholeInv
  BY ImportsInit_Inv, WholeInit
<1>2. ImportsInv /\ WholeInv /\ [ImportsNext]_importsVars
          => ImportsInv' /\ WholeInv'
  BY ImportsStep_Inv, WholeStep
<1> QED
  BY <1>1, <1>2, PTL DEF ImportsSpec

-----------------------------------------------------------------------------
\* What follows for a chat

LEMMA SomeImport ==
    ASSUME ImportsInv, WholeInv, NEW im \in Range(imports)
    PROVE  Whole(im, saved.dialog, saved.parties)
<1>1. imports \in Seq(Jobs)
  BY DEF ImportsInv, TypesOfJobs
<1>2. DOMAIN imports = 1 .. Len(imports)
  BY ONLY <1>1
<1>3. PICK i \in 1 .. Len(imports) : im = imports[i]
  BY ONLY <1>2, im \in Range(imports) DEF Range
<1> QED
  BY <1>3 DEF WholeInv

\* A message that was imported is one of a chat, and spoken by its sender.
LEMMA MessageIsSaid ==
    ASSUME ImportsInv, WholeInv, NEW m \in Messages
    PROVE  LET place == Place(m[1], m[2]) IN
           /\ place \in 1 .. Length(saved.dialog)
           /\ SpokenBy(saved.dialog[place], Chat(m[1])[m[2]].sender,
                       saved.parties)
<1> DEFINE im == m[1]
           k == m[2]
<1>1. im \in Range(imports) /\ k \in DOMAIN Chat(im)
  BY DEF Messages
<1> HIDE DEF im, k
<1>3. Whole(im, saved.dialog, saved.parties)
  BY <1>1, SomeImport
<1>4. Chats(im) /\ Chat(im) = im.source.chat
  <2>1. Chat(im) # <<>>
    <3>1. DOMAIN <<>> = {}
      OBVIOUS
    <3> QED
      BY <1>1, <3>1
  <2> QED
    BY <2>1 DEF Chat, Chats
<1>5. /\ im.source.chat \in Seq([sender : STRING, sent : Int])
      /\ Said(im.source.chat, im.chatAt, saved.dialog, saved.parties,
              Len(im.source.chat))
  BY <1>3, <1>4 DEF Whole
<1>6. k \in 1 .. Len(im.source.chat)
  BY <1>1, <1>4, <1>5
<1> QED
  BY <1>4, <1>5, <1>6 DEF Said, Place, im, k

\* Every chat that was imported is in the vCon as a whole: all its messages, in
\* their order, behind the recordings of the meeting, each with a party that has
\* the name of its sender.
THEOREM WholeChats == ImportsSpec => []ChatsAreWhole
<1>1. ImportsInv /\ WholeInv => ChatsAreWhole
  <2> SUFFICES ASSUME ImportsInv, WholeInv PROVE ChatsAreWhole
    OBVIOUS
  <2>1. /\ saved.parties \in Seq(Party)
        /\ saved.dialog \in Seq(Dialog) \cup {Absent}
    BY DEF WholeInv, ListsGrow
  <2>2. Length(saved.dialog) \in Nat
    BY <2>1, LengthFacts
  <2>3. ASSUME NEW m \in Messages
        PROVE  LET place == Place(m[1], m[2]) IN
               /\ place <= Length(saved.dialog)
               /\ saved.dialog[place].type = "text"
               /\ Occurs(Chat(m[1])[m[2]].sender,
                         saved.parties[saved.dialog[place].parties[1]].name)
    <3> DEFINE place == Place(m[1], m[2])
               sender == Chat(m[1])[m[2]].sender
               e == saved.dialog[place]
    <3>1. place \in 1 .. Length(saved.dialog)
          /\ SpokenBy(e, sender, saved.parties)
      BY MessageIsSaid
    <3> HIDE DEF place, sender, e
    <3>2. PICK p \in 1 .. Len(saved.parties) :
              e.parties = <<p>> /\ Occurs(sender, saved.parties[p].name)
      BY <3>1 DEF SpokenBy
    <3>3. e.type = "text" /\ e.parties[1] = p
      BY <3>1, <3>2 DEF SpokenBy
    <3>4. place <= Length(saved.dialog)
      BY <2>2, <3>1
    <3> QED
      BY <3>2, <3>3, <3>4 DEF place, sender, e
  <2>4. ASSUME NEW im \in Range(imports)
        PROVE  /\ Chat(im) # <<>> => im.chatAt = im.first + Recordings(im)
               /\ im.command = "in-zoom" =>
                   im.hasChat = (\E e \in im.source.entries : e.kind = "chat")
    <3>2. Whole(im, saved.dialog, saved.parties)
      BY SomeImport
    <3>3. Chat(im) # <<>> => Chats(im)
      BY DEF Chat, Chats
    <3> QED
      BY <3>2, <3>3 DEF Whole, HasChat
  <2> QED
    BY <2>3, <2>4 DEF ChatsAreWhole
<1> QED
  BY <1>1, WholeInvariance, PTL

\* Whoever writes under one name is one party, in all the chats that were
\* imported, and nobody is added under a name that is listed.
THEOREM SendersAreKnown == ImportsSpec => []OneSenderOneParty
<1>1. ImportsInv /\ WholeInv => OneSenderOneParty
  <2> SUFFICES ASSUME ImportsInv, WholeInv PROVE OneSenderOneParty
    OBVIOUS
  <2>1. /\ saved.parties \in Seq(Party) /\ parties \in Seq(Party)
        /\ NewNames(parties, saved.parties)
    BY DEF WholeInv, ListsGrow
  <2>2. ASSUME NEW m \in Messages, NEW n \in Messages,
               Chat(m[1])[m[2]].sender = Chat(n[1])[n[2]].sender
        PROVE  saved.dialog[Place(m[1], m[2])].parties =
                   saved.dialog[Place(n[1], n[2])].parties
    <3>1. /\ SpokenBy(saved.dialog[Place(m[1], m[2])],
                      Chat(m[1])[m[2]].sender, saved.parties)
          /\ SpokenBy(saved.dialog[Place(n[1], n[2])],
                      Chat(m[1])[m[2]].sender, saved.parties)
      BY <2>2, MessageIsSaid
    <3> QED
      BY <2>1, <3>1, SpokenOnce
  <2>3. ASSUME NEW i \in DOMAIN parties,
               NEW j \in DOMAIN parties \ DOMAIN saved.parties,
               parties[i].name = parties[j].name, parties[j].name # ""
        PROVE  i = j
    <3>1. /\ i \in 1 .. Len(parties) /\ j \in 1 .. Len(parties)
          /\ j \notin 1 .. Len(saved.parties)
      BY <2>1
    <3>2. j > Len(saved.parties)
      BY <2>1, <3>1
    <3> QED
      BY <2>1, <2>3, <3>1, <3>2 DEF NewNames
  <2> QED
    BY <2>2, <2>3 DEF OneSenderOneParty
<1> QED
  BY <1>1, WholeInvariance, PTL
=============================================================================
