------------------------------ MODULE ChatTime ------------------------------
(***************************************************************************)
(* When the messages of a Zoom chat were sent (vcon/cli.py,                *)
(* zoom_chat_to_utc).  The file gives the time of day at the meeting; the  *)
(* date and the time zone are guessed from the recording and from the      *)
(* machine that imports it.                                                *)
(*                                                                         *)
(* Times are minutes, of UTC if nothing else is said; a zone is the        *)
(* minutes its clocks are ahead of UTC.                                    *)
(***************************************************************************)
EXTENDS Integers, Sequences

Hour == 60
Day == 24 * Hour

Date(t) == t \div Day
TimeOfDay(t) == t % Day
HourOf(t) == TimeOfDay(t) \div Hour

\* time.altzone counts to the west.
FaultyOnDate(date, timeOfDay, zone) == date * Day + timeOfDay + zone

\* The time at which clocks in the zone show this date and time of day.
OnDate(date, timeOfDay, zone) == date * Day + timeOfDay - zone

\* date_tolerance
Tolerance == 15

\* Within the recording, or at most the tolerance after its start: any time
\* before the start will do.
Accepted(dt, start, end) ==
    (start <= dt /\ dt <= end) \/ dt - start < Tolerance

ReplaceHour(t, hour) == t + (hour - HourOf(t)) * Hour

OtherHour(dt, start, end) ==
    IF HourOf(start) # HourOf(dt) THEN ReplaceHour(dt, HourOf(start))
    ELSE IF HourOf(end) # HourOf(dt) THEN ReplaceHour(dt, HourOf(end))
    ELSE dt

\* The date at which the recording ends is taken in UTC as well.
FaultyGuesses(timeOfDay, start, end, zone) ==
    LET first == OnDate(Date(start), timeOfDay, zone)
    IN  <<first, OtherHour(first, start, end),
          OnDate(Date(end), timeOfDay, zone)>>

\* The guesses in the order they are tried: the date at which the recording
\* starts in UTC; the same with the hour of its start or its end; the date at
\* which it ends in the zone.
Guesses(timeOfDay, start, end, zone) ==
    LET first == OnDate(Date(start), timeOfDay, zone)
    IN  <<first, OtherHour(first, start, end),
          OnDate(Date(end + zone), timeOfDay, zone)>>

\* The first guess that is accepted.  If none is, this is the last one, and
\* the function raises.
ZoomChatToUtc(timeOfDay, start, end, zone) ==
    LET guesses == Guesses(timeOfDay, start, end, zone)
    IN  IF Accepted(guesses[1], start, end) THEN guesses[1]
        ELSE IF Accepted(guesses[2], start, end) THEN guesses[2]
        ELSE guesses[3]

Raises(timeOfDay, start, end, zone) ==
    ~Accepted(ZoomChatToUtc(timeOfDay, start, end, zone), start, end)

-----------------------------------------------------------------------------

\* What is known of the time at which a message is taken to be sent, if it was
\* sent while the meeting was recorded: the local date is that of the sender's
\* clock, ahead how far the clock of the machine is ahead of that.
TimeIsKnown(at, sent, start, meetingZone, zone) ==
    LET localDate == Date(sent + meetingZone)
        ahead == zone - meetingZone
    IN  /\ ahead >= 0 /\ Date(start) <= localDate =>
               at = sent - ahead - (localDate - Date(start)) * Day
        /\ ahead = 0 /\ Date(start) > localDate => at = sent

\* Sent before a midnight in the zone, which the recording goes over later than
\* a midnight in UTC.
OverMidnight(sent, start, end, zone) ==
    /\ Date(sent + zone) < Date(start)
    /\ Date(sent + zone) < Date(end + zone)
=============================================================================
