----------------------------- MODULE StopInput -----------------------------
(***************************************************************************)
(* How the two contacts of a stop button become a reading, on the panel    *)
(* Pis (cmd/estop-panel) and for the field e-stop of the controller        *)
(* (hardware/gpio_estop.go): decoding, and the filter that waits before it *)
(* calls a disagreement a wiring fault (hardware/interfaces.go).           *)
(***************************************************************************)
EXTENDS Integers

CONSTANT Window   \* DefaultDiscrepancyWindow, in ticks of the clock

ASSUME WindowAssumption == Window \in Nat

Readings == {"ok", "active", "fault"}
(* Levels of the NC and the NO pin, 0 for a closed contact, or lines that   *)
(* cannot be read.                                                          *)
Unreadable == <<>>
Pins == ({0, 1} \X {0, 1}) \cup {Unreadable}
Released == <<0, 1>>

DecodeChannels(pins) ==
  CASE pins = <<0, 1>> -> "ok"
    [] pins = <<1, 0>> -> "active"
    [] OTHER -> "fault"

(* DiscrepancyFilter.since as the time passed since then, -1 while it is    *)
(* zero; times past the window are all alike.                               *)
Since == -1 .. Window
Restarted == -1

(* read: a line that cannot be read is a fault at once and leaves the       *)
(* filter alone; a disagreement is a press until the window is over.        *)
SinceAfter(pins, since) ==
  IF pins = Unreadable THEN since
  ELSE IF DecodeChannels(pins) # "fault" THEN Restarted
  ELSE IF since = Restarted THEN 0 ELSE since
ReadingOf(pins, since) ==
  IF pins = Unreadable THEN "fault"
  ELSE IF DecodeChannels(pins) = "fault" /\ SinceAfter(pins, since) < Window THEN "active"
  ELSE DecodeChannels(pins)

Later(since) == IF since \in {Restarted, Window} THEN since ELSE since + 1
=============================================================================
