---------------------------- MODULE TrailManager ----------------------------
(***************************************************************************)
(* The stop of one open position (services/trail_manager.py): update_trail *)
(* is called once per bar, moves the stop through the modes initial,       *)
(* break_even and trailing, and reports an exit when the bar pierces it.   *)
(* Prices are integers (ticks); a threshold record is what the strategy    *)
(* puts into meta on that bar.                                             *)
(***************************************************************************)
EXTENDS Integers

CONSTANTS
    Prices,        \* the prices bars and entries take
    StopPts,       \* distances of an initial stop from the entry
    Thresholds     \* threshold records the strategy computes

(* The ATR multipliers of confluence_long: the trail distance (0.5) is no  *)
(* larger than the trigger (1.5), and rounding is monotone.                *)
ASSUME TrailAssumption ==
    /\ Prices \subseteq Int
    /\ StopPts \subseteq Nat \ {0}
    /\ Thresholds \subseteq [break_even: Nat, trigger: Nat, distance: Nat]
    /\ \A m \in Thresholds : m.distance <= m.trigger

VARIABLES
    trail,    \* the TrailState of the position
    exit      \* the TrailExit of the last bar, or NoExit

vars == <<trail, exit>>

-----------------------------------------------------------------------------
TrailMode == {"initial", "break_even", "trailing", "stopped"}
TrailState == [side: {"long", "short"}, entry: Int, high: Int, low: Int,
               stop: Int, mode: TrailMode]

NoExit == [reason |-> "none", price |-> 0]

TypeOK ==
    /\ trail \in TrailState
    /\ exit \in [reason: {"none", "stop", "break_even", "trail"}, price: Int]

(* A fresh state, seeded by the runner at entry or at adoption.            *)
Seed(side, entry, pts) ==
    [side |-> side, entry |-> entry, high |-> entry, low |-> entry,
     stop |-> IF side = "long" THEN entry - pts ELSE entry + pts,
     mode |-> "initial"]

(* Stop price p is at least as tight as q for the state's side.            *)
AtLeastAsTight(s, p, q) == IF s.side = "long" THEN p >= q ELSE p <= q

(* The state with the bar's extremes taken into the watermarks.            *)
Watermarked(s, high, low) ==
    [s EXCEPT !.high = IF high > @ THEN high ELSE @,
              !.low  = IF low < @ THEN low ELSE @]

Pierced(s, high, low) ==
    IF s.side = "long" THEN low < s.stop ELSE high > s.stop

(* How far the price has run in the position's favour.                     *)
Excursion(s) == IF s.side = "long" THEN s.high - s.entry ELSE s.entry - s.low

(* The stop that trails the favourable watermark at a distance.            *)
Trailed(s, distance) ==
    IF s.side = "long" THEN s.high - distance ELSE s.low + distance

(* Mutant of Tightened: the candidate is taken even when it is looser.     *)
TightenedAlways(s, distance) == [s EXCEPT !.stop = Trailed(s, distance)]

(* Trailing: take the candidate if it is tighter.                          *)
Tightened(s, distance) ==
    [s EXCEPT !.stop = IF AtLeastAsTight(s, Trailed(s, distance), @)
                       THEN Trailed(s, distance) ELSE @]

(* Mutants of Moved: break-even forgets to move the stop; and the bar's    *)
(* excursion is compared with the wrong threshold on the way to trailing.  *)
MovedNoBreakEven(s, m) ==
    IF s.mode = "initial" /\ Excursion(s) >= m.break_even
    THEN [s EXCEPT !.mode = "break_even"]
    ELSE IF s.mode = "break_even" /\ Excursion(s) >= m.trigger
    THEN [s EXCEPT !.mode = "trailing", !.stop = Trailed(s, m.distance)]
    ELSE IF s.mode = "trailing" THEN Tightened(s, m.distance)
    ELSE s
MovedWrongTrigger(s, m) ==
    IF s.mode = "initial" /\ Excursion(s) >= m.break_even
    THEN [s EXCEPT !.mode = "break_even", !.stop = s.entry]
    ELSE IF s.mode = "break_even" /\ Excursion(s) >= m.break_even
    THEN [s EXCEPT !.mode = "trailing", !.stop = Trailed(s, m.distance)]
    ELSE IF s.mode = "trailing" THEN Tightened(s, m.distance)
    ELSE s

(* One promotion per bar at most; s has the new watermarks.                *)
Moved(s, m) ==
    IF s.mode = "initial" /\ Excursion(s) >= m.break_even
    THEN [s EXCEPT !.mode = "break_even", !.stop = s.entry]
    ELSE IF s.mode = "break_even" /\ Excursion(s) >= m.trigger
    THEN [s EXCEPT !.mode = "trailing", !.stop = Trailed(s, m.distance)]
    ELSE IF s.mode = "trailing" THEN Tightened(s, m.distance)
    ELSE s

(* Mutant of ExitReason: the mode is passed through.                       *)
ExitReasonRaw(mode) == mode

(* _exit_reason_for                                                        *)
ExitReason(mode) ==
    CASE mode = "trailing"   -> "trail"
      [] mode = "break_even" -> "break_even"
      [] OTHER               -> "stop"

Init ==
    /\ trail \in {Seed(side, entry, pts) :
                    side \in {"long", "short"}, entry \in Prices, pts \in StopPts}
    /\ exit = NoExit

(* A state that is already stopped stays as it is.                         *)
StayStopped(high, low) ==
    /\ trail.mode = "stopped"
    /\ exit' = NoExit
    /\ UNCHANGED trail

(* The bar pierces the stop: exit at the stop price.                       *)
HitStop(high, low) ==
    /\ trail.mode # "stopped"
    /\ Pierced(trail, high, low)
    /\ trail' = [Watermarked(trail, high, low) EXCEPT !.mode = "stopped"]
    /\ exit' = [reason |-> ExitReason(trail.mode), price |-> trail.stop]

(* It does not, and meta has no thresholds: only the watermarks move.      *)
CarryPlain(high, low) ==
    /\ trail.mode # "stopped"
    /\ ~Pierced(trail, high, low)
    /\ trail' = Watermarked(trail, high, low)
    /\ exit' = NoExit

CarryMoved(high, low, m) ==
    /\ trail.mode # "stopped"
    /\ ~Pierced(trail, high, low)
    /\ trail' = Moved(Watermarked(trail, high, low), m)
    /\ exit' = NoExit

UpdateTrail(high, low) ==
    \/ StayStopped(high, low)
    \/ HitStop(high, low)
    \/ CarryPlain(high, low)
    \/ \E m \in Thresholds : CarryMoved(high, low, m)

Next == \E high, low \in Prices : low <= high /\ UpdateTrail(high, low)

Spec == Init /\ [][Next]_vars

-----------------------------------------------------------------------------
(* The stop of an open position only ever tightens, through every          *)
(* promotion and although the thresholds change from bar to bar            *)
(* (test_long_trailing_stop_only_tightens_never_loosens, for all modes and *)
(* both sides).                                                            *)
StopNeverLoosens == [][AtLeastAsTight(trail, trail'.stop, trail.stop)]_vars

(* Once the position was promoted it cannot be closed by its stop at a     *)
(* price worse than its entry.                                             *)
PromotedLocksEntry ==
    trail.mode \in {"break_even", "trailing"} =>
        AtLeastAsTight(trail, trail.stop, trail.entry)

(* The reason reported with an exit agrees with the price: an exit that is *)
(* not "stop" is at the entry price or better, and "break_even" is exactly *)
(* the entry price.                                                        *)
ExitReasonHonest ==
    /\ exit.reason = "break_even" => exit.price = trail.entry
    /\ exit.reason = "trail" => AtLeastAsTight(trail, exit.price, trail.entry)

(* All of it, with the types: what a bar leaves behind in every mode.      *)
TrailInv == TypeOK /\ PromotedLocksEntry /\ ExitReasonHonest

=============================================================================
