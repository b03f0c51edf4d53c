-------------------------------- MODULE Lab --------------------------------
(***************************************************************************)
(* The research side of the repository: a study runs one backtest engine,   *)
(* one signal detector or one replay over one tape of bars.                 *)
(***************************************************************************)
EXTENDS Backtests, InverseFvg, LiquiditySweep, KillzoneOte, BreakerRetest, NewsFade, AsiaRange,
        SigmaReversion, KronosBook, SweepReplays, StackTuning, MarketGates,
        CryptoSignals, TickBars, TrendBreakout

\* The signal detectors of xauusd_strategies, one per study.
InitDetectors ==
    InitInverse \/ InitSweep \/ InitOte \/ InitBreaker \/ InitNews \/ InitAsia \/ InitSigma

NextDetectors == InverseStep \/ Sweep \/ Ote \/ BreakerStep \/ News \/ Asia \/ Sigma

DetectorStudies == {"inverse", "sweep", "ote", "breaker", "news", "asia", "sigma"}

InitLab ==
    \/ InitEngines \/ InitDetectors \/ InitBook \/ InitReplays \/ InitTuned
    \/ InitEvents \/ InitMacro \/ InitCoin \/ InitReports \/ InitData \/ InitBreakout

NextLab ==
    \/ NextEngine \/ NextDetectors \/ Book \/ NextReplay \/ Tuned
    \/ NextEvents \/ NextMacro \/ Generate \/ Report \/ Load \/ Breakout

SpecLab == InitLab /\ [][NextLab]_vars

-----------------------------------------------------------------------------
\* What has been found is what the tape holds, each setup once.
FoundAre(setups) == Range(out) = setups /\ Len(out) = Cardinality(setups)

\* The zones, levels, blocks, ranges and averages that the detectors carry from
\* bar to bar amount to what the whole tape says: every setup that it holds is
\* found on its bar, once, and nothing else is.
DetectorsFind ==
    /\ study = "inverse" => FoundAre(InverseSetups)
    /\ study = "sweep" => FoundAre(SweepSetups)
    /\ study = "breaker" => BreakersFire
    /\ study = "news" => FoundAre(NewsSetups)
    /\ study = "asia" => AsiaFires
    /\ study = "sigma" => FoundAre(SigmaSetups)

\* What a detector finds on the last bar but one.
Finds(bars) ==
    CASE study = "inverse" -> InverseFinds(bars)
      [] study = "sweep" -> SweepFinds(bars)
      [] study = "ote" -> OteFinds(bars)
      [] study = "breaker" -> BreakerBar(bars).finds
      [] study = "news" -> NewsFinds(bars)
      [] study = "asia" -> AsiaAfter(bars).trade
      [] study = "sigma" -> SigmaFinds(bars)
      [] OTHER -> <<>>

\* Nothing but the open of the entry bar is used of it, which the entry is
\* priced at: with any other bar that opens there the signals are the same.
\* s90_inverse_fvg.py and s90_liqsweep_fvg.py promise it too, and look into the
\* bar of the higher time frame that is still forming.
Peeking == {"inverse", "sweep"}
DetectorIsBlind ==
    (study \in DetectorStudies \ Peeking) =>
        \A other \in Shapes[study] : other.o = Last(tape').o =>
            Finds(Append(tape, other)) = SubSeq(out', Len(out) + 1, Len(out'))

\* A detector's signal against the open of its entry bar.
Unit(signal) == IF study = "sigma" THEN signal.of.unit ELSE 1
DetectorsAreFair == study \in DetectorStudies => \A i \in DOMAIN out :
    LET s == out[i]
        open == s.side * Unit(s) * tape[s.entry].o
    IN  s.side * s.sl < open /\ open < s.side * s.tp

\* A signal stands for something that happened on the tape, and for one thing
\* only: the detectors carry what they have seen from bar to bar, and the
\* generators for Bitcoin ask for a level to be crossed, and the port of the
\* challenge's breakouts finds the same ones.
SetupsHappened == DetectorsFind /\ CrossesOnce /\ PortAgrees

\* No signal of a detector, a generator for Bitcoin or a breakout study depends on a
\* bar that is not over when it is acted on, but for those that do look ahead: the
\* two filters by a forming bar (s90_inverse_fvg.py:164, s90_liqsweep_fvg.py:115) and
\* the weekly gates.  The replays are not compared.
NoPeeking == [][DetectorIsBlind /\ FrameIsCausal /\ BreakoutIsCausal]_vars

\* The simulator stops with an error on a signal whose stop or target is on the
\* wrong side of the open it enters at: no detector finds one, and no replay but
\* VAR2 takes one.
SignalsAreFair == DetectorsAreFair /\ FairReplays /\ CoinIsFair /\ BreakoutIsFair

\* A search over a finished tape answers with the best it tried, by the rules it
\* states, judged on what was known when each decision was taken; what is reported
\* about trades is true of them; and what is held out stays held out.
SelectionIsHonest == TunedIsCausal /\ TunedIsBest /\ ReportsAreTrue /\ HeldOut /\ DataIsSplit

\* The filters that keep strategies out of the market: near a major event, and on
\* days whose yields are quiet.
GatesHold == EventGateHolds /\ MacroGateHolds

=============================================================================
