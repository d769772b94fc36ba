-------------------------- MODULE DiagnosisProofs ---------------------------
(***************************************************************************)
(* Proofs about Diagnosis, for any devices, capacity, reserve and use of   *)
(* water, and any numbers of captures, nights and uses.                    *)
(***************************************************************************)
EXTENDS Diagnosis, TLAPS

\* The meter is right: unless a write landed on it, the remaining capacity is what the
\* controller counts from, less the reserve and what was drawn since.
Metered(d) == d.source = "meter" => d.remaining = d.counts - Reserve - d.since

MeteredDevice == {d \in Device : Metered(d)}

DevicesMetered ==
  /\ account \in Accounts
  /\ device \in [Serials -> MeteredDevice]

\* The datapoints of a device in state d, or some of them.
Telemetry(d) == {[f \in body |-> d[f]] : body \in SUBSET Fields}

\* What a capture has is what its device reported at that moment.
CaptureOK(f) ==
  /\ f.serial \in Serials
  /\ f.device \in MeteredDevice
  /\ f.values \in Telemetry(f.device)

CapturesTrue ==
  /\ \A f \in files : CaptureOK(f)
  /\ before = NoFile \/ CaptureOK(before)

\* The second side of a report was read from a device.
ReportOK(r) ==
  /\ r.device \in MeteredDevice
  /\ \E new \in Telemetry(r.device) : r.says = Deciding(new)

ReportsTrue == diff = NoFile \/ ReportOK(diff)

\* A verdict follows from what was read from a device.
ProbeOK(v) ==
  /\ v.device \in MeteredDevice
  /\ \E dp \in Telemetry(v.device) : v.model = Verdict(dp).model

VerdictsTrue == probe = NoProbe \/ ProbeOK(probe)

IInv == DevicesMetered /\ CapturesTrue /\ ReportsTrue /\ VerdictsTrue

-----------------------------------------------------------------------------
(***************************************************************************)
(* The devices.                                                            *)
(***************************************************************************)

\* The capacity is any natural number.
LEMMA BoundsAreNaturals == {Capacity, Reserve, MaxEvents} \subseteq Nat /\ Draws \subseteq Nat
  BY SoftenerAssumption

\* Whatever happens to a device, its meter stays right.
LEMMA DeviceSteps ==
  ASSUME DevicesMetered, SoftenerStep
  PROVE  DevicesMetered'
<1>1. PICK s \in Serials : (\E water \in Draws : Use(s, water)) \/ Midnight(s) \/ Regenerate(s)
                             \/ Write(s)
  BY DEF SoftenerStep
<1> DEFINE d == device[s]
<1>2. d \in Device /\ Metered(d)
  BY DEF DevicesMetered, MeteredDevice
<1>3. ASSUME NEW new \in MeteredDevice, device' = [device EXCEPT ![s] = new], UNCHANGED account
      PROVE  DevicesMetered'
  BY <1>3 DEF DevicesMetered
<1>4. CASE \E water \in Draws : Use(s, water)
  BY <1>2, <1>3, <1>4, BoundsAreNaturals DEF Use, Event, Device, Metered, MeteredDevice
<1>5. CASE Midnight(s)
  BY <1>2, <1>3, <1>5, BoundsAreNaturals DEF Midnight, Event, Device, Metered, MeteredDevice
<1>6. CASE Regenerate(s)
  BY <1>2, <1>3, <1>6, BoundsAreNaturals DEF Regenerate, Event, Device, Metered, MeteredDevice
<1>7. CASE Write(s)
  BY <1>2, <1>3, <1>7, BoundsAreNaturals DEF Write, Event, Device, Metered, MeteredDevice
<1>8. QED
  BY <1>1, <1>4, <1>5, <1>6, <1>7

-----------------------------------------------------------------------------
(***************************************************************************)
(* The invariant is inductive.                                             *)
(***************************************************************************)

LEMMA Initially == ASSUME Init PROVE IInv
<1>1. \A c \in {0, Capacity} :
        [capacity |-> c, counts |-> c, since |-> 0, working |-> c, reserve |-> Reserve,
         remaining |-> c - Reserve, used |-> 0, stray |-> 0, source |-> "meter",
         events |-> 0] \in MeteredDevice
  BY BoundsAreNaturals DEF MeteredDevice, Metered, Device
<1>2. DevicesMetered
  BY <1>1 DEF Init, SoftenerInit, DevicesMetered
<1>3. CapturesTrue /\ ReportsTrue /\ VerdictsTrue
  BY DEF Init, DiffInit, ProbeInit, CapturesTrue, ReportsTrue, VerdictsTrue
<1>4. QED
  BY <1>2, <1>3 DEF IInv

\* The first device of an account is one of the devices.
LEMMA HeadIsDevice ==
  ASSUME DevicesMetered, account # <<>>
  PROVE  Head(account) \in Serials /\ device[Head(account)] \in MeteredDevice
<1>1. account \in Seq(Serials)
  BY SoftenerAssumption DEF DevicesMetered
<1>2. QED
  BY <1>1 DEF DevicesMetered

\* What is read from a device is telemetry of it.
LEMMA ReadIsTelemetry ==
  ASSUME NEW s \in Serials, NEW body \in Bodies
  PROVE  Datapoints(s, body) \in Telemetry(device[s])
  BY SoftenerAssumption DEF Telemetry, Datapoints

\* report() keeps what the invariant says of reports.
LEMMA Reports ==
  ASSUME IInv, NEW s, NEW d \in MeteredDevice, NEW new \in Telemetry(d),
         NEW live \in BOOLEAN, Report(new, s, d, live)
  PROVE  CapturesTrue' /\ ReportsTrue'
<1>1. ReportOK(diff')
  BY DEF Report, ReportOK
<1>2. CapturesTrue'
  BY DEF IInv, CapturesTrue, Report
<1>3. QED
  BY <1>1, <1>2 DEF ReportsTrue

\* A step of diff_capture.py, or of set_capacity.py, which saves a capture.
LEMMA DiffSteps ==
  ASSUME IInv, DiffStep
  PROVE  CapturesTrue' /\ ReportsTrue'
<1>1. ASSUME NEW s \in Serials, NEW body \in Bodies, SaveBefore(s, body)
      PROVE  CapturesTrue' /\ ReportsTrue'
  <2> DEFINE f == [serial |-> s, values |-> Datapoints(s, body), device |-> device[s]]
  <2>1. CaptureOK(f)
    BY ReadIsTelemetry DEF CaptureOK, IInv, DevicesMetered
  <2>2. files' = files \cup {f} /\ UNCHANGED <<before, diff>>
    BY <1>1 DEF SaveBefore
  <2>3. QED
    BY <2>1, <2>2 DEF IInv, CapturesTrue, ReportsTrue
<1>2. ASSUME NEW f \in files, Load(f)
      PROVE  CapturesTrue' /\ ReportsTrue'
  BY <1>2 DEF Load, IInv, CapturesTrue, ReportsTrue
<1>3. ASSUME NEW f \in files, CompareFiles(f)
      PROVE  CapturesTrue' /\ ReportsTrue'
  <2>1. f.device \in MeteredDevice /\ f.values \in Telemetry(f.device)
    BY DEF IInv, CapturesTrue, CaptureOK
  <2>2. QED
    BY <1>3, <2>1, Reports DEF CompareFiles
<1>4. ASSUME NEW body \in Bodies, CompareLive(body)
      PROVE  CapturesTrue' /\ ReportsTrue'
  <2>1. Head(account) \in Serials /\ device[Head(account)] \in MeteredDevice
    BY <1>4, HeadIsDevice DEF IInv, CompareLive
  <2>2. QED
    BY <1>4, <2>1, ReadIsTelemetry, Reports DEF CompareLive
<1>5. CASE CompareFails
  BY <1>5 DEF CompareFails, IInv, CapturesTrue, ReportsTrue
<1>6. QED
  BY <1>1, <1>2, <1>3, <1>4, <1>5 DEF DiffStep

\* A step of capacity_probe.py.
LEMMA ProbeSteps ==
  ASSUME IInv, ProbeStep
  PROVE  VerdictsTrue'
<1>1. PICK body \in Bodies : Probe(body)
  BY DEF ProbeStep
<1> DEFINE s == Head(account)
           dp == Datapoints(s, body)
<1>2. s \in Serials /\ device[s] \in MeteredDevice
  BY <1>1, HeadIsDevice DEF Probe, IInv
<1>3. dp \in Telemetry(device[s])
  BY <1>2, ReadIsTelemetry
<1>4. probe'.device = device[s] /\ probe'.model = Verdict(dp).model
  BY <1>1 DEF Probe
<1>5. QED
  BY <1>2, <1>3, <1>4 DEF VerdictsTrue, ProbeOK

LEMMA Inductive == ASSUME IInv, [Next]_vars PROVE IInv'
<1>1. CASE SoftenerStep /\ UNCHANGED <<diffVars, probe>>
  BY <1>1, DeviceSteps DEF IInv, CapturesTrue, ReportsTrue, VerdictsTrue, diffVars
<1>2. CASE DiffStep /\ probe' = NoProbe
  <2>1. UNCHANGED softenerVars
    BY <1>2 DEF DiffStep, SaveBefore, Load, CompareFiles, CompareLive, CompareFails, Report
  <2>2. QED
    BY <1>2, <2>1, DiffSteps DEF IInv, DevicesMetered, VerdictsTrue, softenerVars
<1>3. CASE ProbeStep /\ diff' = NoFile /\ UNCHANGED <<files, before>>
  <2>1. UNCHANGED softenerVars
    BY <1>3 DEF ProbeStep, Probe
  <2>2. QED
    BY <1>3, <2>1, ProbeSteps DEF IInv, DevicesMetered, CapturesTrue, ReportsTrue, softenerVars
<1>4. CASE UNCHANGED vars
  BY <1>4 DEF vars, softenerVars, diffVars, IInv, DevicesMetered, CapturesTrue, ReportsTrue,
              VerdictsTrue
<1>5. QED
  BY <1>1, <1>2, <1>3, <1>4 DEF Next

LEMMA Invariant == Spec => []IInv
<1>1. Init => IInv
  BY Initially
<1>2. IInv /\ [Next]_vars => IInv'
  BY Inductive
<1>3. QED
  BY <1>1, <1>2, PTL DEF Spec

-----------------------------------------------------------------------------
(***************************************************************************)
(* The conclusions.                                                        *)
(***************************************************************************)

\* A datapoint that is there is that of the device.
LEMMA Reported ==
  ASSUME NEW d, NEW dp \in Telemetry(d), NEW f \in DOMAIN dp
  PROVE  dp[f] = d[f]
  BY DEF Telemetry

\* "The number that decides it" of diff_capture.py: a positive number is a controller that
\* counts from more than the reserve, and a negative one is a controller that counts from
\* zero unless the usable capacity was drawn, as long as no write landed on the number itself.
THEOREM DecidedByNumber == Spec => []NumberDecides
<1>1. ASSUME IInv
      PROVE  NumberDecides
  <2> DEFINE d == diff.device
  <2>1. SUFFICES ASSUME diff # NoFile, d.source = "meter"
                 PROVE  /\ diff.says = "POSITIVE" => d.counts > Reserve
                        /\ diff.says = "Still negative" /\ d.since < Capacity - Reserve =>
                             d.counts = 0
    BY DEF NumberDecides
  <2>2. ReportOK(diff)
    BY <1>1, <2>1 DEF IInv, ReportsTrue
  <2>3. PICK new \in Telemetry(d) : diff.says = Deciding(new)
    BY <2>2 DEF ReportOK
  <2>4. CASE "remaining" \notin DOMAIN new
    BY <2>3, <2>4 DEF Deciding
  <2>5. CASE "remaining" \in DOMAIN new
    <3>1. diff.says = IF d.remaining > 0 THEN "POSITIVE" ELSE "Still negative"
      BY <2>3, <2>5, Reported DEF Deciding
    <3>2. /\ d.remaining = d.counts - Reserve - d.since
          /\ d.counts \in {0, Capacity}
          /\ d.since \in Nat
      BY <2>1, <2>2 DEF ReportOK, MeteredDevice, Metered, Device
    <3>3. d.remaining > 0 => d.counts > Reserve
      BY <3>2, BoundsAreNaturals
    <3>4. ~ (d.remaining > 0) /\ d.since < Capacity - Reserve => d.counts = 0
      BY <3>2, BoundsAreNaturals
    <3>5. QED
      BY <3>1, <3>3, <3>4
  <2>6. QED
    BY <2>4, <2>5
<1>2. QED
  BY <1>1, Invariant, PTL

\* The model check of capacity_probe.py: when it is confirmed, the controller counts from
\* zero unless about as much as the capacity was drawn or a write landed on the remaining
\* capacity, whatever the age of the datapoints and whichever are missing.
THEOREM ConfirmedMeasured == Spec => []ConfirmedIsMeasured
<1>1. ASSUME IInv
      PROVE  ConfirmedIsMeasured
  <2> DEFINE d == probe.device
  <2>1. SUFFICES ASSUME probe # NoProbe, probe.model = "confirmed", d.source = "meter",
                        d.since < Capacity - 5
                 PROVE  d.counts = 0
    BY DEF ConfirmedIsMeasured
  <2>2. ProbeOK(probe)
    BY <1>1, <2>1 DEF IInv, VerdictsTrue
  <2>3. PICK dp \in Telemetry(d) : Verdict(dp).model = "confirmed"
    BY <2>1, <2>2 DEF ProbeOK
  <2>4. "working" \in DOMAIN dp /\ ~ (dp["working"] > 0) /\ ModelCheck(dp) = "confirmed"
    BY <2>3 DEF Verdict
  <2>5. Checked(dp) /\ Distance(Drift(dp), 0) <= 5
    BY <2>4 DEF ModelCheck
  <2>6. /\ dp["working"] = d.working /\ dp["reserve"] = d.reserve
        /\ dp["used"] = d.used /\ dp["remaining"] = d.remaining
    BY <2>4, <2>5, Reported DEF Checked
  <2>7. /\ d.remaining = d.counts - Reserve - d.since
        /\ d.counts \in {0, Capacity}
        /\ d.working \in {0, Capacity}
        /\ d.since \in Nat
        /\ d.used \in Nat
        /\ d.reserve = Reserve
    BY <2>1, <2>2 DEF ProbeOK, MeteredDevice, Metered, Device
  <2>8. d.working = 0
    BY <2>4, <2>6, <2>7, BoundsAreNaturals
  <2>9. Drift(dp) = d.since - d.used - d.counts
    BY <2>6, <2>7, <2>8, BoundsAreNaturals DEF Drift
  <2>10. QED
    BY <2>1, <2>5, <2>7, <2>9, BoundsAreNaturals DEF Distance
<1>2. QED
  BY <1>1, Invariant, PTL
=============================================================================
