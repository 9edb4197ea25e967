------------------------- MODULE BleCentralProofs --------------------------
(***************************************************************************)
(* CentralInv is an inductive invariant of BleCentral, for every set of    *)
(* peers, every number of connections and attempts and every bound.  One   *)
(* lemma per conjunct, with one step per handler; each lemma uses only the *)
(* conjuncts that its own depends on.                                      *)
(***************************************************************************)
EXTENDS BleCentral, TLAPS

\* None is told apart from every slot number.
LEMMA NoneIsNoSlot == None \notin Slot
  BY NoneAssumption, ConnAssumption DEF Slot

\* The end of a settle window, early or not, takes the slot out of settling and unsure.
LEMMA Reported ==
  ASSUME CentralInv, NEW s \in Slot, SettleReport(s)
  PROVE  /\ settling' = IF s = settling THEN None ELSE settling
         /\ unsure' = IF s = settling THEN unsure \ {s} ELSE unsure
<1>1. CASE s = settling
  BY <1>1 DEF SettleReport, ReportConnected
<1>2. CASE s # settling
  BY <1>2 DEF SettleReport
<1>3. QED
  BY <1>1, <1>2

\* The same for the settle timer, whatever it finds.
LEMMA Settled ==
  ASSUME CentralInv, Settle
  PROVE  settling' = None /\ unsure' = unsure \ {settling}
<1>1. CASE settling = None
  <2>1. None \notin unsure
    BY NoneIsNoSlot DEF CentralInv, TypeOK, TableOK
  <2>2. QED
    BY <1>1, <2>1 DEF Settle
<1>2. CASE settling # None
  <2>1. settling \in Slot /\ SettleReport(settling)
    BY <1>2 DEF CentralInv, TypeOK, DataOK, Settle
  <2>2. QED
    BY <2>1, Reported
<1>3. QED
  BY <1>1, <1>2

\* What it and Rearm do to the flags.
LEMMA ReportedFlags ==
  ASSUME NEW s, SettleReport(s)
  PROVE  /\ pending' = pending \/ pending' = FALSE
         /\ settleTimer' = settleTimer \/ settleTimer' = FALSE
         /\ asked' = asked
<1>1. CASE s = settling
  BY <1>1 DEF SettleReport, EndCycle
<1>2. CASE s # settling
  BY <1>2 DEF SettleReport, cycle
<1>3. QED
  BY <1>1, <1>2

LEMMA RearmFlags ==
  ASSUME autoWork \in BOOLEAN, enabled \in BOOLEAN, Rearm
  PROVE  autoWork' \in BOOLEAN /\ stalled' = FALSE
  BY DEF Rearm

\* The flags and timers are BOOLEAN after every step.
LEMMA FlagsStep == CentralInv /\ [Next]_vars => FlagsOK'
<1> SUFFICES ASSUME CentralInv, [Next]_vars PROVE FlagsOK'
  OBVIOUS
<1> USE DEF CentralInv, TypeOK, FlagsOK, scan, conn, auto, table, host,
    view, bound, cycle
<1>1. CASE CmdScanStart
  BY <1>1 DEF CmdScanStart, Cmd, StopAuto, ScanGranted, ScanRefused,
      ScanLeft, Fault
<1>2. CASE CmdScanStop
  BY <1>2 DEF CmdScanStop, Cmd, Rearm
<1>3. CASE ScanTimeout
  BY <1>3 DEF ScanTimeout, Rearm
<1>4. CASE AutoWork
  BY <1>4 DEF AutoWork, Busy, Wanted, HasConn, ScanGranted, ScanRefused,
      Fault
<1>5. ASSUME NEW p \in Peer, IgnoreAdvert(p) PROVE FlagsOK'
  BY <1>5 DEF IgnoreAdvert, Report
<1>6. ASSUME NEW p \in Peer, Advert(p) PROVE FlagsOK'
  BY <1>6 DEF Advert, Report, Acceptable, Granted, Refused, MayCreate,
      Fault, Rearm
<1>7. ASSUME NEW p \in Peer, CmdConnect(p) PROVE FlagsOK'
  BY <1>7 DEF CmdConnect, NewCycle, Cmd, StopAuto, ScanLeft, CancelCycle, Granted,
      Refused, MayCreate, Fault
<1>8. CASE CreateFails
  <2>1. /\ UNCHANGED <<scanning, scanTimer, settleTimer, retryTimer, enabled, autoScan,
                       scanOn>>
        /\ Rearm
    BY <1>8 DEF CreateFails
  <2>2. /\ autoConn' = autoConn \/ autoConn' = FALSE
        /\ pending' = pending \/ pending' = FALSE
        /\ asked' = asked
    BY <1>8 DEF CreateFails, EndCycle
  <2>3. QED
    BY <2>1, <2>2, RearmFlags
<1>9. CASE CreateSucceeds
  <2>1. UNCHANGED <<scanning, scanTimer, pending, retryTimer, enabled, autoScan, scanOn,
                    asked>>
    BY <1>9 DEF CreateSucceeds
  <2>2. \/ settleTimer' = TRUE /\ UNCHANGED <<autoConn, autoWork, stalled>>
        \/ autoConn' = FALSE /\ settleTimer' = settleTimer /\ Rearm
    BY <1>9 DEF CreateSucceeds
  <2>3. autoWork' \in BOOLEAN /\ stalled' \in BOOLEAN
    BY <2>2, RearmFlags
  <2>4. QED
    BY <2>1, <2>2, <2>3
<1>10. CASE Settle
  <2>1. UNCHANGED <<scanning, scanTimer, retryTimer, enabled, autoScan, autoConn, scanOn>>
    BY <1>10 DEF Settle
  <2>2. CASE settling = None
    BY <1>10, <2>1, <2>2 DEF Settle
  <2>3. CASE settling # None
    BY <1>10, <2>1, <2>3, ReportedFlags, RearmFlags DEF Settle
  <2>4. QED
    BY <2>2, <2>3
<1>11. CASE Retry
  <2>1. retryTimer' = FALSE /\ UNCHANGED <<scanning, scanTimer, scanOn, settleTimer, enabled, autoScan,
                                           autoConn, autoWork>>
    BY <1>11 DEF Retry
  <2>2. UNCHANGED <<pending, stalled>> \/ (pending' = FALSE /\ stalled' = TRUE)
    BY <1>11 DEF Retry
  <2>3. asked' = asked
    BY <1>11 DEF Retry, EndCycle
  <2>4. QED
    BY <2>1, <2>2, <2>3
<1>12. ASSUME NEW s \in Slot, NEW r \in BOOLEAN, Drop(s, r) PROVE FlagsOK'
  <2>1. UNCHANGED <<scanning, scanTimer, scanOn, enabled, autoScan, autoConn, asked>>
    BY <1>12 DEF Drop, EndCycle
  <2>2. CASE WasSettling(s)
    <3>1. settleTimer' = FALSE
      BY <1>12, <2>2 DEF Drop
    <3>2. \/ retryTimer' = TRUE /\ UNCHANGED <<pending, autoWork, stalled>>
          \/ pending' = FALSE /\ retryTimer' = retryTimer /\ Rearm
      BY <1>12, <2>2 DEF Drop
    <3>3. QED
      BY <2>1, <3>1, <3>2 DEF Rearm
  <2>3. CASE ~WasSettling(s)
    <3>1. UNCHANGED <<pending, settleTimer, retryTimer>> /\ Rearm
      BY <1>12, <2>3 DEF Drop
    <3>2. QED
      BY <2>1, <3>1 DEF Rearm
  <2>4. QED
    BY <2>2, <2>3
<1>13. ASSUME NEW s \in Slot, Encrypted(s) PROVE FlagsOK'
  <2>1. UNCHANGED <<scanning, scanTimer, retryTimer, enabled, autoScan, autoConn, scanOn>>
    BY <1>13 DEF Encrypted
  <2>2. SettleReport(s) /\ (Rearm \/ UNCHANGED <<autoWork, stalled>>)
    BY <1>13 DEF Encrypted, SettleNow
  <2>3. autoWork' \in BOOLEAN /\ stalled' \in BOOLEAN
    BY <2>2, RearmFlags
  <2>4. QED
    BY <2>1, <2>2, <2>3, ReportedFlags
<1>14. ASSUME NEW s \in Slot, NotBonded(s) PROVE FlagsOK'
  <2>1. UNCHANGED <<scanning, scanTimer, retryTimer, enabled, autoScan, autoConn, scanOn>>
    BY <1>14 DEF NotBonded
  <2>2. SettleReport(s) /\ (Rearm \/ UNCHANGED <<autoWork, stalled>>)
    BY <1>14 DEF NotBonded, SettleNow
  <2>3. autoWork' \in BOOLEAN /\ stalled' \in BOOLEAN
    BY <2>2, RearmFlags
  <2>4. QED
    BY <2>1, <2>2, <2>3, ReportedFlags
<1>15. ASSUME NEW s \in Slot, PairingComplete(s) PROVE FlagsOK'
  BY <1>15 DEF PairingComplete, SettleReport, ReportConnected, EndCycle,
      RefreshBonds
<1>16. ASSUME NEW P \in {{p} : p \in Peer} \cup {Peer}, CmdUnpair(P) PROVE
            FlagsOK'
  BY <1>16 DEF CmdUnpair, Cmd, RefreshBonds
<1>17. CASE CmdList
  BY <1>17 DEF CmdList, Cmd
<1>18. CASE UNCHANGED vars
  BY <1>18 DEF vars
<1> QED
  BY <1>1, <1>2, <1>3, <1>4, <1>5, <1>6, <1>7, <1>8, <1>9, <1>10, <1>11,
      <1>12, <1>13, <1>14, <1>15, <1>16, <1>17, <1>18 DEF Next, Discovery,
      Create

\* The scalars keep their type; a retry stays within the limit because
\* Bookkeeping holds when its timer was set.
LEMMA DataStep == CentralInv /\ [Next]_vars => DataOK'
<1> SUFFICES ASSUME CentralInv, [Next]_vars PROVE DataOK'
  OBVIOUS
<1> USE NoneAssumption, AttemptAssumption, BoundAssumption DEF CentralInv,
    TypeOK, DataOK, PendingProgress, PendingOwnsCreate, Bookkeeping, Slot,
    Free, scan, conn, auto, table, host, view, bound, cycle
<1>1. CASE CmdScanStart
  BY <1>1 DEF CmdScanStart, Cmd, StopAuto, ScanGranted, ScanRefused,
      ScanLeft, Fault
<1>2. CASE CmdScanStop
  BY <1>2 DEF CmdScanStop, Cmd, Rearm
<1>3. CASE ScanTimeout
  BY <1>3 DEF ScanTimeout, Rearm
<1>4. CASE AutoWork
  <2>1. UNCHANGED faults \/ Fault
    BY <1>4 DEF AutoWork, ScanGranted, ScanRefused
  <2>9. faults' \in Nat
    BY <2>1 DEF Fault
  <2>2. seen' \in SUBSET Peer
    BY <1>4 DEF AutoWork, ScanGranted, ScanRefused
  <2>3. QED
    BY <1>4, <2>9, <2>2 DEF AutoWork
<1>5. ASSUME NEW p \in Peer, IgnoreAdvert(p) PROVE DataOK'
  BY <1>5 DEF IgnoreAdvert, Report
<1>6. ASSUME NEW p \in Peer, Advert(p) PROVE DataOK'
  BY <1>6 DEF Advert, Report, Acceptable, Granted, Refused, MayCreate,
      Fault, Rearm
<1>7. ASSUME NEW p \in Peer, CmdConnect(p) PROVE DataOK'
  BY <1>7 DEF CmdConnect, NewCycle, Cmd, StopAuto, ScanLeft, CancelCycle, Granted,
      Refused, MayCreate, Fault
<1>8. CASE CreateFails
  BY <1>8 DEF CreateFails, EndCycle, Answered, Rearm
<1>9. CASE CreateSucceeds
  BY <1>9 DEF CreateSucceeds, Rearm
<1>10. CASE Settle
  BY <1>10 DEF Settle, SettleReport, ReportConnected, EndCycle, Answered, Rearm
<1>11. CASE Retry
  BY <1>11 DEF Retry, Granted, Refused, MayCreate, Fault, EndCycle, Answered
<1>12. ASSUME NEW s \in Slot, NEW r \in BOOLEAN, Drop(s, r) PROVE DataOK'
  BY <1>12 DEF Drop, WasSettling, MayRetry, EndCycle, Answered, Rearm
<1>13. ASSUME NEW s \in Slot, Encrypted(s) PROVE DataOK'
  BY <1>13 DEF Encrypted, SettleNow, SettleReport, ReportConnected,
      EndCycle, Answered, Rearm
<1>14. ASSUME NEW s \in Slot, NotBonded(s) PROVE DataOK'
  BY <1>14 DEF NotBonded, SettleNow, SettleReport, ReportConnected,
      EndCycle, Answered, Rearm
<1>15. ASSUME NEW s \in Slot, PairingComplete(s) PROVE DataOK'
  <2>1. slots[s] \in Peer
    BY <1>15 DEF PairingComplete, TableOK
  <2>2. bonds' \in SUBSET Peer /\ seen' \in SUBSET Peer
    BY <1>15, <2>1 DEF PairingComplete, RefreshBonds
  <2>3. QED
    BY <1>15, <2>2 DEF PairingComplete, SettleReport, EndCycle, Answered
<1>16. ASSUME NEW P \in {{p} : p \in Peer} \cup {Peer}, CmdUnpair(P) PROVE
            DataOK'
  BY <1>16 DEF CmdUnpair, Cmd, RefreshBonds
<1>17. CASE CmdList
  BY <1>17 DEF CmdList, Cmd, Answered
<1>18. CASE UNCHANGED vars
  BY <1>18 DEF vars
<1> QED
  BY <1>1, <1>2, <1>3, <1>4, <1>5, <1>6, <1>7, <1>8, <1>9, <1>10, <1>11,
      <1>12, <1>13, <1>14, <1>15, <1>16, <1>17, <1>18 DEF Next, Discovery,
      Create

\* The connection table and the ESP32's view of it keep their type.
LEMMA TableStep == CentralInv /\ [Next]_vars => TableOK'
<1> SUFFICES ASSUME CentralInv, [Next]_vars PROVE TableOK'
  OBVIOUS
<1> USE NoneAssumption DEF CentralInv, TypeOK, TableOK, DataOK, Slot, Free,
    scan, conn, auto, table, host, view, bound, cycle
<1>1. CASE CmdScanStart
  BY <1>1 DEF CmdScanStart, Cmd, StopAuto, ScanGranted, ScanRefused,
      ScanLeft, Fault
<1>2. CASE CmdScanStop
  BY <1>2 DEF CmdScanStop, Cmd, Rearm
<1>3. CASE ScanTimeout
  BY <1>3 DEF ScanTimeout, Rearm
<1>4. CASE AutoWork
  BY <1>4 DEF AutoWork, Busy, Wanted, HasConn, ScanGranted, ScanRefused,
      Fault
<1>5. ASSUME NEW p \in Peer, IgnoreAdvert(p) PROVE TableOK'
  BY <1>5 DEF IgnoreAdvert, Report
<1>6. ASSUME NEW p \in Peer, Advert(p) PROVE TableOK'
  BY <1>6 DEF Advert, Report, Acceptable, Granted, Refused, MayCreate,
      Fault, Rearm
<1>7. ASSUME NEW p \in Peer, CmdConnect(p) PROVE TableOK'
  BY <1>7 DEF CmdConnect, Cmd, StopAuto, ScanLeft, CancelCycle, Granted,
      Refused, MayCreate, Fault
<1>8. CASE CreateFails
  BY <1>8 DEF CreateFails, EndCycle, Rearm
<1>9. CASE CreateSucceeds
  <2>1. PICK s \in Free :
          /\ slots' = [slots EXCEPT ![s] = creating]
          /\ \/ UNCHANGED <<told, unsure>>
             \/ /\ told' = [told EXCEPT ![s] = creating]
                /\ unsure' = unsure \ {s}
    BY <1>9 DEF CreateSucceeds
  <2>2. s \in Slot
    OBVIOUS
  <2>3. UNCHANGED <<enc, toldEnc>>
    BY <1>9 DEF CreateSucceeds
  <2>4. creating \in Peer \cup {None}
    OBVIOUS
  <2>5. slots' \in [Slot -> Peer \cup {None}]
    BY <2>1, <2>2, <2>4
  <2>6. told' \in [Slot -> Peer \cup {None}] /\ unsure' \in SUBSET Slot
    <3>1. CASE UNCHANGED <<told, unsure>>
      BY <3>1
    <3>2. CASE told' = [told EXCEPT ![s] = creating] /\ unsure' = unsure \ {s}
      BY <2>2, <2>4, <3>2
    <3>3. QED
      BY <2>1, <3>1, <3>2
  <2>7. QED
    BY <2>3, <2>5, <2>6
<1>10. CASE Settle
  BY <1>10 DEF Settle, SettleReport, ReportConnected, EndCycle, Rearm
<1>11. CASE Retry
  BY <1>11 DEF Retry, Granted, Refused, MayCreate, Fault, EndCycle
<1>12. ASSUME NEW s \in Slot, NEW r \in BOOLEAN, Drop(s, r) PROVE TableOK'
  BY <1>12 DEF Drop, WasSettling, MayRetry, EndCycle, Rearm
<1>13. ASSUME NEW s \in Slot, Encrypted(s) PROVE TableOK'
  BY <1>13 DEF Encrypted, SettleNow, SettleReport, ReportConnected,
      EndCycle, Rearm
<1>14. ASSUME NEW s \in Slot, NotBonded(s) PROVE TableOK'
  BY <1>14 DEF NotBonded, SettleNow, SettleReport, ReportConnected,
      EndCycle, Rearm
<1>15. ASSUME NEW s \in Slot, PairingComplete(s) PROVE TableOK'
  BY <1>15 DEF PairingComplete, SettleReport, ReportConnected, EndCycle,
      RefreshBonds
<1>16. ASSUME NEW P \in {{p} : p \in Peer} \cup {Peer}, CmdUnpair(P) PROVE
            TableOK'
  BY <1>16 DEF CmdUnpair, Cmd, RefreshBonds
<1>17. CASE CmdList
  BY <1>17 DEF CmdList, Cmd
<1>18. CASE UNCHANGED vars
  BY <1>18 DEF vars
<1> QED
  BY <1>1, <1>2, <1>3, <1>4, <1>5, <1>6, <1>7, <1>8, <1>9, <1>10, <1>11,
      <1>12, <1>13, <1>14, <1>15, <1>16, <1>17, <1>18 DEF Next, Discovery,
      Create

\* Only the owner of the scanner starts, stops or hands it over.
LEMMA ScannerStep == CentralInv /\ [Next]_vars => ScannerOwned'
<1> SUFFICES ASSUME CentralInv, [Next]_vars PROVE ScannerOwned'
  OBVIOUS
<1> USE DEF CentralInv, TypeOK, FlagsOK, ScannerOwned, scan, conn, auto,
    table, host, view, bound, cycle
<1>1. CASE CmdScanStart
  BY <1>1 DEF CmdScanStart, Cmd, StopAuto, ScanGranted, ScanRefused,
      ScanLeft, Fault
<1>2. CASE CmdScanStop
  BY <1>2 DEF CmdScanStop, Cmd, Rearm
<1>3. CASE ScanTimeout
  BY <1>3 DEF ScanTimeout, Rearm
<1>4. CASE AutoWork
  BY <1>4 DEF AutoWork, Busy, Wanted, HasConn, ScanGranted, ScanRefused,
      Fault
<1>5. ASSUME NEW p \in Peer, IgnoreAdvert(p) PROVE ScannerOwned'
  BY <1>5 DEF IgnoreAdvert, Report
<1>6. ASSUME NEW p \in Peer, Advert(p) PROVE ScannerOwned'
  BY <1>6 DEF Advert, Report, Acceptable, Granted, Refused, MayCreate,
      Fault, Rearm
<1>7. ASSUME NEW p \in Peer, CmdConnect(p) PROVE ScannerOwned'
  BY <1>7 DEF CmdConnect, Cmd, StopAuto, ScanLeft, CancelCycle, Granted,
      Refused, MayCreate, Fault
<1>8. CASE CreateFails
  BY <1>8 DEF CreateFails, EndCycle, Rearm
<1>9. CASE CreateSucceeds
  BY <1>9 DEF CreateSucceeds, Rearm
<1>10. CASE Settle
  BY <1>10 DEF Settle, SettleReport, ReportConnected, EndCycle, Rearm
<1>11. CASE Retry
  BY <1>11 DEF Retry, Granted, Refused, MayCreate, Fault, EndCycle
<1>12. ASSUME NEW s \in Slot, NEW r \in BOOLEAN, Drop(s, r) PROVE
            ScannerOwned'
  BY <1>12 DEF Drop, WasSettling, MayRetry, EndCycle, Rearm
<1>13. ASSUME NEW s \in Slot, Encrypted(s) PROVE ScannerOwned'
  BY <1>13 DEF Encrypted, SettleNow, SettleReport, ReportConnected,
      EndCycle, Rearm
<1>14. ASSUME NEW s \in Slot, NotBonded(s) PROVE ScannerOwned'
  BY <1>14 DEF NotBonded, SettleNow, SettleReport, ReportConnected,
      EndCycle, Rearm
<1>15. ASSUME NEW s \in Slot, PairingComplete(s) PROVE ScannerOwned'
  BY <1>15 DEF PairingComplete, SettleReport, ReportConnected, EndCycle,
      RefreshBonds
<1>16. ASSUME NEW P \in {{p} : p \in Peer} \cup {Peer}, CmdUnpair(P) PROVE
            ScannerOwned'
  BY <1>16 DEF CmdUnpair, Cmd, RefreshBonds
<1>17. CASE CmdList
  BY <1>17 DEF CmdList, Cmd
<1>18. CASE UNCHANGED vars
  BY <1>18 DEF vars
<1> QED
  BY <1>1, <1>2, <1>3, <1>4, <1>5, <1>6, <1>7, <1>8, <1>9, <1>10, <1>11,
      <1>12, <1>13, <1>14, <1>15, <1>16, <1>17, <1>18 DEF Next, Discovery,
      Create

\* The background engine never starts anything during a connect cycle.
LEMMA PendingStep == CentralInv /\ [Next]_vars => PendingOwnsCreate'
<1> SUFFICES ASSUME CentralInv, [Next]_vars PROVE PendingOwnsCreate'
  OBVIOUS
<1> USE NoneAssumption DEF CentralInv, PendingOwnsCreate, PendingProgress,
    Bookkeeping, Slot, Free, scan, conn, auto, table, host, view, bound, cycle
<1>1. CASE CmdScanStart
  BY <1>1 DEF CmdScanStart, Cmd, StopAuto, ScanGranted, ScanRefused,
      ScanLeft, Fault
<1>2. CASE CmdScanStop
  BY <1>2 DEF CmdScanStop, Cmd, Rearm
<1>3. CASE ScanTimeout
  BY <1>3 DEF ScanTimeout, Rearm
<1>4. CASE AutoWork
  BY <1>4 DEF AutoWork, Busy, Wanted, HasConn, ScanGranted, ScanRefused,
      Fault
<1>5. ASSUME NEW p \in Peer, IgnoreAdvert(p) PROVE PendingOwnsCreate'
  BY <1>5 DEF IgnoreAdvert, Report
<1>6. ASSUME NEW p \in Peer, Advert(p) PROVE PendingOwnsCreate'
  BY <1>6 DEF Advert, Report, Acceptable, Granted, Refused, MayCreate,
      Fault, Rearm
<1>7. ASSUME NEW p \in Peer, CmdConnect(p) PROVE PendingOwnsCreate'
  BY <1>7 DEF CmdConnect, Cmd, StopAuto, ScanLeft, CancelCycle, Granted,
      Refused, MayCreate, Fault
<1>8. CASE CreateFails
  BY <1>8 DEF CreateFails, EndCycle, Rearm
<1>9. CASE CreateSucceeds
  BY <1>9 DEF CreateSucceeds, Rearm
<1>10. CASE Settle
  BY <1>10 DEF Settle, SettleReport, ReportConnected, EndCycle, Rearm
<1>11. CASE Retry
  BY <1>11 DEF Retry, Granted, Refused, MayCreate, Fault, EndCycle
<1>12. ASSUME NEW s \in Slot, NEW r \in BOOLEAN, Drop(s, r) PROVE
            PendingOwnsCreate'
  BY <1>12 DEF Drop, WasSettling, MayRetry, EndCycle, Rearm
<1>13. ASSUME NEW s \in Slot, Encrypted(s) PROVE PendingOwnsCreate'
  BY <1>13 DEF Encrypted, SettleNow, SettleReport, ReportConnected,
      EndCycle, Rearm
<1>14. ASSUME NEW s \in Slot, NotBonded(s) PROVE PendingOwnsCreate'
  BY <1>14 DEF NotBonded, SettleNow, SettleReport, ReportConnected,
      EndCycle, Rearm
<1>15. ASSUME NEW s \in Slot, PairingComplete(s) PROVE PendingOwnsCreate'
  BY <1>15 DEF PairingComplete, SettleReport, ReportConnected, EndCycle,
      RefreshBonds
<1>16. ASSUME NEW P \in {{p} : p \in Peer} \cup {Peer}, CmdUnpair(P) PROVE
            PendingOwnsCreate'
  BY <1>16 DEF CmdUnpair, Cmd, RefreshBonds
<1>17. CASE CmdList
  BY <1>17 DEF CmdList, Cmd
<1>18. CASE UNCHANGED vars
  BY <1>18 DEF vars
<1> QED
  BY <1>1, <1>2, <1>3, <1>4, <1>5, <1>6, <1>7, <1>8, <1>9, <1>10, <1>11,
      <1>12, <1>13, <1>14, <1>15, <1>16, <1>17, <1>18 DEF Next, Discovery,
      Create

\* Every way out of an attempt, a settle window or a retry leads to another
\* of them or ends the cycle.
LEMMA ProgressStep == CentralInv /\ [Next]_vars => PendingProgress'
<1> SUFFICES ASSUME CentralInv, [Next]_vars PROVE PendingProgress'
  OBVIOUS
<1> USE NoneAssumption DEF CentralInv, TypeOK, FlagsOK, DataOK,
    PendingProgress, PendingOwnsCreate, Bookkeeping, Slot, Free, scan, conn,
    auto, table, host, view, bound, cycle
<1>1. CASE CmdScanStart
  BY <1>1 DEF CmdScanStart, Cmd, StopAuto, ScanGranted, ScanRefused,
      ScanLeft, Fault
<1>2. CASE CmdScanStop
  BY <1>2 DEF CmdScanStop, Cmd, Rearm
<1>3. CASE ScanTimeout
  BY <1>3 DEF ScanTimeout, Rearm
<1>4. CASE AutoWork
  BY <1>4 DEF AutoWork, Busy, Wanted, HasConn, ScanGranted, ScanRefused,
      Fault
<1>5. ASSUME NEW p \in Peer, IgnoreAdvert(p) PROVE PendingProgress'
  BY <1>5 DEF IgnoreAdvert, Report
<1>6. ASSUME NEW p \in Peer, Advert(p) PROVE PendingProgress'
  BY <1>6 DEF Advert, Report, Acceptable, Granted, Refused, MayCreate,
      Fault, Rearm
<1>7. ASSUME NEW p \in Peer, CmdConnect(p) PROVE PendingProgress'
  BY <1>7 DEF CmdConnect, Cmd, StopAuto, ScanLeft, CancelCycle, Granted,
      Refused, MayCreate, Fault
<1>8. CASE CreateFails
  BY <1>8 DEF CreateFails, EndCycle, Rearm
<1>9. CASE CreateSucceeds
  BY <1>9 DEF CreateSucceeds, Rearm
<1>10. CASE Settle
  BY <1>10 DEF Settle, SettleReport, ReportConnected, EndCycle, Rearm
<1>11. CASE Retry
  <2>1. pending /\ settling = None /\ ~settleTimer /\ creating = None
    BY <1>11 DEF Retry
  <2>2. UNCHANGED <<settling, settleTimer>> /\ ~retryTimer'
    BY <1>11 DEF Retry
  <2>3. \/ creating' # None /\ pending'
        \/ ~pending'
    BY <1>11, <2>1 DEF Retry, Granted, Refused
  <2>4. QED
    BY <2>1, <2>2, <2>3
<1>12. ASSUME NEW s \in Slot, NEW r \in BOOLEAN, Drop(s, r) PROVE
            PendingProgress'
  <2>1. CASE s = settling
    <3>1. pending /\ creating = None /\ ~retryTimer /\ s # None
      BY <2>1
    <3>2. settling' = None /\ ~settleTimer' /\ creating' = None
      BY <1>12, <2>1, <3>1 DEF Drop, WasSettling
    <3>3. \/ retryTimer' /\ pending'
          \/ ~pending' /\ ~retryTimer'
      BY <1>12, <2>1, <3>1 DEF Drop, WasSettling
    <3>4. QED
      BY <3>2, <3>3
  <2>2. CASE s # settling
    BY <1>12, <2>2 DEF Drop, WasSettling
  <2>3. QED
    BY <2>1, <2>2
<1>13. ASSUME NEW s \in Slot, Encrypted(s) PROVE PendingProgress'
  BY <1>13 DEF Encrypted, SettleNow, SettleReport, ReportConnected,
      EndCycle, Rearm
<1>14. ASSUME NEW s \in Slot, NotBonded(s) PROVE PendingProgress'
  BY <1>14 DEF NotBonded, SettleNow, SettleReport, ReportConnected,
      EndCycle, Rearm
<1>15. ASSUME NEW s \in Slot, PairingComplete(s) PROVE PendingProgress'
  BY <1>15 DEF PairingComplete, SettleReport, ReportConnected, EndCycle,
      RefreshBonds
<1>16. ASSUME NEW P \in {{p} : p \in Peer} \cup {Peer}, CmdUnpair(P) PROVE
            PendingProgress'
  BY <1>16 DEF CmdUnpair, Cmd, RefreshBonds
<1>17. CASE CmdList
  BY <1>17 DEF CmdList, Cmd
<1>18. CASE UNCHANGED vars
  BY <1>18 DEF vars
<1> QED
  BY <1>1, <1>2, <1>3, <1>4, <1>5, <1>6, <1>7, <1>8, <1>9, <1>10, <1>11,
      <1>12, <1>13, <1>14, <1>15, <1>16, <1>17, <1>18 DEF Next, Discovery,
      Create

\* Only the end of a cycle, and a list command, answers, and nothing of an ended
\* cycle is left that could answer again.
LEMMA VerdictStep == CentralInv /\ [Next]_vars => SingleVerdict'
<1> SUFFICES ASSUME CentralInv, [Next]_vars PROVE SingleVerdict'
  OBVIOUS
<1> USE NoneAssumption DEF CentralInv, TypeOK, FlagsOK, DataOK,
    SingleVerdict, PendingProgress, PendingOwnsCreate, Bookkeeping, AttemptOpen, Slot,
    Free, scan, conn, auto, table, host, view, bound, cycle
<1>1. CASE CmdScanStart
  BY <1>1 DEF CmdScanStart, Cmd, StopAuto, ScanGranted, ScanRefused,
      ScanLeft, Fault
<1>2. CASE CmdScanStop
  BY <1>2 DEF CmdScanStop, Cmd, Rearm
<1>3. CASE ScanTimeout
  BY <1>3 DEF ScanTimeout, Rearm
<1>4. CASE AutoWork
  BY <1>4 DEF AutoWork, Busy, Wanted, HasConn, ScanGranted, ScanRefused,
      Fault
<1>5. ASSUME NEW p \in Peer, IgnoreAdvert(p) PROVE SingleVerdict'
  BY <1>5 DEF IgnoreAdvert, Report
<1>6. ASSUME NEW p \in Peer, Advert(p) PROVE SingleVerdict'
  BY <1>6 DEF Advert, Report, Acceptable, Granted, Refused, MayCreate,
      Fault, Rearm
<1>7. ASSUME NEW p \in Peer, CmdConnect(p) PROVE SingleVerdict'
  BY <1>7 DEF CmdConnect, NewCycle, Cmd, StopAuto, ScanLeft, CancelCycle, Granted,
      Refused, MayCreate, Fault
<1>8. CASE CreateFails
  BY <1>8 DEF CreateFails, EndCycle, Answered, Rearm
<1>9. CASE CreateSucceeds
  BY <1>9 DEF CreateSucceeds, Rearm
<1>10. CASE Settle
  BY <1>10 DEF Settle, SettleReport, ReportConnected, EndCycle, Answered, Rearm
<1>11. CASE Retry
  BY <1>11 DEF Retry, Granted, Refused, MayCreate, Fault, EndCycle, Answered
<1>12. ASSUME NEW s \in Slot, NEW r \in BOOLEAN, Drop(s, r) PROVE
            SingleVerdict'
  BY <1>12 DEF Drop, WasSettling, MayRetry, EndCycle, Answered, Rearm
<1>13. ASSUME NEW s \in Slot, Encrypted(s) PROVE SingleVerdict'
  BY <1>13 DEF Encrypted, SettleNow, SettleReport, ReportConnected,
      EndCycle, Answered, Rearm
<1>14. ASSUME NEW s \in Slot, NotBonded(s) PROVE SingleVerdict'
  BY <1>14 DEF NotBonded, SettleNow, SettleReport, ReportConnected,
      EndCycle, Answered, Rearm
<1>15. ASSUME NEW s \in Slot, PairingComplete(s) PROVE SingleVerdict'
  BY <1>15 DEF PairingComplete, SettleReport, ReportConnected, EndCycle, Answered,
      RefreshBonds
<1>16. ASSUME NEW P \in {{p} : p \in Peer} \cup {Peer}, CmdUnpair(P) PROVE
            SingleVerdict'
  BY <1>16 DEF CmdUnpair, Cmd, RefreshBonds
<1>17. CASE CmdList
  BY <1>17 DEF CmdList, Cmd, Answered
<1>18. CASE UNCHANGED vars
  BY <1>18 DEF vars
<1> QED
  BY <1>1, <1>2, <1>3, <1>4, <1>5, <1>6, <1>7, <1>8, <1>9, <1>10, <1>11,
      <1>12, <1>13, <1>14, <1>15, <1>16, <1>17, <1>18 DEF Next, Discovery,
      Create

\* The part of ViewMatches that is about the table.
ToldTable ==
  \A s \in Slot \ unsure : told[s] = IF s = settling THEN None ELSE slots[s]

\* Every change of the table outside a settle window is reported, and the end
\* of a window reports the link.
LEMMA ViewStep == CentralInv /\ [Next]_vars => ToldTable'
<1> SUFFICES ASSUME CentralInv, [Next]_vars PROVE ToldTable'
  OBVIOUS
<1> USE NoneAssumption DEF CentralInv, TypeOK, DataOK, TableOK, ViewMatches,
    ToldTable,
    PendingProgress, Bookkeeping, Slot, Free, scan, conn, auto, table, host,
    view, bound, cycle
<1>1. CASE CmdScanStart
  BY <1>1 DEF CmdScanStart, Cmd, StopAuto, ScanGranted, ScanRefused,
      ScanLeft, Fault
<1>2. CASE CmdScanStop
  BY <1>2 DEF CmdScanStop, Cmd, Rearm
<1>3. CASE ScanTimeout
  BY <1>3 DEF ScanTimeout, Rearm
<1>4. CASE AutoWork
  BY <1>4 DEF AutoWork, Busy, Wanted, HasConn, ScanGranted, ScanRefused,
      Fault
<1>5. ASSUME NEW p \in Peer, IgnoreAdvert(p) PROVE ToldTable'
  BY <1>5 DEF IgnoreAdvert, Report
<1>6. ASSUME NEW p \in Peer, Advert(p) PROVE ToldTable'
  BY <1>6 DEF Advert, Report, Acceptable, Granted, Refused, MayCreate,
      Fault, Rearm
<1>7. ASSUME NEW p \in Peer, CmdConnect(p) PROVE ToldTable'
  BY <1>7 DEF CmdConnect, Cmd, StopAuto, ScanLeft, CancelCycle, Granted,
      Refused, MayCreate, Fault
<1>8. CASE CreateFails
  BY <1>8 DEF CreateFails, EndCycle, Rearm
<1>9. CASE CreateSucceeds
  <2>1. PICK s \in Free :
          /\ slots' = [slots EXCEPT ![s] = creating]
          /\ \/ pending /\ settling' = s /\ UNCHANGED <<told, unsure>>
             \/ /\ ~pending
                /\ told' = [told EXCEPT ![s] = creating]
                /\ unsure' = unsure \ {s}
                /\ UNCHANGED settling
    BY <1>9 DEF CreateSucceeds
  <2>2. s \in Slot /\ slots[s] = None /\ settling = None
    BY <1>9 DEF CreateSucceeds
  <2>3. ASSUME NEW t \in Slot \ unsure'
        PROVE  told'[t] = IF t = settling' THEN None ELSE slots'[t]
    <3>1. t # None
      BY NoneIsNoSlot
    <3>2. CASE t = s
      BY <2>1, <2>2, <2>3, <3>1, <3>2
    <3>3. CASE t # s
      BY <2>1, <2>2, <2>3, <3>1, <3>3
    <3>4. QED
      BY <3>2, <3>3
  <2>4. QED
    BY <2>3
<1>10. CASE Settle
  <2>1. CASE settling = None
    BY <1>10, <2>1 DEF Settle
  <2>2. CASE settling # None
    <3>1. settling' = None /\ slots' = slots /\ settling \in Slot
      BY <1>10, <2>2 DEF Settle, SettleReport
    <3>2. /\ told' = [told EXCEPT ![settling] = slots[settling]]
          /\ unsure' = unsure \ {settling}
      BY <1>10, <2>2 DEF Settle, SettleReport, ReportConnected
    <3>3. ASSUME NEW t \in Slot \ unsure'
          PROVE  told'[t] = IF t = settling' THEN None ELSE slots'[t]
      BY <2>2, <3>1, <3>2, <3>3
    <3>4. QED
      BY <3>3
  <2>3. QED
    BY <2>1, <2>2
<1>11. CASE Retry
  BY <1>11 DEF Retry, Granted, Refused, MayCreate, Fault, EndCycle
<1>12. ASSUME NEW s \in Slot, NEW r \in BOOLEAN, Drop(s, r) PROVE
            ToldTable'
  <2>1. CASE s = settling
    <3>1. slots' = [slots EXCEPT ![s] = None] /\ UNCHANGED <<told, unsure>>
      BY <1>12, <2>1 DEF Drop, WasSettling
    <3>2. settling' = None
      BY <1>12, <2>1 DEF Drop, WasSettling
    <3>3. ASSUME NEW t \in Slot \ unsure'
          PROVE  told'[t] = IF t = settling' THEN None ELSE slots'[t]
      BY <2>1, <3>1, <3>2, <3>3
    <3>4. QED
      BY <3>3
  <2>2. CASE s # settling
    <3>1. /\ slots' = [slots EXCEPT ![s] = None]
          /\ told' = [told EXCEPT ![s] = None]
          /\ unsure' = unsure \ {s}
          /\ settling' = settling
      BY <1>12, <2>2 DEF Drop, WasSettling
    <3>2. ASSUME NEW t \in Slot \ unsure'
          PROVE  told'[t] = IF t = settling' THEN None ELSE slots'[t]
      BY <2>2, <3>1, <3>2
    <3>3. QED
      BY <3>2
  <2>3. QED
    BY <2>1, <2>2
<1>13. ASSUME NEW s \in Slot, Encrypted(s) PROVE ToldTable'
  <2>1. CASE s = settling
    <3>1. settling' = None /\ slots' = slots /\ s \in Slot
      BY <1>13, <2>1 DEF Encrypted, SettleNow, SettleReport, ReportConnected
    <3>2. told' = [told EXCEPT ![s] = slots[s]] /\ unsure' = unsure \ {s}
      BY <1>13, <2>1 DEF Encrypted, SettleNow, SettleReport, ReportConnected
    <3>3. ASSUME NEW t \in Slot \ unsure'
          PROVE  told'[t] = IF t = settling' THEN None ELSE slots'[t]
      BY <2>1, <3>1, <3>2, <3>3
    <3>4. QED
      BY <3>3
  <2>2. CASE s # settling
    BY <1>13, <2>2 DEF Encrypted, SettleNow, SettleReport, ReportConnected
  <2>3. QED
    BY <2>1, <2>2
<1>14. ASSUME NEW s \in Slot, NotBonded(s) PROVE ToldTable'
  <2>1. CASE s = settling
    <3>1. settling' = None /\ slots' = slots /\ s \in Slot
      BY <1>14, <2>1 DEF NotBonded, SettleNow, SettleReport,
           ReportConnected
    <3>2. told' = [told EXCEPT ![s] = slots[s]] /\ unsure' = unsure \ {s}
      BY <1>14, <2>1 DEF NotBonded, SettleNow, SettleReport,
           ReportConnected
    <3>3. ASSUME NEW t \in Slot \ unsure'
          PROVE  told'[t] = IF t = settling' THEN None ELSE slots'[t]
      BY <2>1, <3>1, <3>2, <3>3
    <3>4. QED
      BY <3>3
  <2>2. CASE s # settling
    BY <1>14, <2>2 DEF NotBonded, SettleNow, SettleReport,
           ReportConnected
  <2>3. QED
    BY <2>1, <2>2
<1>15. ASSUME NEW s \in Slot, PairingComplete(s) PROVE ToldTable'
  <2>1. CASE s = settling
    <3>1. settling' = None /\ slots' = slots /\ s \in Slot
      BY <1>15, <2>1 DEF PairingComplete, SettleReport, ReportConnected
    <3>2. told' = [told EXCEPT ![s] = slots[s]] /\ unsure' = unsure \ {s}
      BY <1>15, <2>1 DEF PairingComplete, SettleReport, ReportConnected
    <3>3. ASSUME NEW t \in Slot \ unsure'
          PROVE  told'[t] = IF t = settling' THEN None ELSE slots'[t]
      BY <2>1, <3>1, <3>2, <3>3
    <3>4. QED
      BY <3>3
  <2>2. CASE s # settling
    BY <1>15, <2>2 DEF PairingComplete, SettleReport, ReportConnected
  <2>3. QED
    BY <2>1, <2>2
<1>16. ASSUME NEW P \in {{p} : p \in Peer} \cup {Peer}, CmdUnpair(P) PROVE
            ToldTable'
  BY <1>16 DEF CmdUnpair, Cmd, RefreshBonds
<1>17. CASE CmdList
  BY <1>17 DEF CmdList, Cmd
<1>18. CASE UNCHANGED vars
  BY <1>18 DEF vars
<1> QED
  BY <1>1, <1>2, <1>3, <1>4, <1>5, <1>6, <1>7, <1>8, <1>9, <1>10, <1>11,
      <1>12, <1>13, <1>14, <1>15, <1>16, <1>17, <1>18 DEF Next, Discovery,
      Create

\* A settle window is closed before its link is announced as encrypted.
LEMMA EncStep == CentralInv /\ [Next]_vars => EncAfterConnected'
<1> SUFFICES ASSUME CentralInv, [Next]_vars PROVE EncAfterConnected'
  OBVIOUS
<1>a. None \notin enc
  BY NoneIsNoSlot DEF CentralInv, TypeOK, TableOK
<1> USE NoneAssumption DEF CentralInv, TypeOK, DataOK, TableOK,
    EncAfterConnected, PendingProgress, Bookkeeping, Slot, Free, scan, conn,
    auto, table, host, view, bound, cycle
<1>1. CASE CmdScanStart
  BY <1>1 DEF CmdScanStart, Cmd, StopAuto, ScanGranted, ScanRefused,
      ScanLeft, Fault
<1>2. CASE CmdScanStop
  BY <1>2 DEF CmdScanStop, Cmd, Rearm
<1>3. CASE ScanTimeout
  BY <1>3 DEF ScanTimeout, Rearm
<1>4. CASE AutoWork
  BY <1>4 DEF AutoWork, Busy, Wanted, HasConn, ScanGranted, ScanRefused,
      Fault
<1>5. ASSUME NEW p \in Peer, IgnoreAdvert(p) PROVE EncAfterConnected'
  BY <1>5 DEF IgnoreAdvert, Report
<1>6. ASSUME NEW p \in Peer, Advert(p) PROVE EncAfterConnected'
  BY <1>6 DEF Advert, Report, Acceptable, Granted, Refused, MayCreate,
      Fault, Rearm
<1>7. ASSUME NEW p \in Peer, CmdConnect(p) PROVE EncAfterConnected'
  <2>1. UNCHANGED <<slots, enc, toldEnc>> /\ settling' = None
    BY <1>7 DEF CmdConnect, CancelCycle
  <2>2. unsure \subseteq unsure'
    BY <1>7 DEF CmdConnect
  <2>3. None \notin enc
    BY NoneIsNoSlot
  <2>4. QED
    BY <2>1, <2>2, <2>3
<1>8. CASE CreateFails
  BY <1>8 DEF CreateFails, Rearm
<1>9. CASE CreateSucceeds
  BY <1>9 DEF CreateSucceeds, Rearm
<1>10. CASE Settle
  <2>1. UNCHANGED <<slots, enc, toldEnc>>
    BY <1>10 DEF Settle
  <2>2. settling' = None /\ unsure' = unsure \ {settling}
    BY <1>10, Settled
  <2>3. settling \notin Free
    OBVIOUS
  <2>4. QED
    BY <1>a, <2>1, <2>2, <2>3
<1>11. CASE Retry
  BY <1>11 DEF Retry, Granted, Refused, MayCreate, Fault
<1>12. ASSUME NEW s \in Slot, NEW r \in BOOLEAN, Drop(s, r) PROVE
            EncAfterConnected'
  <2>1. slots' = [slots EXCEPT ![s] = None] /\ enc' = enc \ {s}
    BY <1>12 DEF Drop
  <2>2. Free' = Free \cup {s}
    BY <2>1
  <2>3. CASE s = settling
    <3>1. settling' = None /\ UNCHANGED <<toldEnc, unsure>>
      BY <1>12, <2>3 DEF Drop, WasSettling
    <3>2. QED
      BY <1>a, <2>1, <2>2, <2>3, <3>1
  <2>4. CASE s # settling
    <3>1. /\ settling' = settling
          /\ toldEnc' = toldEnc \ {s} /\ unsure' = unsure \ {s}
      BY <1>12, <2>4 DEF Drop, WasSettling
    <3>2. QED
      BY <2>1, <2>2, <3>1
  <2>5. QED
    BY <2>3, <2>4
<1>13. ASSUME NEW s \in Slot, Encrypted(s) PROVE EncAfterConnected'
  <2>1. slots' = slots /\ slots[s] # None /\ enc' = enc \cup {s} /\ toldEnc' = toldEnc \cup {s}
    BY <1>13 DEF Encrypted
  <2>2. SettleReport(s)
    BY <1>13 DEF Encrypted, SettleNow
  <2>3. /\ settling' = IF s = settling THEN None ELSE settling
        /\ unsure' = IF s = settling THEN unsure \ {s} ELSE unsure
    BY <2>2, Reported
  <2>4. s \notin Free /\ s # None
    BY <2>1, NoneIsNoSlot
  <2>5. QED
    BY <1>a, <2>1, <2>3, <2>4
<1>14. ASSUME NEW s \in Slot, NotBonded(s) PROVE EncAfterConnected'
  <2>1. slots' = slots /\ slots[s] # None /\ enc' \subseteq enc /\ toldEnc' = toldEnc
    BY <1>14 DEF NotBonded
  <2>2. SettleReport(s)
    BY <1>14 DEF NotBonded, SettleNow
  <2>3. /\ settling' = IF s = settling THEN None ELSE settling
        /\ unsure' = IF s = settling THEN unsure \ {s} ELSE unsure
    BY <2>2, Reported
  <2>4. s \notin Free /\ s # None
    BY <2>1, NoneIsNoSlot
  <2>5. QED
    BY <1>a, <2>1, <2>3, <2>4
<1>15. ASSUME NEW s \in Slot, PairingComplete(s) PROVE EncAfterConnected'
  <2>1. slots' = slots /\ slots[s] # None /\ enc' = enc \cup {s} /\ toldEnc' = toldEnc
    BY <1>15 DEF PairingComplete
  <2>2. SettleReport(s)
    BY <1>15 DEF PairingComplete
  <2>3. /\ settling' = IF s = settling THEN None ELSE settling
        /\ unsure' = IF s = settling THEN unsure \ {s} ELSE unsure
    BY <2>2, Reported
  <2>4. s \notin Free /\ s # None
    BY <2>1, NoneIsNoSlot
  <2>5. QED
    BY <1>a, <2>1, <2>3, <2>4
<1>16. ASSUME NEW P \in {{p} : p \in Peer} \cup {Peer}, CmdUnpair(P) PROVE
            EncAfterConnected'
  BY <1>16 DEF CmdUnpair, Cmd, RefreshBonds
<1>17. CASE CmdList
  BY <1>17 DEF CmdList, Cmd
<1>18. CASE UNCHANGED vars
  BY <1>18 DEF vars
<1> QED
  BY <1>1, <1>2, <1>3, <1>4, <1>5, <1>6, <1>7, <1>8, <1>9, <1>10, <1>11,
      <1>12, <1>13, <1>14, <1>15, <1>16, <1>17, <1>18 DEF Next, Discovery,
      Create

\* Whatever ends the work of the engine re-arms it, hands over to a user of the
\* radio that will, or sets stalled.
LEMMA StallStep == CentralInv /\ [Next]_vars => NoStall'
<1> SUFFICES ASSUME CentralInv, [Next]_vars PROVE NoStall'
  OBVIOUS
<1> USE NoneAssumption DEF CentralInv, NoStall, EngineAtWork,
    PendingProgress, Bookkeeping, Wanted, HasConn, Connected, Slot, Free,
    scan, conn, auto, table, host, view, bound, cycle
<1>1. CASE CmdScanStart
  BY <1>1 DEF CmdScanStart, Cmd, StopAuto, ScanGranted, ScanRefused,
      ScanLeft, Fault
<1>2. CASE CmdScanStop
  BY <1>2 DEF CmdScanStop, Cmd, Rearm
<1>3. CASE ScanTimeout
  BY <1>3 DEF ScanTimeout, Rearm
<1>4. CASE AutoWork
  <2>1. UNCHANGED <<enabled, Wanted, Free, creating, pending, scanTimer,
                    autoConn, stalled>>
    BY <1>4 DEF AutoWork
  <2>2. CASE Wanted = {} \/ Free = {}
    BY <2>1, <2>2
  <2>3. CASE ~(Wanted = {} \/ Free = {}) /\ autoScan
    BY <1>4, <2>3 DEF AutoWork
  <2>4. CASE ~(Wanted = {} \/ Free = {}) /\ ~autoScan
    BY <1>4, <2>4 DEF AutoWork
  <2>5. QED
    BY <2>2, <2>3, <2>4
<1>5. ASSUME NEW p \in Peer, IgnoreAdvert(p) PROVE NoStall'
  BY <1>5 DEF IgnoreAdvert, Report
<1>6. ASSUME NEW p \in Peer, Advert(p) PROVE NoStall'
  BY <1>6 DEF Advert, Report, Acceptable, Granted, Refused, MayCreate,
      Fault, Rearm
<1>7. ASSUME NEW p \in Peer, CmdConnect(p) PROVE NoStall'
  BY <1>7 DEF CmdConnect, Cmd, StopAuto, ScanLeft, CancelCycle, Granted,
      Refused, MayCreate, Fault
<1>8. CASE CreateFails
  BY <1>8 DEF CreateFails, EndCycle, Rearm
<1>9. CASE CreateSucceeds
  BY <1>9 DEF CreateSucceeds, Rearm
<1>10. CASE Settle
  BY <1>10 DEF Settle, SettleReport, ReportConnected, EndCycle, Rearm
<1>11. CASE Retry
  BY <1>11 DEF Retry, Granted, Refused, MayCreate, Fault, EndCycle
<1>12. ASSUME NEW s \in Slot, NEW r \in BOOLEAN, Drop(s, r) PROVE NoStall'
  BY <1>12 DEF Drop, WasSettling, MayRetry, EndCycle, Rearm
<1>13. ASSUME NEW s \in Slot, Encrypted(s) PROVE NoStall'
  BY <1>13 DEF Encrypted, SettleNow, SettleReport, ReportConnected,
      EndCycle, Rearm
<1>14. ASSUME NEW s \in Slot, NotBonded(s) PROVE NoStall'
  BY <1>14 DEF NotBonded, SettleNow, SettleReport, ReportConnected,
      EndCycle, Rearm
<1>15. ASSUME NEW s \in Slot, PairingComplete(s) PROVE NoStall'
  BY <1>15 DEF PairingComplete, SettleReport, ReportConnected, EndCycle,
      RefreshBonds
<1>16. ASSUME NEW P \in {{p} : p \in Peer} \cup {Peer}, CmdUnpair(P) PROVE
            NoStall'
  BY <1>16 DEF CmdUnpair, Cmd, RefreshBonds
<1>17. CASE CmdList
  BY <1>17 DEF CmdList, Cmd
<1>18. CASE UNCHANGED vars
  BY <1>18 DEF vars
<1> QED
  BY <1>1, <1>2, <1>3, <1>4, <1>5, <1>6, <1>7, <1>8, <1>9, <1>10, <1>11,
      <1>12, <1>13, <1>14, <1>15, <1>16, <1>17, <1>18 DEF Next, Discovery,
      Create

\* The facts the other lemmas take from Bookkeeping.
LEMMA BookStep == CentralInv /\ [Next]_vars => Bookkeeping'
<1> SUFFICES ASSUME CentralInv, [Next]_vars PROVE Bookkeeping'
  OBVIOUS
<1>a. None \notin toldEnc
  BY NoneIsNoSlot DEF CentralInv, TypeOK, TableOK
<1> USE NoneAssumption DEF CentralInv, TypeOK, DataOK, TableOK,
    PendingOwnsCreate, EncAfterConnected, PendingProgress,
    Bookkeeping, Connected, Slot, Free, scan, conn, auto, table, host, view, bound, cycle
<1>1. CASE CmdScanStart
  BY <1>1 DEF CmdScanStart, Cmd, StopAuto, ScanGranted, ScanRefused,
      ScanLeft, Fault
<1>2. CASE CmdScanStop
  BY <1>2 DEF CmdScanStop, Cmd, Rearm
<1>3. CASE ScanTimeout
  BY <1>3 DEF ScanTimeout, Rearm
<1>4. CASE AutoWork
  BY <1>4 DEF AutoWork, Busy, Wanted, HasConn, ScanGranted, ScanRefused,
      Fault
<1>5. ASSUME NEW p \in Peer, IgnoreAdvert(p) PROVE Bookkeeping'
  BY <1>5 DEF IgnoreAdvert, Report
<1>6. ASSUME NEW p \in Peer, Advert(p) PROVE Bookkeeping'
  BY <1>6 DEF Advert, Report, Acceptable, Granted, Refused, MayCreate,
      Fault, Rearm
<1>7. ASSUME NEW p \in Peer, CmdConnect(p) PROVE Bookkeeping'
  <2>1. UNCHANGED <<slots, toldEnc, autoConn>> /\ target' = p /\ p # None
    BY <1>7 DEF CmdConnect
  <2>2. settling' = None /\ ~retryTimer' /\ None \notin toldEnc
    BY <1>7, NoneIsNoSlot DEF CmdConnect, CancelCycle
  <2>3. \/ /\ creating = None /\ creating' = p
           /\ Free # {} /\ p \notin Connected
        \/ creating' = creating
    BY <1>7 DEF CmdConnect, Granted, Refused, MayCreate
  <2>4. QED
    BY <2>1, <2>2, <2>3
<1>8. CASE CreateFails
  BY <1>8 DEF CreateFails, Rearm
<1>9. CASE CreateSucceeds
  BY <1>9 DEF CreateSucceeds, Rearm
<1>10. CASE Settle
  <2>1. UNCHANGED <<slots, toldEnc, creating, target, attempts, autoConn, retryTimer>>
    BY <1>10 DEF Settle
  <2>2. settling' = None
    BY <1>10, Settled
  <2>3. pending' = pending \/ pending' = FALSE
    BY <1>10 DEF Settle, SettleReport
  <2>4. QED
    BY <1>a, <2>1, <2>2, <2>3
<1>11. CASE Retry
  BY <1>11 DEF Retry, Granted, Refused, MayCreate, Fault, Answered
<1>12. ASSUME NEW s \in Slot, NEW r \in BOOLEAN, Drop(s, r) PROVE
            Bookkeeping'
  <2>1. /\ slots' = [slots EXCEPT ![s] = None]
        /\ UNCHANGED <<creating, target, attempts, autoConn>>
    BY <1>12 DEF Drop
  <2>2. Free' = Free \cup {s} /\ Connected' \subseteq Connected
    BY <2>1
  <2>3. CASE s = settling
    <3>1. settling' = None /\ toldEnc' = toldEnc
      BY <1>12, <2>3 DEF Drop, WasSettling
    <3>2. \/ pending /\ pending' = pending /\ attempts < MaxAttempts
          \/ pending' = FALSE /\ retryTimer' = retryTimer
      BY <1>12, <2>3 DEF Drop, WasSettling, MayRetry
    <3>3. QED
      BY <1>a, <2>1, <2>2, <3>1, <3>2
  <2>4. CASE s # settling
    <3>1. /\ settling' = settling /\ pending' = pending
          /\ retryTimer' = retryTimer
          /\ toldEnc' = toldEnc \ {s} /\ unsure' = unsure \ {s}
      BY <1>12, <2>4 DEF Drop, WasSettling
    <3>2. QED
      BY <2>1, <2>2, <2>4, <3>1
  <2>5. QED
    BY <2>3, <2>4
<1>13. ASSUME NEW s \in Slot, Encrypted(s) PROVE Bookkeeping'
  <2>1. /\ UNCHANGED <<slots, creating, target, attempts, autoConn, retryTimer>>
        /\ toldEnc' = toldEnc \cup {s}
    BY <1>13 DEF Encrypted
  <2>2. SettleReport(s)
    BY <1>13 DEF Encrypted, SettleNow
  <2>3. /\ settling' = IF s = settling THEN None ELSE settling
        /\ unsure' = IF s = settling THEN unsure \ {s} ELSE unsure
    BY <2>2, Reported
  <2>4. pending' = pending \/ pending' = FALSE
    BY <2>2 DEF SettleReport
  <2>5. QED
    BY <1>a, <2>1, <2>3, <2>4
<1>14. ASSUME NEW s \in Slot, NotBonded(s) PROVE Bookkeeping'
  <2>1. /\ UNCHANGED <<slots, creating, target, attempts, autoConn, retryTimer>>
        /\ toldEnc' = toldEnc
    BY <1>14 DEF NotBonded
  <2>2. SettleReport(s)
    BY <1>14 DEF NotBonded, SettleNow
  <2>3. /\ settling' = IF s = settling THEN None ELSE settling
        /\ unsure' = IF s = settling THEN unsure \ {s} ELSE unsure
    BY <2>2, Reported
  <2>4. pending' = pending \/ pending' = FALSE
    BY <2>2 DEF SettleReport
  <2>5. QED
    BY <1>a, <2>1, <2>3, <2>4
<1>15. ASSUME NEW s \in Slot, PairingComplete(s) PROVE Bookkeeping'
  <2>1. /\ UNCHANGED <<slots, creating, target, attempts, autoConn, retryTimer>>
        /\ toldEnc' = toldEnc
    BY <1>15 DEF PairingComplete
  <2>2. SettleReport(s)
    BY <1>15 DEF PairingComplete
  <2>3. /\ settling' = IF s = settling THEN None ELSE settling
        /\ unsure' = IF s = settling THEN unsure \ {s} ELSE unsure
    BY <2>2, Reported
  <2>4. pending' = pending \/ pending' = FALSE
    BY <2>2 DEF SettleReport
  <2>5. QED
    BY <1>a, <2>1, <2>3, <2>4
<1>16. ASSUME NEW P \in {{p} : p \in Peer} \cup {Peer}, CmdUnpair(P) PROVE
            Bookkeeping'
  BY <1>16 DEF CmdUnpair, Cmd, RefreshBonds
<1>17. CASE CmdList
  BY <1>17 DEF CmdList, Cmd
<1>18. CASE UNCHANGED vars
  BY <1>18 DEF vars
<1> QED
  BY <1>1, <1>2, <1>3, <1>4, <1>5, <1>6, <1>7, <1>8, <1>9, <1>10, <1>11,
      <1>12, <1>13, <1>14, <1>15, <1>16, <1>17, <1>18 DEF Next, Discovery,
      Create

\* A cycle that ends takes its attempt with it.
LEMMA OpenStep == CentralInv /\ [Next]_vars => AttemptOpen'
<1> SUFFICES ASSUME CentralInv, [Next]_vars PROVE AttemptOpen'
  OBVIOUS
<1> USE NoneAssumption DEF CentralInv, TypeOK, FlagsOK, DataOK,
    PendingProgress, Bookkeeping, AttemptOpen, Slot, Free, scan, conn, auto, table, host, view, bound, cycle
<1>1. CASE CmdScanStart
  BY <1>1 DEF CmdScanStart, Cmd, StopAuto, ScanGranted, ScanRefused,
      ScanLeft, Fault
<1>2. CASE CmdScanStop
  BY <1>2 DEF CmdScanStop, Cmd, Rearm
<1>3. CASE ScanTimeout
  BY <1>3 DEF ScanTimeout, Rearm
<1>4. CASE AutoWork
  BY <1>4 DEF AutoWork, Busy, Wanted, HasConn, ScanGranted, ScanRefused,
      Fault
<1>5. ASSUME NEW p \in Peer, IgnoreAdvert(p) PROVE AttemptOpen'
  BY <1>5 DEF IgnoreAdvert, Report
<1>6. ASSUME NEW p \in Peer, Advert(p) PROVE AttemptOpen'
  BY <1>6 DEF Advert, Report, Acceptable, Granted, Refused, MayCreate,
      Fault, Rearm
<1>7. ASSUME NEW p \in Peer, CmdConnect(p) PROVE AttemptOpen'
  BY <1>7 DEF CmdConnect, NewCycle, Cmd, StopAuto, ScanLeft, CancelCycle, Granted,
      Refused, MayCreate, Fault
<1>8. CASE CreateFails
  BY <1>8 DEF CreateFails, EndCycle, Rearm
<1>9. CASE CreateSucceeds
  BY <1>9 DEF CreateSucceeds, Rearm
<1>10. CASE Settle
  BY <1>10 DEF Settle, SettleReport, ReportConnected, EndCycle, Rearm
<1>11. CASE Retry
  <2>1. asked' = asked /\ autoConn' = autoConn
    BY <1>11 DEF Retry, EndCycle
  <2>2. \/ pending' = pending
        \/ creating' = creating
    BY <1>11 DEF Retry, Refused
  <2>3. pending /\ creating = None
    BY <1>11 DEF Retry
  <2>4. QED
    BY <2>1, <2>2, <2>3
<1>12. ASSUME NEW s \in Slot, NEW r \in BOOLEAN, Drop(s, r) PROVE
            AttemptOpen'
  <2>1. UNCHANGED <<asked, creating, autoConn>>
    BY <1>12 DEF Drop, EndCycle
  <2>2. CASE s = settling
    BY <2>1, <2>2, NoneIsNoSlot
  <2>3. CASE s # settling
    <3>1. pending' = pending
      BY <1>12, <2>3 DEF Drop, WasSettling
    <3>2. QED
      BY <2>1, <3>1
  <2>4. QED
    BY <2>2, <2>3
<1>13. ASSUME NEW s \in Slot, Encrypted(s) PROVE AttemptOpen'
  <2>1. creating' = creating /\ autoConn' = autoConn
    BY <1>13 DEF Encrypted
  <2>2. SettleReport(s)
    BY <1>13 DEF Encrypted, SettleNow
  <2>3. asked' = asked
    BY <2>2 DEF SettleReport, EndCycle
  <2>4. CASE s = settling
    BY <2>1, <2>4, NoneIsNoSlot
  <2>5. CASE s # settling
    <3>1. pending' = pending
      BY <2>2, <2>5 DEF SettleReport
    <3>2. QED
      BY <2>1, <2>3, <3>1
  <2>6. QED
    BY <2>4, <2>5
<1>14. ASSUME NEW s \in Slot, NotBonded(s) PROVE AttemptOpen'
  <2>1. creating' = creating /\ autoConn' = autoConn
    BY <1>14 DEF NotBonded
  <2>2. SettleReport(s)
    BY <1>14 DEF NotBonded, SettleNow
  <2>3. asked' = asked
    BY <2>2 DEF SettleReport, EndCycle
  <2>4. CASE s = settling
    BY <2>1, <2>4, NoneIsNoSlot
  <2>5. CASE s # settling
    <3>1. pending' = pending
      BY <2>2, <2>5 DEF SettleReport
    <3>2. QED
      BY <2>1, <2>3, <3>1
  <2>6. QED
    BY <2>4, <2>5
<1>15. ASSUME NEW s \in Slot, PairingComplete(s) PROVE AttemptOpen'
  <2>1. creating' = creating /\ autoConn' = autoConn
    BY <1>15 DEF PairingComplete
  <2>2. SettleReport(s)
    BY <1>15 DEF PairingComplete
  <2>3. asked' = asked
    BY <2>2 DEF SettleReport, EndCycle
  <2>4. CASE s = settling
    BY <2>1, <2>4, NoneIsNoSlot
  <2>5. CASE s # settling
    <3>1. pending' = pending
      BY <2>2, <2>5 DEF SettleReport
    <3>2. QED
      BY <2>1, <2>3, <3>1
  <2>6. QED
    BY <2>4, <2>5
<1>16. ASSUME NEW P \in {{p} : p \in Peer} \cup {Peer}, CmdUnpair(P) PROVE
            AttemptOpen'
  BY <1>16 DEF CmdUnpair, Cmd, RefreshBonds
<1>17. CASE CmdList
  BY <1>17 DEF CmdList, Cmd, Answered
<1>18. CASE UNCHANGED vars
  BY <1>18 DEF vars
<1> QED
  BY <1>1, <1>2, <1>3, <1>4, <1>5, <1>6, <1>7, <1>8, <1>9, <1>10, <1>11,
      <1>12, <1>13, <1>14, <1>15, <1>16, <1>17, <1>18 DEF Next, Discovery,
      Create

\* What is announced as encrypted is in the table and does not settle, so it has been
\* announced.
LEMMA ViewsAgree == CentralInv /\ [Next]_vars => ViewMatches'
<1> SUFFICES ASSUME CentralInv, [Next]_vars PROVE ViewMatches'
  OBVIOUS
<1>1. ToldTable'
  BY ViewStep
<1>2. EncAfterConnected' /\ Bookkeeping' /\ TableOK'
  BY EncStep, BookStep, TableStep
<1>3. ASSUME NEW s \in Slot \ unsure', s \in toldEnc' PROVE told'[s] # None
  <2>1. s # settling'
    BY <1>2, <1>3 DEF Bookkeeping
  <2>2. slots'[s] # None
    BY <1>2, <1>3 DEF EncAfterConnected, Free, Slot
  <2>3. told'[s] = slots'[s]
    BY <1>1, <1>3, <2>1 DEF ToldTable, Slot
  <2>4. QED
    BY <2>2, <2>3
<1>4. QED
  BY <1>1, <1>3 DEF ViewMatches, ToldTable, Slot

\* The initial states satisfy the invariant.
LEMMA InitInv == Init => CentralInv
<1> SUFFICES ASSUME Init PROVE CentralInv
  OBVIOUS
<1> USE NoneAssumption, AttemptAssumption DEF Init
<1>1. TypeOK
  <2>1. FlagsOK
    BY DEF FlagsOK
  <2>2. DataOK
    BY DEF DataOK
  <2>3. TableOK
    BY DEF TableOK
  <2>4. QED
    BY <2>1, <2>2, <2>3 DEF TypeOK
<1>2. ScannerOwned /\ PendingOwnsCreate /\ PendingProgress /\ SingleVerdict
  BY DEF ScannerOwned, PendingOwnsCreate, PendingProgress, SingleVerdict
<1>3. ViewMatches /\ EncAfterConnected /\ Bookkeeping /\ AttemptOpen
  BY DEF ViewMatches, EncAfterConnected, Bookkeeping, AttemptOpen, Slot
<1>4. NoStall
  BY DEF NoStall, EngineAtWork, Wanted
<1>5. QED
  BY <1>1, <1>2, <1>3, <1>4 DEF CentralInv

\* CentralInv holds in every reachable state of ble_central.c.
THEOREM Invariance == Spec => []CentralInv
<1>1. CentralInv /\ [Next]_vars => CentralInv'
  BY FlagsStep, DataStep, TableStep, ScannerStep, PendingStep, ProgressStep,
     VerdictStep, ViewsAgree, EncStep, StallStep, BookStep, OpenStep
  DEF CentralInv, TypeOK
<1>2. QED
  BY InitInv, <1>1, PTL DEF Spec

\* Every flag, timer and table of ble_central.c keeps its type; in particular a cycle
\* never makes more than CONNECT_MAX_ATTEMPTS attempts.
THEOREM TypesCorrect == Spec => []TypeOK
  BY Invariance, PTL DEF CentralInv

\* Discovery scan and background scan never get in each other's way.
THEOREM ScannerTheorem == Spec => []ScannerOwned
  BY Invariance, PTL DEF CentralInv

\* A connect cycle is never stuck: connect_pending always has an attempt, a
\* settle window or a retry timer behind it.
THEOREM ProgressTheorem == Spec => []PendingProgress
  BY Invariance, PTL DEF CentralInv

\* An accepted connect command is answered once, when its cycle ends, and besides
\* that exactly once by every list command that falls into a settle window of it.
THEOREM VerdictTheorem == Spec => []SingleVerdict
  BY Invariance, PTL DEF CentralInv

\* Apart from the two known gaps, the ESP32's view of the connections is the
\* connection table, and no link is announced as encrypted before it is announced.
THEOREM ViewTheorem == Spec => []ViewMatches
  BY Invariance, PTL DEF CentralInv

\* Auto-connect stops only when it has nothing to do, or after a refused
\* command.
THEOREM StallTheorem == Spec => []NoStall
  BY Invariance, PTL DEF CentralInv
=============================================================================
