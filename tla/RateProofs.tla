---------------------------- MODULE RateProofs -----------------------------
(* The bound that the rate limits of the runtime host give, for every set of *)
(* callers, profiles and limits: first that a call and a new instance keep   *)
(* the windows fair, then every step, and last what a fair window allows.    *)
EXTENDS RuntimeProofs

(* How long a prover may take over a step.                                   *)
USE SMTT(60), ZenonT(60)

-----------------------------------------------------------------------------
(* Counting calls in windows                                                 *)

(* The elements of T can be numbered from 1 to n.                            *)
AtMost(T, n) == \E f \in [T -> 1 .. n] : \A x, y \in T : f[x] = f[y] => x = y

(* A part of a set is no larger than it.                                     *)
LEMMA AtMostOfPart ==
    ASSUME NEW T, NEW n \in Int, AtMost(T, n), NEW U, U \subseteq T, NEW m \in Int, n <= m
    PROVE  AtMost(U, m)
  <1>1. PICK f \in [T -> 1 .. n] : \A x, y \in T : f[x] = f[y] => x = y
    BY DEF AtMost
  <1>2. PICK g : g = [x \in U |-> f[x]]
    BY Zenon
  <1>3. g \in [U -> 1 .. m] /\ \A x, y \in U : g[x] = g[y] => x = y
    BY <1>1, <1>2
  <1> QED
    BY <1>3 DEF AtMost

(* The sizes of two sets add up to at least that of their union.             *)
LEMMA AtMostOfBoth ==
    ASSUME NEW T, NEW n \in Nat, AtMost(T, n), NEW U, NEW m \in Nat, AtMost(U, m)
    PROVE  AtMost(T \cup U, n + m)
  <1>1. PICK f \in [T -> 1 .. n] : \A x, y \in T : f[x] = f[y] => x = y
    BY DEF AtMost
  <1>2. PICK g \in [U -> 1 .. m] : \A x, y \in U : g[x] = g[y] => x = y
    BY DEF AtMost
  <1>3. PICK h : h = [x \in T \cup U |-> IF x \in T THEN f[x] ELSE n + g[x]]
    BY Zenon
  <1>4. h \in [T \cup U -> 1 .. n + m]
    BY <1>1, <1>2, <1>3
  <1>5. \A x, y \in T \cup U : h[x] = h[y] => x = y
    BY <1>1, <1>2, <1>3
  <1> QED
    BY <1>4, <1>5 DEF AtMost

(* Nothing is no more than anything.                                         *)
LEMMA AtMostOfNothing ==
    ASSUME NEW n \in Int PROVE AtMost({}, n)
  <1>1. PICK f : f = [x \in {} |-> 1]
    OBVIOUS
  <1>2. f \in [{} -> 1 .. n] /\ \A x, y \in {} : f[x] = f[y] => x = y
    BY <1>1
  <1> QED
    BY Zenon, <1>2 DEF AtMost

(* One more element is one more at most.                                     *)
LEMMA AtMostOneMore ==
    ASSUME NEW T, NEW n \in Nat, AtMost(T, n), NEW x
    PROVE  AtMost({x}, 1) /\ AtMost(T \cup {x}, n + 1)
  <1>1. PICK f : f = [y \in {x} |-> 1]
    BY Zenon
  <1>2. f \in [{x} -> 1 .. 1] /\ \A y, z \in {x} : f[y] = f[z] => y = z
    BY <1>1
  <1>3. AtMost({x}, 1)
    BY <1>2 DEF AtMost
  <1> QED
    BY <1>3, AtMostOfBoth

(* The calls of S that passed in the times from lo on, or from lo to hi.     *)
From(S, q, lo) == {n \in S : q[n].at >= lo}
Between(S, q, lo, hi) == {n \in S : q[n].at >= lo /\ q[n].at <= hi}

(* S is what passed a limit of m calls so far, w the window of its scope:    *)
(* no call of S is older than the clock or younger than the window; those in *)
(* the window are no more than were counted, nor than m; one call of the     *)
(* count opened the window; and what passed in the WINDOW ticks before the   *)
(* window is short of m by the call that opened the one before.  A profile   *)
(* may count in a window that a call under another profile has opened.       *)
WindowIsFair(S, q, w, m) ==
    /\ w.start <= clock
    /\ From(S, q, w.start + WINDOW) = {}
    /\ AtMost(From(S, q, w.start), w.count)
    /\ AtMost(From(S, q, w.start), m)
    /\ AtMost(From(S, q, w.start + 1), w.count - 1)
    /\ AtMost(From(S, q, w.start + 1), m - 1)
    /\ \A t \in Nat : t + WINDOW > w.start => AtMost(Between(S, q, t, w.start - 1), m - 1)

RateIsFair(S, q, w, m) ==
    /\ \A n \in S : q[n].at \in Nat /\ q[n].at <= clock
    /\ m = 0 \/ w = None => S = {}
    /\ m # 0 /\ w # None => WindowIsFair(S, q, w, m)
    /\ m # 0 => \A t \in Nat : AtMost(Between(S, q, t, t + WINDOW - 1), 2 * m - 1)

(* Nothing passed yet: no window that opens is unfair.                       *)
LEMMA NothingIsFair ==
    ASSUME NEW q, NEW w \in Windows \cup {None}, NEW m \in Nat, w # None => w.start <= clock
    PROVE  RateIsFair({}, q, w, m)
  <1>1. \A n \in Int : n >= 0 => AtMost({}, n)
    BY AtMostOfNothing
  <1>2. \A lo, hi : From({}, q, lo) = {} /\ Between({}, q, lo, hi) = {}
    BY DEF From, Between
  <1>3. ASSUME m # 0, w # None PROVE WindowIsFair({}, q, w, m)
    <2>1. w.count - 1 \in Int /\ w.count - 1 >= 0 /\ w.count \in Int /\ w.count >= 0
      BY <1>3 DEF Windows
    <2>2. m - 1 \in Int /\ m - 1 >= 0 /\ m \in Int /\ m >= 0
      BY <1>3
    <2>3. AtMost({}, w.count) /\ AtMost({}, w.count - 1) /\ AtMost({}, m) /\ AtMost({}, m - 1)
      BY <1>1, <2>1, <2>2
    <2> QED
      BY Zenon, <1>2, <1>3, <2>3 DEF WindowIsFair
  <1>4. m # 0 => 2 * m - 1 \in Int /\ 2 * m - 1 >= 0
    OBVIOUS
  <1> QED
    BY <1>1, <1>2, <1>3, <1>4 DEF RateIsFair

(* Only the times of the calls matter.                                       *)
LEMMA SameTimesAreFair ==
    ASSUME NEW S, NEW q, NEW w, NEW m, RateIsFair(S, q, w, m),
           NEW q2, \A n \in S : q2[n].at = q[n].at
    PROVE  RateIsFair(S, q2, w, m)
  <1>1. \A lo, hi : From(S, q2, lo) = From(S, q, lo) /\ Between(S, q2, lo, hi) = Between(S, q, lo, hi)
    BY DEF From, Between
  <1> QED
    BY <1>1 DEF RateIsFair, WindowIsFair

(* A call under another profile is counted in the window.                    *)
LEMMA CountingIsFair ==
    ASSUME clock \in Nat, NEW S, NEW q, NEW w \in Windows \cup {None}, NEW m \in Nat,
           RateIsFair(S, q, w, m), NEW v, v = Counted(w)
    PROVE  RateIsFair(S, q, v, m)
  <1>0. WINDOW \in Nat /\ WINDOW > 0
    BY BoundsAreNumbers
  <1> USE <1>0
  <1>1. v \in Windows /\ v # None
    BY NoneIsNoWindow DEF Counted, Windows
  <1>2. CASE m = 0
    BY <1>2 DEF RateIsFair
  <1>3. CASE m # 0 /\ w = None
    <2>1. S = {} /\ v.start <= clock
      BY <1>3 DEF RateIsFair, Counted
    <2> QED
      BY <1>1, <2>1, NothingIsFair
  <1>4. CASE m # 0 /\ w # None /\ Expired(w)
    <2>1. WindowIsFair(S, q, w, m) /\ w.start \in Nat /\ clock >= w.start + WINDOW
      BY <1>4 DEF RateIsFair, Expired, Windows
    <2>2. v.start = clock /\ v.count = 1
      BY <1>4 DEF Counted
    <2>3. \A n \in S : q[n].at \in Nat /\ q[n].at <= clock /\ q[n].at < w.start + WINDOW
      BY <2>1 DEF RateIsFair, WindowIsFair, From
    <2>4. From(S, q, clock) = {} /\ From(S, q, clock + 1) = {} /\ From(S, q, clock + WINDOW) = {}
      BY <2>1, <2>3 DEF From
    <2>5. AtMost({}, 1) /\ AtMost({}, m) /\ AtMost({}, 1 - 1) /\ AtMost({}, m - 1)
      BY <1>4, AtMostOfNothing
    <2>6. ASSUME NEW t \in Nat, t + WINDOW > clock PROVE AtMost(Between(S, q, t, clock - 1), m - 1)
      <3>1. Between(S, q, t, clock - 1) \subseteq From(S, q, w.start + 1)
        BY <2>1, <2>3, <2>6 DEF Between, From
      <3>2. AtMost(From(S, q, w.start + 1), m - 1)
        BY <2>1 DEF WindowIsFair
      <3> QED
        BY <3>1, <3>2, AtMostOfPart
    <2>7. WindowIsFair(S, q, v, m)
      BY <2>2, <2>4, <2>5, <2>6 DEF WindowIsFair
    <2> QED
      BY <1>1, <1>4, <2>7 DEF RateIsFair
  <1>5. CASE m # 0 /\ w # None /\ ~Expired(w)
    <2>1. WindowIsFair(S, q, w, m) /\ w.start \in Nat /\ w.count \in Nat
      BY <1>5 DEF RateIsFair, Windows
    <2>2. v.start = w.start /\ v.count = w.count + 1
      BY <1>5 DEF Counted
    <2>3. AtMost(From(S, q, w.start), w.count) /\ AtMost(From(S, q, w.start + 1), w.count - 1)
      BY <2>1 DEF WindowIsFair
    <2>4. AtMost(From(S, q, w.start), w.count + 1) /\ AtMost(From(S, q, w.start + 1), (w.count + 1) - 1)
      BY <2>1, <2>3, AtMostOfPart
    <2>5. WindowIsFair(S, q, v, m)
      BY <2>1, <2>2, <2>4 DEF WindowIsFair
    <2> QED
      BY <1>1, <1>5, <2>5 DEF RateIsFair
  <1> QED
    BY <1>2, <1>3, <1>4, <1>5

(* A call that passes the check is counted in the window, and is in time.    *)
LEMMA PassingIsFair ==
    ASSUME clock \in Nat, NEW S, NEW q, NEW w \in Windows \cup {None}, NEW m \in Nat,
           RateIsFair(S, q, w, m), InWindow(w) < m, NEW i, q[i].at = clock,
           NEW T, \A n \in T : n \in S \/ n = i, NEW v, v = Counted(w)
    PROVE  RateIsFair(T, q, v, m)
  <1>0. WINDOW \in Nat /\ WINDOW > 0
    BY BoundsAreNumbers
  <1> USE <1>0
  <1>1. v \in Windows /\ v # None
    BY NoneIsNoWindow DEF Counted, Windows
  <1>2. m >= 1 /\ m # 0
    BY DEF InWindow, Windows
  <1>3. \A n \in T : q[n].at \in Nat /\ q[n].at <= clock
    BY DEF RateIsFair
  <1>4. AtMost({i}, 1) /\ AtMost({}, 0)
    <2>1. AtMost({}, 0) /\ 0 \in Nat
      BY AtMostOfNothing
    <2> QED
      BY Zenon, <2>1, AtMostOneMore
  <1>5. \A t \in Nat : AtMost(Between(S, q, t, t + WINDOW - 1), 2 * m - 1)
    BY <1>2 DEF RateIsFair
  <1>6. ASSUME NEW t \in Nat, t + WINDOW <= clock
        PROVE  AtMost(Between(T, q, t, t + WINDOW - 1), 2 * m - 1)
    <2>1. Between(T, q, t, t + WINDOW - 1) \subseteq Between(S, q, t, t + WINDOW - 1)
      BY <1>6 DEF Between
    <2> QED
      BY <1>2, <1>5, <2>1, AtMostOfPart
  <1>7. CASE w = None \/ Expired(w)
    <2>1. v.start = clock /\ v.count = 1
      BY <1>7 DEF Counted
    <2>2. \A n \in S : q[n].at \in Nat /\ q[n].at < clock
      <3>1. CASE w = None
        BY <3>1 DEF RateIsFair
      <3>2. CASE w # None /\ Expired(w)
        BY <1>2, <3>2 DEF RateIsFair, WindowIsFair, From, Expired, Windows
      <3> QED
        BY <1>7, <3>1, <3>2
    <2>3. ASSUME NEW t \in Nat, t + WINDOW > clock PROVE AtMost(Between(S, q, t, clock - 1), m - 1)
      <3>1. CASE w = None
        <4>1. Between(S, q, t, clock - 1) \subseteq {}
          BY <3>1 DEF RateIsFair, Between
        <4> QED
          BY <1>2, <1>4, <4>1, AtMostOfPart
      <3>2. CASE w # None /\ Expired(w)
        <4>1. WindowIsFair(S, q, w, m) /\ w.start \in Nat /\ clock >= w.start + WINDOW
          BY <1>2, <3>2 DEF RateIsFair, Expired, Windows
        <4>2. Between(S, q, t, clock - 1) \subseteq From(S, q, w.start + 1)
          BY <2>2, <2>3, <4>1 DEF Between, From
        <4>3. AtMost(From(S, q, w.start + 1), m - 1)
          BY <4>1 DEF WindowIsFair
        <4> QED
          BY <4>2, <4>3, AtMostOfPart
      <3> QED
        BY <1>7, <3>1, <3>2
    <2>4. /\ From(T, q, clock) \subseteq {i}
          /\ From(T, q, clock + 1) \subseteq {} /\ From(T, q, clock + WINDOW) = {}
      BY <1>3, <2>2 DEF From
    <2>5. /\ AtMost(From(T, q, clock), 1) /\ AtMost(From(T, q, clock), m)
          /\ AtMost(From(T, q, clock + 1), 1 - 1) /\ AtMost(From(T, q, clock + 1), m - 1)
      BY <1>2, <1>4, <2>4, AtMostOfPart
    <2>6. ASSUME NEW t \in Nat, t + WINDOW > clock PROVE AtMost(Between(T, q, t, clock - 1), m - 1)
      <3>1. Between(T, q, t, clock - 1) \subseteq Between(S, q, t, clock - 1)
        BY DEF Between
      <3> QED
        BY <2>3, <2>6, <3>1, AtMostOfPart
    <2>7. WindowIsFair(T, q, v, m)
      BY <2>1, <2>4, <2>5, <2>6 DEF WindowIsFair
    <2>8. ASSUME NEW t \in Nat, t + WINDOW > clock
          PROVE  AtMost(Between(T, q, t, t + WINDOW - 1), 2 * m - 1)
      <3>1. Between(T, q, t, t + WINDOW - 1) \subseteq Between(S, q, t, clock - 1) \cup {i}
        BY <2>2 DEF Between
      <3>2. AtMost(Between(S, q, t, clock - 1) \cup {i}, (m - 1) + 1)
        <4>1. m - 1 \in Nat /\ AtMost(Between(S, q, t, clock - 1), m - 1)
          BY <1>2, <2>3, <2>8
        <4> QED
          BY Zenon, <4>1, AtMostOneMore
      <3> QED
        BY <1>2, <3>1, <3>2, AtMostOfPart
    <2>9. \A t \in Nat : AtMost(Between(T, q, t, t + WINDOW - 1), 2 * m - 1)
      BY <1>6, <2>8
    <2> QED
      BY <1>1, <1>2, <1>3, <2>7, <2>9 DEF RateIsFair
  <1>8. CASE w # None /\ ~Expired(w)
    <2>1. v.start = w.start /\ v.count = w.count + 1 /\ w.start \in Nat /\ w.count \in Nat
      BY <1>8 DEF Counted, Windows
    <2>2. w.count < m /\ clock < w.start + WINDOW /\ w.start <= clock
      BY <1>2, <1>8, <2>1 DEF InWindow, Expired, RateIsFair, WindowIsFair
    <2>3. WindowIsFair(S, q, w, m)
      BY <1>2, <1>8 DEF RateIsFair
    <2>4. /\ From(T, q, w.start) \subseteq From(S, q, w.start) \cup {i}
          /\ From(T, q, w.start + 1) \subseteq From(S, q, w.start + 1) \cup {i}
          /\ From(T, q, w.start + WINDOW) \subseteq From(S, q, w.start + WINDOW)
      BY <2>1, <2>2 DEF From
    <2>5. /\ AtMost(From(S, q, w.start) \cup {i}, w.count + 1)
          /\ AtMost(From(S, q, w.start + 1) \cup {i}, (w.count - 1) + 1)
      <3>1. /\ w.count \in Nat /\ AtMost(From(S, q, w.start), w.count)
            /\ w.count - 1 \in Nat /\ AtMost(From(S, q, w.start + 1), w.count - 1)
        BY <1>8, <2>3 DEF WindowIsFair, Windows
      <3> QED
        BY Zenon, <3>1, AtMostOneMore
    <2>6. /\ AtMost(From(T, q, w.start), w.count + 1) /\ AtMost(From(T, q, w.start), m)
          /\ AtMost(From(T, q, w.start + 1), (w.count + 1) - 1)
          /\ AtMost(From(T, q, w.start + 1), m - 1)
      BY <2>1, <2>2, <2>4, <2>5, AtMostOfPart
    <2>7. ASSUME NEW t \in Nat, t + WINDOW > w.start PROVE AtMost(Between(T, q, t, w.start - 1), m - 1)
      <3>1. Between(T, q, t, w.start - 1) \subseteq Between(S, q, t, w.start - 1)
        BY <2>1, <2>2 DEF Between
      <3>2. AtMost(Between(S, q, t, w.start - 1), m - 1)
        BY <2>3, <2>7 DEF WindowIsFair
      <3> QED
        BY <3>1, <3>2, AtMostOfPart
    <2>8. From(T, q, w.start + WINDOW) = {}
      BY <2>3, <2>4 DEF WindowIsFair
    <2>9. WindowIsFair(T, q, v, m)
      BY <2>1, <2>2, <2>6, <2>7, <2>8 DEF WindowIsFair
    <2>10. ASSUME NEW t \in Nat, t + WINDOW > clock
           PROVE  AtMost(Between(T, q, t, t + WINDOW - 1), 2 * m - 1)
      <3>1. CASE t <= w.start
        <4>1. Between(T, q, t, t + WINDOW - 1)
                 \subseteq Between(T, q, t, w.start - 1) \cup From(T, q, w.start)
          BY <1>3, <2>1 DEF Between, From
        <4>2. AtMost(Between(T, q, t, w.start - 1), m - 1)
          BY <2>1, <2>2, <2>7, <2>10
        <4>3. AtMost(Between(T, q, t, w.start - 1) \cup From(T, q, w.start), (m - 1) + m)
          BY <1>2, <2>6, <4>2, AtMostOfBoth
        <4> QED
          BY <4>1, <4>3, AtMostOfPart
      <3>2. CASE t > w.start
        <4>1. Between(T, q, t, t + WINDOW - 1) \subseteq From(T, q, w.start + 1)
          BY <1>3, <2>1, <3>2 DEF Between, From
        <4> QED
          BY <1>2, <2>6, <4>1, AtMostOfPart
      <3> QED
        BY <2>1, <3>1, <3>2
    <2>11. \A t \in Nat : AtMost(Between(T, q, t, t + WINDOW - 1), 2 * m - 1)
      BY <1>6, <2>10
    <2> QED
      BY <1>1, <1>2, <1>3, <2>9, <2>11 DEF RateIsFair
  <1> QED
    BY <1>7, <1>8

(* What a profile's rate limits are.                                         *)
LEMMA LimitsAreRates ==
    ASSUME NEW p \in Profiles, NEW l \in p.rate_limits
    PROVE  l.capability \in Scopes /\ l.max \in Nat
  BY RatesAreRates

(* What passed under profile p and its limit l.                              *)
Matching(c, p, l) ==
    {n \in DOMAIN passed[c] : passed[c][n].profile = p /\ l.capability \in {None, passed[c][n].cap}}

Passes == [cap : Capabilities, at : Nat, profile : Profiles]

FairTo(c, p, l) ==
    RateIsFair(Matching(c, p, l), passed[c], store[c].windows[l.capability], l.max)

RatesInv ==
    /\ passed \in [Callers -> Seq(Passes)]
    /\ \A c \in Callers, p \in Profiles : \A l \in p.rate_limits : FairTo(c, p, l)

(* What was fair stays fair while time passes.                               *)
LEMMA LaterIsFair ==
    ASSUME clock \in Nat, clock' \in Nat, clock <= clock',
           NEW S, NEW q, NEW w \in Windows \cup {None}, NEW m \in Nat, RateIsFair(S, q, w, m)
    PROVE  RateIsFair(S, q, w, m)'
  BY DEF RateIsFair, WindowIsFair, Windows

(* A step that leaves the window and the calls of a caller alone.            *)
LEMMA StaysFair ==
    ASSUME TypeOK, RatesInv, clock' \in Nat, clock <= clock',
           NEW c \in Callers, NEW p \in Profiles, NEW l \in p.rate_limits,
           passed'[c] = passed[c],
           store'[c].windows[l.capability] = store[c].windows[l.capability]
    PROVE  FairTo(c, p, l)'
  <1>1. PICK S, q, w : S = Matching(c, p, l) /\ q = passed[c] /\ w = store[c].windows[l.capability]
    OBVIOUS
  <1>2. clock \in Nat /\ l.max \in Nat /\ w \in Windows \cup {None}
    BY <1>1, LimitsAreRates DEF TypeOK, Stores
  <1>3. RateIsFair(S, q, w, l.max)
    BY <1>1 DEF RatesInv, FairTo
  <1>4. RateIsFair(S, q, w, l.max)'
    BY <1>2, <1>3, LaterIsFair
  <1>5. Matching(c, p, l)' = S
    BY <1>1 DEF Matching
  <1> QED
    BY <1>1, <1>4, <1>5 DEF FairTo

(* check_rate_limits lets a call pass a limit only below its maximum.        *)
LEMMA PassingIsBelow ==
    ASSUME NEW s, NEW cap, check_rate_limits(s, cap), NEW l \in s.profile.rate_limits,
           l.capability \in applicable_scopes(s.profile, cap)
    PROVE  InWindow(s.windows[l.capability]) < l.max
  BY DEF check_rate_limits, BelowLimits

(* What charging a call makes of the window of one scope.                    *)
LEMMA WindowsAreCounted ==
    ASSUME NEW s, NEW cap, NEW k \in Scopes
    PROVE  CountedWindows(s, cap)[k] =
               IF k \in applicable_scopes(s.profile, cap) THEN Counted(s.windows[k])
                                                          ELSE s.windows[k]
  BY DEF CountedWindows

(* A call that got past check_rate_limits is charged to the windows of its   *)
(* scopes, whatever becomes of it afterwards.                                *)
LEMMA ChargedStaysFair ==
    ASSUME TypeOK, RatesInv, NEW c \in Callers, NEW cap \in Capabilities,
           store[c].profile \in Profiles, check_rate_limits(store[c], cap),
           NEW e, e = [cap |-> cap, at |-> clock, profile |-> store[c].profile],
           passed' = IF applicable_scopes(store[c].profile, cap) = {} THEN passed
                     ELSE [passed EXCEPT ![c] = Append(@, e)],
           store'[c].windows = CountedWindows(store[c], cap), clock' = clock,
           NEW p \in Profiles, NEW l \in p.rate_limits
    PROVE  FairTo(c, p, l)'
  <1> DEFINE A == applicable_scopes(store[c].profile, cap)
  <1>1. PICK S, q, w, m, k :
            /\ S = Matching(c, p, l) /\ q = passed[c] /\ w = store[c].windows[l.capability]
            /\ m = l.max /\ k = l.capability
    OBVIOUS
  <1>2. /\ k \in Scopes /\ m \in Nat /\ clock \in Nat /\ w \in Windows \cup {None}
        /\ q \in Seq(Passes) /\ e \in Passes
    <2>1. k \in Scopes /\ m \in Nat
      BY <1>1, LimitsAreRates
    <2>2. clock \in Nat /\ store[c].windows \in [Scopes -> Windows \cup {None}]
      BY DEF TypeOK, Stores
    <2>3. q \in Seq(Passes)
      BY <1>1 DEF RatesInv
    <2>4. e \in Passes
      BY Zenon, <2>2 DEF Passes
    <2> QED
      BY Zenon, <1>1, <2>1, <2>2, <2>3, <2>4
  <1>3. RateIsFair(S, q, w, m)
    BY SMTT(40), <1>1 DEF RatesInv, FairTo
  <1>4. store'[c].windows[k] = IF k \in A THEN Counted(w) ELSE w
    <2>1. w = store[c].windows[k]
      BY Zenon, <1>1
    <2>2. CountedWindows(store[c], cap)[k] =
              IF k \in A THEN Counted(store[c].windows[k]) ELSE store[c].windows[k]
      BY Zenon, <1>2, WindowsAreCounted
    <2> QED
      BY <2>1, <2>2
  <1>5. CASE A = {}
    <2>1. passed' = passed /\ store'[c].windows[k] = w
      BY Zenon, <1>4, <1>5
    <2> QED
      BY SMTT(40), <1>1, <1>2, <2>1, StaysFair
  <1>6. CASE A # {}
    <2>1. PICK q2 : q2 = passed'[c]
      BY Zenon
    <2>2. q2 = Append(q, e)
      BY <1>1, <1>6, <2>1 DEF RatesInv
    <2>3. PICK i : i = Len(q) + 1
      OBVIOUS
    <2>4. /\ DOMAIN q2 = (DOMAIN q) \cup {i} /\ i \notin DOMAIN q
          /\ q2[i] = e /\ \A n \in DOMAIN q : q2[n] = q[n]
      BY <1>2, <2>2, <2>3
    <2>5. S \subseteq DOMAIN q
      BY <1>1 DEF Matching
    <2>6. RateIsFair(S, q2, w, m)
      BY SMTT(40), <1>3, <2>4, <2>5, SameTimesAreFair
    <2>7. PICK T : T = Matching(c, p, l)'
      BY Zenon
    <2>8. T = {n \in DOMAIN q2 : q2[n].profile = p /\ k \in {None, q2[n].cap}}
      BY Zenon, <1>1, <2>1, <2>7 DEF Matching
    <2>9. S = {n \in DOMAIN q : q[n].profile = p /\ k \in {None, q[n].cap}}
      BY Zenon, <1>1 DEF Matching
    <2>10. PICK v : v = Counted(w)
      OBVIOUS
    <2>11. CASE store[c].profile = p /\ k \in {None, cap}
      <3>1. k \in A
        BY <1>1, <2>11 DEF applicable_scopes
      <3>2. InWindow(w) < m
        BY Zenon, <1>1, <2>11, <3>1, PassingIsBelow
      <3>3. \A n \in T : n \in S \/ n = i
        BY Zenon, <2>4, <2>8, <2>9
      <3>4. q2[i].at = clock
        BY SMTT(40), <2>4
      <3>5. RateIsFair(T, q2, v, m)
        BY <1>2, <2>6, <2>10, <3>2, <3>3, <3>4, PassingIsFair
      <3> QED
        BY ZenonT(40), <1>1, <1>4, <2>1, <2>7, <2>10, <3>1, <3>5 DEF FairTo, RateIsFair, WindowIsFair
    <2>12. CASE ~(store[c].profile = p /\ k \in {None, cap})
      <3>1. T = S
        <4>1. ~(q2[i].profile = p /\ k \in {None, q2[i].cap})
          BY <2>4, <2>12
        <4> QED
          BY Zenon, <2>4, <2>8, <2>9, <4>1
      <3>2. RateIsFair(S, q2, v, m)
        BY <1>2, <2>6, <2>10, CountingIsFair
      <3> QED
        BY Zenon, <1>1, <1>4, <2>1, <2>6, <2>7, <2>10, <3>1, <3>2 DEF FairTo, RateIsFair, WindowIsFair
    <2> QED
      BY SMTT(40), <2>11, <2>12
  <1> QED
    BY <1>5, <1>6

(* A step that changes the calls and windows of no caller but c.             *)
LEMMA OneCallerIsCharged ==
    ASSUME TypeOK, RatesInv, NEW c \in Callers, clock' \in Nat, clock <= clock',
           passed' \in [Callers -> Seq(Passes)],
           \A d \in Callers \ {c} :
               passed'[d] = passed[d] /\ store'[d].windows = store[d].windows,
           \A p \in Profiles : \A l \in p.rate_limits : FairTo(c, p, l)'
    PROVE  RatesInv'
  <1>1. ASSUME NEW d \in Callers, NEW p \in Profiles, NEW l \in p.rate_limits
        PROVE  FairTo(d, p, l)'
    <2>1. CASE d = c
      BY <1>1, <2>1
    <2>2. CASE d # c
      BY <1>1, <2>2, StaysFair
    <2> QED
      BY <2>1, <2>2
  <1> QED
    BY <1>1 DEF RatesInv

(* A step that charges nothing: time may pass.                               *)
LEMMA NoneIsCharged ==
    ASSUME TypeOK, RatesInv, clock' \in Nat, clock <= clock', passed' = passed,
           \A d \in Callers : store'[d].windows = store[d].windows
    PROVE  RatesInv'
  <1>1. ASSUME NEW d \in Callers, NEW p \in Profiles, NEW l \in p.rate_limits
        PROVE  FairTo(d, p, l)'
    BY Zenon, <1>1, StaysFair
  <1> QED
    BY <1>1 DEF RatesInv

(* What a call does to the windows.                                          *)
LEMMA CallWindows ==
    ASSUME TypeOK, NEW c \in Callers, NEW r, Calls(c, r), ~Refuse(c, r)
    PROVE  /\ Allowed(c, r) /\ Pass(c, r) /\ clock' = clock
           /\ store'[c].windows = CountedWindows(store[c], r.cap)
           /\ \A d \in Callers \ {c} : store'[d] = store[d]
  <1> DEFINE t == Charged(store[c], r.cap)
  <1>1. t.windows = CountedWindows(store[c], r.cap)
    BY SMTT(40) DEF Charged, HostState
  <1>2. /\ Enter(t).windows = t.windows
        /\ Leave(Enter(t)).windows = t.windows
    BY Zenon DEF Enter, Leave, HostState
  <1>3. Bounced(t, r).windows = t.windows
    BY Zenon, <1>2 DEF Bounced
  <1>4. \E u : u.windows = t.windows /\ store' = [store EXCEPT ![c] = u]
    <2> HIDE DEF t
    <2>1. \/ store' = [store EXCEPT ![c] = t]
          \/ store' = [store EXCEPT ![c] = Bounced(t, r)]
          \/ store' = [store EXCEPT ![c] = Enter(t)]
      BY DEF Calls, RefuseCharged, Bounce, RunHandler, t
    <2> QED
      BY Zenon, <1>2, <1>3, <2>1
  <1>5. Allowed(c, r) /\ Pass(c, r) /\ clock' = clock
    BY DEF Calls, RefuseCharged, Bounce, RunHandler, shared
  <1> HIDE DEF t
  <1> QED
    BY <1>1, <1>4, <1>5 DEF TypeOK

(* A call on any of the three paths keeps every limit fair.                  *)
LEMMA CallKeepsRates ==
    ASSUME TypeOK, RatesInv, NEW c \in Callers, NEW path \in Paths, NEW r \in Requests(path),
           Calls(c, r)
    PROVE  RatesInv'
  <1>1. CASE Refuse(c, r)
    BY <1>1, NoneIsCharged DEF Refuse, Calls, shared, TypeOK
  <1>2. ASSUME clock' = clock PROVE clock' \in Nat /\ clock <= clock'
    BY SMTT(40), <1>2 DEF TypeOK
  <1>3. CASE ~Refuse(c, r)
    <2>1. /\ Allowed(c, r) /\ Pass(c, r) /\ clock' = clock
          /\ store'[c].windows = CountedWindows(store[c], r.cap)
          /\ \A d \in Callers \ {c} : store'[d] = store[d]
      BY Zenon, <1>3, CallWindows
    <2>2. r.cap \in Capabilities /\ clock \in Nat /\ store[c].profile \in Profiles \cup {None}
      BY SMTT(40) DEF Requests, TypeOK, Stores
    <2>3. store[c].profile \in Profiles /\ check_rate_limits(store[c], r.cap)
      BY Zenon, <2>1, <2>2 DEF Allowed, Admits, grants_capability
    <2>4. PICK e : e = [cap |-> r.cap, at |-> clock, profile |-> store[c].profile]
      BY Zenon
    <2>5. passed' = IF applicable_scopes(store[c].profile, r.cap) = {} THEN passed
                    ELSE [passed EXCEPT ![c] = Append(@, e)]
      BY Zenon, <2>1, <2>4 DEF Pass
    <2>6. e \in Passes
      BY Zenon, <2>2, <2>3, <2>4 DEF Passes
    <2>7. /\ passed' \in [Callers -> Seq(Passes)]
          /\ \A d \in Callers \ {c} : passed'[d] = passed[d]
      BY SMTT(40), <2>5, <2>6 DEF RatesInv
    <2>8. \A p \in Profiles : \A l \in p.rate_limits : FairTo(c, p, l)'
      BY Zenon, <2>1, <2>2, <2>3, <2>4, <2>5, ChargedStaysFair
    <2>9. \A d \in Callers \ {c} :
              passed'[d] = passed[d] /\ store'[d].windows = store[d].windows
      BY Zenon, <2>1, <2>7
    <2> QED
      BY Zenon, <1>2, <2>1, <2>7, <2>8, <2>9, OneCallerIsCharged
  <1> QED
    BY <1>1, <1>3

(* A new instance has no window and no calls to its name.                    *)
LEMMA PreflightKeepsRates ==
    ASSUME TypeOK, RatesInv, NEW c \in Instances, NEW p0 \in Profiles, NEW m0 \in Manifests,
           preflight(c, p0, m0)
    PROVE  RatesInv'
  <1>1. c \in Callers /\ clock' = clock /\ clock \in Nat
    BY Zenon DEF Callers, preflight, shared, TypeOK
  <1>2. /\ passed' = [passed EXCEPT ![c] = <<>>]
        /\ store' = [store EXCEPT ![c] = NewStore(p0, m0.module)]
    BY Zenon DEF preflight
  <1>3. /\ passed' \in [Callers -> Seq(Passes)]
        /\ \A d \in Callers \ {c} : passed'[d] = passed[d] /\ store'[d].windows = store[d].windows
    BY SMTT(40), <1>1, <1>2 DEF RatesInv, TypeOK
  <1>4. passed'[c] = <<>> /\ store'[c].windows = NoWindows
    BY Zenon, <1>1, <1>2 DEF RatesInv, TypeOK, NewStore, HostState
  <1>5. ASSUME NEW p \in Profiles, NEW l \in p.rate_limits
        PROVE  FairTo(c, p, l)'
    <2>1. l.max \in Nat /\ store'[c].windows[l.capability] = None
      BY <1>4, <1>5, LimitsAreRates DEF NoWindows
    <2>2. PICK T, q : T = Matching(c, p, l)' /\ q = passed'[c]
      OBVIOUS
    <2>3. T = {}
      BY SMTT(40), <1>4, <2>2 DEF Matching
    <2>4. RateIsFair({}, q, None, l.max)
      BY Zenon, <2>1, NothingIsFair
    <2>5. RateIsFair({}, q, None, l.max)'
      BY SMTT(40), <1>1, <2>1, <2>4, LaterIsFair
    <2> QED
      BY <2>1, <2>2, <2>3, <2>5 DEF FairTo
  <1> QED
    BY SMTT(40), <1>1, <1>3, <1>5, OneCallerIsCharged


-----------------------------------------------------------------------------
(* The rate limits                                                           *)

(* No call has passed yet, and no window is open.                            *)
LEMMA InitRates == Init => RatesInv
  <1> SUFFICES ASSUME Init PROVE RatesInv
    OBVIOUS
  <1>1. ASSUME NEW c \in Callers, NEW p \in Profiles, NEW l \in p.rate_limits
        PROVE  FairTo(c, p, l)
    <2>1. l.max \in Nat /\ l.capability \in Scopes
      BY Zenon, <1>1, LimitsAreRates
    <2>a. store[c] = NewStore(None, None)
      BY Zenon, <1>1 DEF Init
    <2>b. store[c].windows = NoWindows
      BY <2>a DEF NewStore, HostState
    <2>c. store[c].windows[l.capability] = None
      BY Zenon, <2>1, <2>b DEF NoWindows
    <2>d. passed[c] = <<>>
      BY Zenon, <1>1 DEF Init
    <2>2. Matching(c, p, l) = {}
      BY <2>d DEF Matching
    <2>3. RateIsFair({}, passed[c], None, l.max)
      BY SMTT(40), <2>1, NothingIsFair
    <2> QED
      BY Zenon, <2>c, <2>2, <2>3 DEF FairTo
  <1> QED
    BY <1>1 DEF Init, RatesInv

(* Leaving a call, and renewing a store, leave the windows alone.            *)
LEMMA WindowsAreKept ==
    ASSUME NEW s, NEW p, NEW m
    PROVE  Leave(s).windows = s.windows /\ Renewed(s, p, m).windows = s.windows
  BY DEF Leave, Renewed, HostState

(* A step that leaves the windows of one store alone leaves those of all.    *)
LEMMA OneStoreChanges ==
    ASSUME store \in [Callers -> Stores], NEW c \in Callers, NEW s,
           store' = [store EXCEPT ![c] = s], s.windows = store[c].windows
    PROVE  \A d \in Callers : store'[d].windows = store[d].windows
  OBVIOUS

(* Calls are charged to the windows of their scopes; nothing else but the    *)
(* clock and a new instance touches them.                                    *)
LEMMA StepKeepsRates == TypeOK /\ RatesInv /\ [Next]_vars => RatesInv'
  <1> SUFFICES ASSUME TypeOK, RatesInv, [Next]_vars PROVE RatesInv'
    OBVIOUS
  <1>1. clock \in Nat /\ clock <= clock
    BY DEF TypeOK
  <1>a. store \in [Callers -> Stores]
    BY Zenon DEF TypeOK
  <1>2. CASE \E r \in Requests("call_capability") : call_capability(r)
    BY <1>2, CallKeepsRates DEF call_capability, Paths, Callers
  <1>3. CASE \E i \in Instances :
                \/ \E r \in Requests("host_call") : dispatch_host_call(i, r)
                \/ \E r \in Requests("host_call_write") : dispatch_host_call_write(i, r)
    BY <1>3, CallKeepsRates DEF dispatch_host_call, dispatch_host_call_write, Paths, Callers
  <1>4. CASE \E i \in Instances, p \in Profiles, m \in Manifests : preflight(i, p, m)
    BY <1>4, PreflightKeepsRates
  <1>5. CASE Tick
    <2>1. clock' \in Nat /\ clock <= clock' /\ passed' = passed /\ store' = store
      BY <1>1, <1>5 DEF Tick
    <2> QED
      BY <2>1, NoneIsCharged
  <1>6. ASSUME NEW c \in Callers, NEW path, Returns(c, path)
        PROVE  RatesInv'
    <2>1. clock' = clock /\ passed' = passed /\ store' = [store EXCEPT ![c] = Leave(store[c])]
      BY Zenon, <1>6 DEF Returns, AtExit, shared
    <2>a. Leave(store[c]).windows = store[c].windows
      BY WindowsAreKept
    <2>2. \A d \in Callers : store'[d].windows = store[d].windows
      BY <1>a, <2>1, <2>a, OneStoreChanges
    <2> QED
      BY Zenon, <1>1, <2>1, <2>2, NoneIsCharged
  <1>7. ASSUME NEW i \in Instances, validate_and_instantiate(i) \/ invoke(i)
        PROVE  RatesInv'
    <2>1. clock' = clock /\ passed' = passed
      BY SMTT(40), <1>7 DEF validate_and_instantiate, invoke, shared
    <2>b. PICK c \in Callers : \E s : /\ \E p, m : s = Renewed(store[c], p, m)
                                     /\ store' = [store EXCEPT ![c] = s]
      BY Zenon, <1>7 DEF validate_and_instantiate, invoke, Callers
    <2>2. PICK s : /\ \E p, m : s = Renewed(store[c], p, m)
                   /\ store' = [store EXCEPT ![c] = s]
      BY Zenon, <2>b
    <2>a. s.windows = store[c].windows
      BY <2>2, WindowsAreKept
    <2>3. \A d \in Callers : store'[d].windows = store[d].windows
      BY <1>a, <2>2, <2>a, OneStoreChanges
    <2> QED
      BY Zenon, <1>1, <2>1, <2>3, NoneIsCharged
  <1>8. CASE UNCHANGED <<clock, store, passed>>
    BY <1>1, <1>8, NoneIsCharged
  <1>9. CASE \/ call_capability_returns
             \/ \E i \in Instances :
                    dispatch_host_call_returns(i) \/ dispatch_host_call_write_returns(i)
    BY <1>6, <1>9 DEF call_capability_returns, dispatch_host_call_returns,
                      dispatch_host_call_write_returns, Callers
  <1> QED
    BY Zenon, <1>2, <1>3, <1>4, <1>5, <1>7, <1>8, <1>9
       DEF Next, vars, shared, preflight_failed, invoke_returns, revoke,
           execute_with_rollback, execute_ok, execute_err, EndGroup, commit_directly,
           rollback_directly, Settle

(* The facts about cardinality that only the last theorem needs.             *)
F == INSTANCE FiniteSetTheorems

(* No call in a window counts as none.                                       *)
LEMMA EmptyHasNone == Cardinality({}) = 0
  <1>1. F!Cardinality({}) = Cardinality({})
    BY DEF F!Cardinality, Cardinality
  <1> QED
    BY <1>1, F!FS_EmptySet

(* What can be numbered from 1 to n without a number used twice has at most  *)
(* n members.                                                                *)
LEMMA NumberedAreFew ==
    ASSUME NEW S, NEW n \in Nat, NEW f \in [S -> 1..n], \A x, y \in S : f[x] = f[y] => x = y
    PROVE  Cardinality(S) <= n
  <1>1. f \in F!Injection(S, 1..n)
    BY DEF F!Injection, F!IsInjective
  <1>2. \A T : F!Cardinality(T) = Cardinality(T)
    BY DEF F!Cardinality, Cardinality
  <1>3. F!IsFiniteSet(1..n) /\ F!Cardinality(1..n) = n
    BY F!FS_Interval
  <1>4. F!Cardinality(S) <= F!Cardinality(1..n)
    BY Zenon, <1>1, <1>3, F!FS_Injection
  <1> QED
    BY <1>2, <1>3, <1>4

(* The calls of a limit in a window, as RateIsBounded picks them.            *)
HitsOf(c, p, l, t) == {n \in DOMAIN passed[c] :
                          /\ passed[c][n].profile = p
                          /\ l.capability \in {None, passed[c][n].cap}
                          /\ passed[c][n].at \in t..(t + WINDOW - 1)}

(* The calls counted by the property are the matching ones between two       *)
(* times.                                                                    *)
LEMMA BetweenOfMatching ==
    ASSUME NEW c, NEW p, NEW l, NEW t \in Nat, WINDOW \in Nat,
           \A n \in Matching(c, p, l) : passed[c][n].at \in Nat
    PROVE  HitsOf(c, p, l, t) = Between(Matching(c, p, l), passed[c], t, t + WINDOW - 1)
  BY DEF HitsOf, Matching, Between

(* RateIsFair is what RateIsBounded says of one limit, and more.             *)
LEMMA FairIsBounded ==
    ASSUME RatesInv
    PROVE  RateIsBounded
  <1> SUFFICES ASSUME NEW c \in Callers, NEW p \in Profiles, NEW l \in p.rate_limits,
                      NEW t \in 0..clock
               PROVE  Cardinality(HitsOf(c, p, l, t)) <= IF l.max = 0 THEN 0 ELSE 2 * l.max - 1
    BY Zenon DEF RateIsBounded, HitsOf
  <1> DEFINE S == Matching(c, p, l)
             Hits == HitsOf(c, p, l, t)
  <1>1. RateIsFair(S, passed[c], store[c].windows[l.capability], l.max)
    BY Zenon DEF RatesInv, FairTo
  <1>2. t \in Nat /\ WINDOW \in Nat /\ l.max \in Nat
    BY SMTT(40), LimitsAreRates, BoundsAreNumbers
  <1>3. \A n \in S : passed[c][n].at \in Nat
    BY Zenon, <1>1 DEF RateIsFair
  <1>4. Hits = Between(S, passed[c], t, t + WINDOW - 1)
    BY Zenon, <1>2, <1>3, BetweenOfMatching
  <1>5. CASE l.max = 0
    <2>1. S = {}
      BY Zenon, <1>1, <1>5 DEF RateIsFair
    <2>2. Hits = {}
      BY Zenon, <1>4, <2>1 DEF Between
    <2>3. Cardinality(Hits) = 0
      BY Zenon, <2>2, EmptyHasNone
    <2>4. 0 \in Int /\ 0 <= 0
      OBVIOUS
    <2> QED
      BY Zenon, <1>5, <2>3, <2>4
  <1>6. CASE l.max # 0
    <2>1. AtMost(Between(S, passed[c], t, t + WINDOW - 1), 2 * l.max - 1)
      BY Zenon, <1>1, <1>2, <1>6 DEF RateIsFair
    <2> HIDE DEF Hits, S
    <2> DEFINE most == 2 * l.max - 1
    <2>2. most \in Nat
      BY <1>2, <1>6
    <2>3. PICK f \in [Hits -> 1..most] : \A x, y \in Hits : f[x] = f[y] => x = y
      BY Zenon, <1>4, <2>1 DEF AtMost
    <2> HIDE DEF most
    <2>4. Cardinality(Hits) <= most
      BY <2>2, <2>3, NumberedAreFew
    <2> QED
      BY Zenon, <1>6, <2>4 DEF most, Hits
  <1> QED
    BY Zenon, <1>5, <1>6

(* However calls of all profiles interleave with the clock, and whenever an  *)
(* instance is made or a budget renewed, check_rate_limits lets a caller     *)
(* have at most 2 * max - 1 calls past a limit within any WINDOW ticks.      *)
THEOREM RatesStayBounded == Spec => []RateIsBounded
  <1>1. Init => RatesInv
    BY InitRates
  <1>2. TypeOK /\ RatesInv /\ [Next]_vars => RatesInv'
    BY StepKeepsRates
  <1>3. RatesInv => RateIsBounded
    BY FairIsBounded
  <1>4. Spec => []TypeOK
    BY RuntimeInvariant, PTL
  <1> QED
    BY <1>1, <1>2, <1>3, <1>4, PTL DEF Spec
=============================================================================
