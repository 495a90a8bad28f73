----------------------------- MODULE MCDaqChain -----------------------------
(* Instances of DaqChain for TLC: two PMTs, up to two simulated hits.      *)
EXTENDS DaqChain

Hit(p, photons) == [id |-> p, photons |-> photons]
Real(hit, jitter) == [hit |-> hit, fet |-> hit + jitter, kind |-> "real"]

\* No hit; one, early or late; two of one PMT, in order or not by front-end
\* time; and one of each PMT, together or apart.
MCSimulated ==
  {<<>>,
   <<Hit(0, <<Real(0, 0)>>)>>,
   <<Hit(0, <<Real(0, 4)>>)>>,
   <<Hit(0, <<Real(0, 0), Real(3, 0)>>)>>,
   <<Hit(0, <<Real(0, 4), Real(3, 0)>>)>>,
   <<Hit(1, <<Real(0, 0)>>), Hit(0, <<Real(0, 0)>>)>>,
   <<Hit(1, <<Real(3, 0)>>), Hit(0, <<Real(0, 0)>>)>>}

\* Those that stress the noise windows: none, out of order, two PMTs too far
\* apart for one window, and later than noise_maxtime.
MCFewSimulated ==
  {<<>>,
   <<Hit(0, <<Real(0, 4), Real(3, 0)>>)>>,
   <<Hit(1, <<Real(7, 0)>>), Hit(0, <<Real(0, 0)>>)>>,
   <<Hit(0, <<Real(7, 0)>>)>>}

\* Before the first hit, between hits, and at the start of a second window.
MCDarkTimes == {-1, 4, 6}

MCDAQ ==
  [pulse_width |-> 2, trigger_window |-> 2, pmt_lockout |-> 2, trigger_lockout |-> 1,
   lookback |-> 1, trigger_resolution |-> 1, max_hit_time |-> 0, max_hit_duration |-> 7,
   trigger_on_noise |-> TRUE]

\* A coarse trigger that ignores noise and late hits.
MCCoarseDAQ ==
  [pulse_width |-> 4, trigger_window |-> 3, pmt_lockout |-> 1, trigger_lockout |-> 1,
   lookback |-> 1, trigger_resolution |-> 2, max_hit_time |-> 8, max_hit_duration |-> 0,
   trigger_on_noise |-> FALSE]

MCDAQs == {MCDAQ}
MCBothDAQs == {MCDAQ, MCCoarseDAQ}

NoiseFirst == <<"noise", "afterpulse", "splitevdaq">>
NoiseLast == <<"afterpulse", "noise", "splitevdaq">>
MCNoiseChains == {NoiseFirst, NoiseLast}
MCQuietChains == {<<"afterpulse", "splitevdaq">>}

=============================================================================
