------------------------- MODULE MCDetectorTracking -------------------------
(* Model-checking instances of DetectorTracking.                           *)
EXTENDS DetectorTracking

\* Statistics: loss runs just below, at and above the 8-bit ambiguity,
\* a counter that wraps soon after boot, a handful of node frames.
MCStatsBursts   == {1, 254, 255}
MCStatsBootCnts == {0, 254}

\* ADR: a weak SF10 link (SNR -15 dB, at the demodulation floor) and a
\* marginal one (-4 dB, just above the SF10 threshold), both heard at
\* -120 dBm; sequences of up to 11 heartbeats wrap the 10-slot window.
MCAdrPackets == {[rssi |-> -120, snr |-> -15, datarate |-> 10],
                 [rssi |-> -120, snr |-> -4,  datarate |-> 10]}
\* A good SF8 link whose latest sample is weak after a run of strong ones.
MCAdrPacketsSF8 == {[rssi |-> -80, snr |-> 10, datarate |-> 8],
                    [rssi |-> -80, snr |-> -8, datarate |-> 8]}

=============================================================================
