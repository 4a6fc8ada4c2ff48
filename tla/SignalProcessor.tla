-------------------------- MODULE SignalProcessor --------------------------
(***************************************************************************)
(* The signal pipeline of a sensor channel (signal_processor.py): Kalman   *)
(* filter, sliding statistics, window, then Fourier transform, envelope    *)
(* and Haar wavelets of a full window.  Samples are integers and the       *)
(* transforms are computed exactly: a complex number is a polynomial in    *)
(* zeta = exp(-2 pi i / N) with zeta^(N/2) = -1, a wavelet coefficient is  *)
(* kept without its powers of the root of two.                             *)
(***************************************************************************)
EXTENDS Integers, Sequences

CONSTANTS WindowSize,     \* samples in a window
          Reading,        \* raw samples
          WaveletLevels,  \* 4
          MaxWindows      \* bound: windows processed

ASSUME WindowIsUsable == WindowSize \in Nat /\ WindowSize >= 2
ASSUME SamplesAreNumbers == Reading \subseteq Int /\ WaveletLevels \in Nat

(* One, shifted left.                                                      *)
Doubled[b \in Nat] == IF b = 0 THEN 1 ELSE 2 * Doubled[b - 1]

(* The length the transform pads its input to: shifted until it is enough. *)
PaddedBits == CHOOSE b \in 0 .. WindowSize :
                /\ Doubled[b] >= WindowSize
                /\ \A c \in 0 .. b - 1 : Doubled[c] < WindowSize
PaddedLength == Doubled[PaddedBits]
Half == Doubled[PaddedBits - 1]

---------------------------------------------------------------------------
(* Sums                                                                    *)

(* The sum of the first n values of f.                                     *)
Total(f, n) ==
  LET total[i \in 0 .. n] == IF i = 0 THEN 0 ELSE total[i - 1] + f[i] IN total[n]

SumOf(s) == Total(s, Len(s))
SumOfSquares(s) == Total([i \in 1 .. Len(s) |-> s[i] * s[i]], Len(s))

---------------------------------------------------------------------------
(* Complex numbers                                                         *)

Complex == [0 .. Half - 1 -> Int]

(* What a has at zeta^i, for any i.                                        *)
Coefficient(a, i) ==
  LET e == i % PaddedLength IN IF e < Half THEN a[e] ELSE -a[e - Half]

Real(v) == [e \in 0 .. Half - 1 |-> IF e = 0 THEN v ELSE 0]
Plus(a, b) == [e \in 0 .. Half - 1 |-> a[e] + b[e]]
Scaled(a, m) == [e \in 0 .. Half - 1 |-> m * a[e]]
(* a * zeta^k                                                              *)
Turned(a, k) == [e \in 0 .. Half - 1 |-> Coefficient(a, e - k)]
Conjugate(a) == [e \in 0 .. Half - 1 |-> Coefficient(a, -e)]

---------------------------------------------------------------------------
(* Transforms                                                              *)

EvenItems(x, n) == [i \in 1 .. n |-> x[2 * i - 1]]
OddItems(x, n) == [i \in 1 .. n |-> x[2 * i]]

(* The results for the two halves of x, of n items each, into one; step is *)
(* the power of zeta that is the root of unity for the length of x.        *)
Butterfly(even, odd, n, step) ==
  LET w == [k \in 1 .. n |-> Turned(odd[k], (k - 1) * step)]
  IN [k \in 1 .. 2 * n |-> IF k <= n THEN Plus(even[k], w[k])
                           ELSE Plus(even[k - n], Scaled(w[k - n], -1))]

(* _fft_recursive, of 2^b items                                            *)
FftRecursive[b \in 0 .. PaddedBits] ==
  [x \in [1 .. Doubled[b] -> Complex] |->
     IF b = 0 THEN x
     ELSE LET n == Doubled[b - 1]
          IN Butterfly(FftRecursive[b - 1][EvenItems(x, n)], FftRecursive[b - 1][OddItems(x, n)],
                       n, Doubled[PaddedBits - b])]

Fft(signal) ==
  FftRecursive[PaddedBits][[i \in 1 .. PaddedLength |->
                              IF i <= Len(signal) THEN Real(signal[i]) ELSE Real(0)]]

(* hilbert_envelope, up to the modulus it takes of each item and the       *)
(* division by the length.                                                 *)
AnalyticSignal(signal) ==
  LET spectrum == Fft(signal)
      oneSided == [i \in 1 .. PaddedLength |->
                     IF i > Half + 1 THEN Real(0)
                     ELSE IF i \in 2 .. Half THEN Scaled(spectrum[i], 2) ELSE spectrum[i]]
      inverse == FftRecursive[PaddedBits][[i \in 1 .. PaddedLength |-> Conjugate(oneSided[i])]]
  IN [i \in 1 .. Len(signal) |-> Conjugate(inverse[i])]

(* haar_dwt: the details of each level, then what is left.                 *)
HaarDwt[levels \in Nat] ==
  [approx \in Seq(Int) |->
     IF levels = 0 \/ Len(approx) < 2 THEN <<approx>>
     ELSE LET n == Len(approx) \div 2
              sum == [i \in 1 .. n |-> approx[2 * i - 1] + approx[2 * i]]
              detail == [i \in 1 .. n |-> approx[2 * i - 1] - approx[2 * i]]
          IN <<detail>> \o HaarDwt[levels - 1][sum]]

(* wavelet_energy, before the division by the number of coefficients.      *)
WaveletEnergy(signal) ==
  LET coefficients == HaarDwt[WaveletLevels][signal]
  IN [l \in 1 .. Len(coefficients) |-> SumOfSquares(coefficients[l])]

---------------------------------------------------------------------------
(* process_sample                                                          *)

NoFeatures == [count |-> 0]

VARIABLES estimate,       \* of the Kalman filter
          statsWindow, statsSum, statsSumSq,
          sampleBuffer,
          features,       \* what the last call returned: NoFeatures or a record
          windows         \* windows processed, at most MaxWindows

signalVars == <<estimate, statsWindow, statsSum, statsSumSq, sampleBuffer, features, windows>>

SignalInit ==
  /\ estimate = 0 /\ statsWindow = <<>> /\ statsSum = 0 /\ statsSumSq = 0
  /\ sampleBuffer = <<>> /\ features = NoFeatures /\ windows = 0

Lesser(a, b) == IF a < b THEN a ELSE b
Greater(a, b) == IF a < b THEN b ELSE a

(* The gain p / (p + r) is between 0 and 1, so the estimate moves towards  *)
(* the measurement and not past it.                                        *)
Filtered(raw) == Lesser(estimate, raw) .. Greater(estimate, raw)

(* SlidingWindowStats.push                                                 *)
PushStats_bug(v) ==
  /\ statsSum' = statsSum + v
  /\ statsSumSq' = statsSumSq + v * v
  /\ statsWindow' = IF Len(statsWindow) >= WindowSize THEN Append(Tail(statsWindow), v)
                    ELSE Append(statsWindow, v)

PushStats(v) ==
  LET evicted == IF Len(statsWindow) >= WindowSize THEN Head(statsWindow) ELSE 0
  IN /\ statsSum' = statsSum - evicted + v
     /\ statsSumSq' = statsSumSq - evicted * evicted + v * v
     /\ statsWindow' = IF Len(statsWindow) >= WindowSize THEN Append(Tail(statsWindow), v)
                       ELSE Append(statsWindow, v)

(* _extract_features: the statistics are those of the sliding window, the  *)
(* rest is computed from the buffer.                                       *)
ExtractFeatures(buffer) ==
  [count |-> Len(statsWindow'), sum |-> statsSum', sumSq |-> statsSumSq',
   spectrum |-> Fft(buffer), energies |-> WaveletEnergy(buffer),
   analytic |-> AnalyticSignal(buffer), of |-> buffer]

ProcessSample ==
  \E raw \in Reading : \E v \in Filtered(raw) :
    LET buffer == Append(sampleBuffer, v)
    IN /\ estimate' = v
       /\ PushStats(v)
       /\ IF Len(buffer) >= WindowSize
          THEN /\ windows < MaxWindows
               /\ features' = ExtractFeatures(buffer)
               /\ sampleBuffer' = <<>> /\ windows' = windows + 1
          ELSE /\ sampleBuffer' = buffer /\ features' = NoFeatures
               /\ UNCHANGED windows

SignalNext == ProcessSample

SignalSpec == SignalInit /\ [][SignalNext]_signalVars

---------------------------------------------------------------------------
(* Properties                                                              *)

(* The transform by its definition: item k is the sum of x[j], turned by   *)
(* j k steps.                                                              *)
Dft(x) ==
  [k \in 1 .. PaddedLength |->
     [e \in 0 .. Half - 1 |->
        Total([j \in 1 .. Len(x) |-> Turned(Real(x[j]), (j - 1) * (k - 1))[e]], Len(x))]]

(* The statistics are those of x.                                          *)
StatisticsAreOf(x) ==
  features.count = Len(x) /\ features.sum = SumOf(x) /\ features.sumSq = SumOfSquares(x)

(* The real part of the analytic signal is the signal.                     *)
EnvelopeIsOf(x) ==
  \A i \in 1 .. Len(x) :
    LET z == features.analytic[i] IN Plus(z, Conjugate(z)) = Real(2 * PaddedLength * x[i])

(* Energy is conserved: the squares of the details of level l, times       *)
(* 2^(levels - l), and those of the rest add up to 2^levels times those of *)
(* the signal, if no level drops an odd item.                              *)
EnergyIsKept(x, energies) ==
  LET levels == Len(energies) - 1
      weighted == [l \in 1 .. levels |-> energies[l] * Doubled[levels - l]]
  IN Len(x) % Doubled[levels] = 0 =>
       Total(weighted, levels) + energies[levels + 1] = Doubled[levels] * SumOfSquares(x)

(* The features of a window are those of its samples, whatever came before *)
(* it: the incremental sums of the sliding statistics are the sums over    *)
(* the buffer (both have window_size samples), the recursive transform is  *)
(* the Fourier transform, the real part of the analytic signal behind the  *)
(* envelope is the signal, and the wavelets keep its energy.               *)
FeaturesAreOfTheWindow ==
  features # NoFeatures =>
    /\ StatisticsAreOf(features.of)
    /\ features.spectrum = Dft(features.of)
    /\ EnvelopeIsOf(features.of)
    /\ EnergyIsKept(features.of, features.energies)
=============================================================================
