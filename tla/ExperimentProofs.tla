--------------------------- MODULE ExperimentProofs ---------------------------
(***************************************************************************)
(* The experiments of a session, for every market, every sequence of       *)
(* requests and every value of the constants: what a decomposition adds up *)
(* to, and what a drift from a stored one is.  The hard part is to show    *)
(* that the current regime is one of the three, so that there is a         *)
(* covariance to decompose: from the closes that are aligned, over the two *)
(* passes of Baum-Welch, to the largest weight of the last day.            *)
(***************************************************************************)
EXTENDS ExperimentChecks, TotalProofs, SequenceTheorems

(***************************************************************************)
(* What a decomposition adds up to                                         *)
(***************************************************************************)
LEMMA FactorsAre == Factors = 1 .. 5 /\ IsFiniteSet(Factors)
<1>1. Factors = 1 .. 5
  BY DEF Factors, FactorNames
<1>2. 1 \in Int /\ 5 \in Int
  OBVIOUS
<1>3. IsFiniteSet(1 .. 5)
  BY <1>2, FS_Interval, Zenon
<1> QED
  BY <1>1, <1>3

\* A tuple by factor is the function.
LEMMA TupleIs == ASSUME NEW S, NEW f \in [Factors -> S] PROVE ByFactor(f) = f
  BY FactorsAre DEF ByFactor

LEMMA ByFactorIs == ASSUME NEW f \in Vector PROVE ByFactor(f) = f
  BY TupleIs DEF Vector

IsPortfolio(p) ==
    /\ IsFiniteSet(Holdings(p))
    /\ p.weights \in [Holdings(p) -> Int]

IsModelOf(m, H) ==
    /\ m.betas \in [H -> Vector]
    /\ m.residual \in [H -> Int]
    /\ m.covariance \in Matrix

LEMMA SumsInt ==
    ASSUME NEW S, IsFiniteSet(S), NEW a \in [S -> Int], NEW b \in [S -> Int]
    PROVE  Total([s \in S |-> a[s] * b[s]]) \in Int
<1>1. [s \in S |-> a[s] * b[s]] \in [S -> Int]
  OBVIOUS
<1> QED
  BY <1>1, TotalInt

\* F x, for the exposure x of a portfolio.
Turned(m, x) == [k \in Factors |-> Total([l \in Factors |-> m.covariance[k][l] * x[l]])]

LEMMA ExposureIs ==
    ASSUME NEW p, IsPortfolio(p), NEW m, IsModelOf(m, Holdings(p))
    PROVE  /\ Exposure(m, p) \in Vector
           /\ Exposure(m, p) = [k \in Factors |-> Total([i \in Holdings(p) |->
                                    p.weights[i] * m.betas[i][k]])]
           /\ Turned(m, Exposure(m, p)) \in Vector
<1> DEFINE H == Holdings(p)
           x == [k \in Factors |-> Total([i \in H |-> p.weights[i] * m.betas[i][k]])]
<1>1. ASSUME NEW k \in Factors PROVE Total([i \in H |-> p.weights[i] * m.betas[i][k]]) \in Int
  <2>1. [i \in H |-> p.weights[i] * m.betas[i][k]] \in [H -> Int]
    BY DEF IsPortfolio, IsModelOf, Vector
  <2> QED
    BY <2>1, TotalInt DEF IsPortfolio
<1>2. x \in Vector
  BY <1>1 DEF Vector
<1>3. Exposure(m, p) = x
  BY <1>2, ByFactorIs DEF Exposure
<1>4. ASSUME NEW y \in Vector PROVE Turned(m, y) \in Vector
  <2>1. ASSUME NEW k \in Factors PROVE Total([l \in Factors |-> m.covariance[k][l] * y[l]]) \in Int
    <3>1. m.covariance[k] \in [Factors -> Int] /\ y \in [Factors -> Int]
      BY DEF IsModelOf, Matrix, Vector
    <3> QED
      BY <3>1, SumsInt, FactorsAre
  <2> QED
    BY <2>1 DEF Turned, Vector
<1> QED
  BY <1>2, <1>3, <1>4

\* The covariance of two holdings, before it is annualized.
Between(m, i, j) ==
    Total([k \in Factors |-> m.betas[i][k]
              * Total([l \in Factors |-> m.covariance[k][l] * m.betas[j][l]])])

\* w_i (Sigma w)_i: what the factors and the residual of a holding contribute.
LEMMA HoldingContribution ==
    ASSUME NEW p, IsPortfolio(p), NEW m, IsModelOf(m, Holdings(p)),
           m.tickers = p.tickers, NEW i \in Holdings(p)
    PROVE  Total([j \in Holdings(p) |-> StockCovariance(m)[i][j] * p.weights[j]])
           = AnnualizationFactor(m.frequency)
               * (Total([k \in Factors |-> m.betas[i][k] * Turned(m, Exposure(m, p))[k]])
                    + p.weights[i] * m.residual[i])
<1> DEFINE H == Holdings(p)
           A == AnnualizationFactor(m.frequency)
           w == p.weights
           x == Exposure(m, p)
           F == m.covariance
           b == m.betas
           fb == [j \in H |-> [k \in Factors |-> Total([l \in Factors |-> F[k][l] * b[j][l]])]]
<1>0. /\ IsFiniteSet(H) /\ IsFiniteSet(Factors) /\ A \in Int
      /\ w \in [H -> Int] /\ b \in [H -> Vector] /\ F \in Matrix
      /\ m.residual \in [H -> Int]
      /\ DOMAIN m.tickers = H
  BY FactorsAre DEF IsPortfolio, IsModelOf, AnnualizationFactor, Holdings
<1>1. fb \in [H -> Vector]
  <2>1. ASSUME NEW j \in H, NEW k \in Factors
        PROVE  Total([l \in Factors |-> F[k][l] * b[j][l]]) \in Int
    <3>1. F[k] \in [Factors -> Int] /\ b[j] \in [Factors -> Int]
      BY <1>0 DEF Matrix, Vector
    <3> QED
      BY <3>1, <1>0, SumsInt
  <2> QED
    BY <2>1 DEF Vector
<1>2. ASSUME NEW j \in H
      PROVE  /\ Between(m, i, j) \in Int
             /\ Between(m, i, j) = Total([k \in Factors |-> b[i][k] * fb[j][k]])
             /\ StockCovariance(m)[i][j] = A * (Between(m, i, j)
                                                 + (IF i = j THEN m.residual[i] ELSE 0))
  <2>1. b[i] \in [Factors -> Int] /\ fb[j] \in [Factors -> Int]
    BY <1>0, <1>1 DEF Vector
  <2>2. Between(m, i, j) = Total([k \in Factors |-> b[i][k] * fb[j][k]])
    BY DEF Between
  <2>3. Between(m, i, j) \in Int
    <3> HIDE DEF fb
    <3> QED
      BY <1>0, <2>1, <2>2, SumsInt
  <2>4. StockCovariance(m)[i][j] = A * (Between(m, i, j)
                                          + (IF i = j THEN m.residual[i] ELSE 0))
    BY <1>0 DEF StockCovariance, Between
  <2> QED
    BY <2>2, <2>3, <2>4
<1>3. ASSUME NEW k \in Factors
      PROVE  Total([j \in H |-> fb[j][k] * w[j]]) = Turned(m, x)[k]
  <2>1. b \in [H -> [Factors -> Int]] /\ F[k] \in [Factors -> Int]
    BY <1>0 DEF Matrix, Vector
  <2>2. TimesRows(w, b, F[k], H, Factors) = TimesColumns(w, b, F[k], H, Factors)
    <3> DEFINE row == F[k]
    <3>1. row \in [Factors -> Int]
      BY <2>1
    <3> HIDE DEF row
    <3>2. TimesRows(w, b, row, H, Factors) = TimesColumns(w, b, row, H, Factors)
      BY <1>0, <2>1, <3>1, TotalBilinear
    <3> QED
      BY <3>2 DEF row
  <2>3. \A l \in Factors : x[l] = Total([j \in H |-> w[j] * b[j][l]])
    BY ExposureIs
  <2>4. TimesColumns(w, b, F[k], H, Factors) = Turned(m, x)[k]
    <3>1. [l \in Factors |-> F[k][l] * Total([j \in H |-> w[j] * b[j][l]])]
          = [l \in Factors |-> F[k][l] * x[l]]
      BY <2>3
    <3> QED
      BY <3>1 DEF TimesColumns, Turned
  <2>5. ASSUME NEW j \in H
        PROVE  fb[j][k] * w[j] = w[j] * Total([l \in Factors |-> b[j][l] * F[k][l]])
    <3>1. \A l \in Factors : F[k][l] * b[j][l] = b[j][l] * F[k][l]
      BY <2>1
    <3>2. [l \in Factors |-> F[k][l] * b[j][l]] = [l \in Factors |-> b[j][l] * F[k][l]]
      BY <3>1
    <3>3. fb[j][k] = Total([l \in Factors |-> b[j][l] * F[k][l]])
      BY <3>2
    <3>4. fb[j][k] \in Int /\ w[j] \in Int
      BY <1>0, <1>1 DEF Vector
    <3>5. fb[j][k] * w[j] = w[j] * fb[j][k]
      <4> HIDE DEF fb, w
      <4> QED
        BY <3>4
    <3> QED
      BY <3>3, <3>5
  <2>6. [j \in H |-> fb[j][k] * w[j]]
        = [j \in H |-> w[j] * Total([l \in Factors |-> b[j][l] * F[k][l]])]
    <3> HIDE DEF fb
    <3> QED
      BY <2>5
  <2> QED
    BY <2>2, <2>4, <2>6 DEF TimesRows
<1>4. Total([j \in H |-> Between(m, i, j) * w[j]])
      = Total([k \in Factors |-> b[i][k] * Turned(m, x)[k]])
  <2> DEFINE fbt == [k \in Factors |-> [j \in H |-> fb[j][k]]]
  <2>1. fbt \in [Factors -> [H -> Int]] /\ b[i] \in [Factors -> Int]
    BY <1>0, <1>1 DEF Vector
  <2>2. TimesRows(b[i], fbt, w, Factors, H) = TimesColumns(b[i], fbt, w, Factors, H)
    <3> HIDE DEF fbt
    <3> QED
      BY <1>0, <2>1, TotalBilinear
  <2>3. TimesRows(b[i], fbt, w, Factors, H) = Total([k \in Factors |-> b[i][k] * Turned(m, x)[k]])
    <3>1. ASSUME NEW k \in Factors
          PROVE  Total([j \in H |-> fbt[k][j] * w[j]]) = Turned(m, x)[k]
      <4>1. [j \in H |-> fbt[k][j] * w[j]] = [j \in H |-> fb[j][k] * w[j]]
        <5>1. \A j \in H : fbt[k][j] = fb[j][k]
          OBVIOUS
        <5> HIDE DEF fb, fbt
        <5> QED
          BY <5>1
      <4> QED
        BY <1>3, <4>1
    <3>2. [k \in Factors |-> b[i][k] * Total([j \in H |-> fbt[k][j] * w[j]])]
          = [k \in Factors |-> b[i][k] * Turned(m, x)[k]]
      <4> HIDE DEF fbt
      <4> QED
        BY <3>1
    <3> QED
      BY <3>2 DEF TimesRows
  <2>4. TimesColumns(b[i], fbt, w, Factors, H) = Total([j \in H |-> Between(m, i, j) * w[j]])
    <3>1. ASSUME NEW j \in H
          PROVE  w[j] * Total([k \in Factors |-> b[i][k] * fbt[k][j]]) = Between(m, i, j) * w[j]
      <4>1. [k \in Factors |-> b[i][k] * fbt[k][j]] = [k \in Factors |-> b[i][k] * fb[j][k]]
        <5>1. \A k \in Factors : fbt[k][j] = fb[j][k]
          OBVIOUS
        <5> HIDE DEF fb, fbt
        <5> QED
          BY <5>1
      <4>2. Total([k \in Factors |-> b[i][k] * fbt[k][j]]) = Between(m, i, j)
        BY <1>2, <4>1
      <4>3. Between(m, i, j) \in Int /\ w[j] \in Int
        BY <1>0, <1>2
      <4>4. w[j] * Between(m, i, j) = Between(m, i, j) * w[j]
        <5> HIDE DEF w
        <5> QED
          BY <4>3
      <4> QED
        BY <4>2, <4>4
    <3>2. [j \in H |-> w[j] * Total([k \in Factors |-> b[i][k] * fbt[k][j]])]
          = [j \in H |-> Between(m, i, j) * w[j]]
      <4> HIDE DEF fbt
      <4> QED
        BY <3>1
    <3> QED
      BY <3>2 DEF TimesColumns
  <2> QED
    BY <2>2, <2>3, <2>4
<1>5. Total([j \in H |-> StockCovariance(m)[i][j] * w[j]])
      = A * Total([j \in H |-> Between(m, i, j) * w[j]]) + A * (w[i] * m.residual[i])
  <2> DEFINE g == [j \in H |-> Between(m, i, j) * w[j]]
             d == [j \in H |-> IF i = j THEN w[i] * m.residual[i] ELSE 0]
             ga == [j \in H |-> A * g[j]]
             da == [j \in H |-> A * d[j]]
  <2>0. /\ A \in Int /\ A * 0 = 0
        /\ \A j \in H : Between(m, i, j) \in Int /\ w[j] \in Int /\ m.residual[j] \in Int
    <3>1. A * 0 = 0
      <4> HIDE DEF A
      <4> QED
        BY <1>0
    <3> QED
      BY <1>0, <1>2, <3>1
  <2>1. g \in [H -> Int] /\ d \in [H -> Int] /\ w[i] * m.residual[i] \in Int
    <3> HIDE DEF w
    <3> QED
      BY <2>0
  <2>2. ASSUME NEW j \in H
        PROVE  StockCovariance(m)[i][j] * w[j] = ga[j] + da[j]
    <3>1. \A u, v, c, y \in Int : (c * (u + y)) * v = c * (u * v) + c * (v * y)
      OBVIOUS
    <3>2. /\ A \in Int /\ Between(m, i, j) \in Int /\ w[j] \in Int /\ m.residual[i] \in Int
          /\ A * 0 = 0
      BY <2>0
    <3>3. CASE i = j
      <4>1. StockCovariance(m)[i][j] = A * (Between(m, i, j) + m.residual[i])
        BY <1>2, <3>3
      <4>2. StockCovariance(m)[i][j] * w[j]
              = A * (Between(m, i, j) * w[j]) + A * (w[j] * m.residual[i])
        <5> HIDE DEF A, w
        <5> QED
          BY <3>1, <3>2, <4>1
      <4> QED
        BY <4>2, <3>3
    <3>4. CASE i # j
      <4>1. StockCovariance(m)[i][j] = A * (Between(m, i, j) + 0)
        BY <1>2, <3>4
      <4>2. StockCovariance(m)[i][j] * w[j]
              = A * (Between(m, i, j) * w[j]) + A * (w[j] * 0)
        <5>1. 0 \in Int
          OBVIOUS
        <5> HIDE DEF A, w
        <5> QED
          BY <3>1, <3>2, <4>1, <5>1
      <4>3. w[j] * 0 = 0
        BY <3>2
      <4> QED
        BY <4>2, <4>3, <3>4
    <3> QED
      BY <3>3, <3>4
  <2>3. Total(g) \in Int /\ Total(d) = d[i] /\ d[i] = w[i] * m.residual[i]
    <3>1. d[i] = w[i] * m.residual[i] /\ \A y \in H : y # i => d[y] = 0
      OBVIOUS
    <3> HIDE DEF g, d
    <3> QED
      BY <1>0, <2>1, <3>1, TotalInt, TotalOne
  <2>4. Total(ga) = A * Total(g) /\ Total(da) = A * Total(d)
    <3> HIDE DEF g, d
    <3> QED
      BY <1>0, <2>1, TotalTimes
  <2>5. ga \in [H -> Int] /\ da \in [H -> Int]
    <3> HIDE DEF g, d, A
    <3> QED
      BY <1>0, <2>1
  <2>6. Total([j \in H |-> ga[j] + da[j]]) = Total(ga) + Total(da)
    <3> HIDE DEF ga, da
    <3> QED
      BY <1>0, <2>5, TotalPlus
  <2>7. [j \in H |-> StockCovariance(m)[i][j] * w[j]] = [j \in H |-> ga[j] + da[j]]
    <3> HIDE DEF ga, da
    <3> QED
      BY <2>2
  <2> QED
    BY <2>3, <2>4, <2>6, <2>7
<1>6. Total([k \in Factors |-> b[i][k] * Turned(m, x)[k]]) \in Int
  <2>1. b[i] \in [Factors -> Int] /\ Turned(m, x) \in [Factors -> Int]
    BY <1>0, ExposureIs DEF Vector
  <2> QED
    BY <1>0, <2>1, SumsInt
<1> QED
  <2>1. \A c, u, v \in Int : c * u + c * v = c * (u + v)
    OBVIOUS
  <2>2. A \in Int /\ w[i] * m.residual[i] \in Int
    BY <1>0
  <2>3. A * Total([k \in Factors |-> b[i][k] * Turned(m, x)[k]]) + A * (w[i] * m.residual[i])
        = A * (Total([k \in Factors |-> b[i][k] * Turned(m, x)[k]]) + w[i] * m.residual[i])
    BY <1>6, <2>1, <2>2
  <2> QED
    BY <1>4, <1>5, <2>3

\* The parts of a decomposition.
IsDecomposition(d) ==
    /\ d.variance \in Int /\ d.specific \in Int
    /\ d.byFactor \in Vector /\ d.betas \in Vector
    /\ Total(d.byStock) = d.variance
    /\ Total(d.byFactor) + d.specific = d.variance

LEMMA EulerSums ==
    ASSUME NEW p, IsPortfolio(p), NEW m, IsModelOf(m, Holdings(p)), m.tickers = p.tickers, NEW md
    PROVE  IsDecomposition(RunRiskDecomposition(md, m, p))
<1> DEFINE H == Holdings(p)
           A == AnnualizationFactor(m.frequency)
           w == p.weights
           x == Exposure(m, p)
           y == Turned(m, x)
           b == m.betas
           r == m.residual
           own == [i \in H |-> Total([k \in Factors |-> b[i][k] * y[k]])]
           wo  == [i \in H |-> w[i] * own[i]]
           wwr == [i \in H |-> w[i] * w[i] * r[i]]
           part == [i \in H |-> w[i] * Total([j \in H |-> StockCovariance(m)[i][j] * w[j]])]
           d == RunRiskDecomposition(md, m, p)
<1>0. /\ IsFiniteSet(H) /\ IsFiniteSet(Factors) /\ A \in Int
      /\ w \in [H -> Int] /\ b \in [H -> [Factors -> Int]] /\ r \in [H -> Int]
      /\ x \in [Factors -> Int] /\ y \in [Factors -> Int]
  <2>1. A \in Int
    BY DEF AnnualizationFactor
  <2>2. x \in Vector /\ y \in Vector
    BY ExposureIs
  <2>3. IsFiniteSet(H) /\ w \in [H -> Int]
    BY DEF IsPortfolio
  <2>4. b \in [H -> [Factors -> Int]] /\ r \in [H -> Int]
    BY DEF IsModelOf, Vector
  <2> HIDE DEF A, x, y, H, w, b, r
  <2> QED
    BY <2>1, <2>2, <2>3, <2>4, FactorsAre DEF Vector
<1>1. own \in [H -> Int]
  <2>1. ASSUME NEW i \in H PROVE Total([k \in Factors |-> b[i][k] * y[k]]) \in Int
    <3> DEFINE bi == b[i]
    <3>1. bi \in [Factors -> Int]
      BY <1>0
    <3>2. y \in [Factors -> Int] /\ IsFiniteSet(Factors)
      BY <1>0
    <3> HIDE DEF bi, y
    <3>3. Total([k \in Factors |-> bi[k] * y[k]]) \in Int
      BY <3>1, <3>2, SumsInt
    <3> QED
      BY <3>3 DEF bi
  <2> QED
    BY <2>1
<1>2. wo \in [H -> Int] /\ wwr \in [H -> Int]
  <2> HIDE DEF own, w, r
  <2> QED
    BY <1>0, <1>1
<1>3. Total(wo) = Total([k \in Factors |-> y[k] * x[k]])
  <2>1. TimesRows(w, b, y, H, Factors) = TimesColumns(w, b, y, H, Factors)
    <3> HIDE DEF w, b, y, H
    <3> QED
      BY <1>0, TotalBilinear
  <2>2. TimesRows(w, b, y, H, Factors) = Total(wo)
    <3>1. \A i \in H : own[i] = Total([k \in Factors |-> b[i][k] * y[k]])
      OBVIOUS
    <3>2. wo = [i \in H |-> w[i] * Total([k \in Factors |-> b[i][k] * y[k]])]
      <4> HIDE DEF own
      <4> QED
        BY <3>1
    <3> QED
      BY <3>2 DEF TimesRows
  <2>3. TimesColumns(w, b, y, H, Factors) = Total([k \in Factors |-> y[k] * x[k]])
    <3>1. \A k \in Factors : x[k] = Total([i \in H |-> w[i] * b[i][k]])
      BY ExposureIs
    <3>2. [k \in Factors |-> y[k] * Total([i \in H |-> w[i] * b[i][k]])]
          = [k \in Factors |-> y[k] * x[k]]
      <4> HIDE DEF x, y
      <4> QED
        BY <3>1
    <3> QED
      BY <3>2 DEF TimesColumns
  <2> QED
    BY <2>1, <2>2, <2>3
<1>4. /\ d.byFactor \in [Factors -> Int]
      /\ Total(d.byFactor) = A * Total([k \in Factors |-> y[k] * x[k]])
  <2> DEFINE yx == [k \in Factors |-> y[k] * x[k]]
             f  == [k \in Factors |-> A * yx[k]]
  <2>1. yx \in [Factors -> Int]
    <3> HIDE DEF x, y
    <3> QED
      BY <1>0
  <2>2. f \in [Factors -> Int]
    <3> HIDE DEF yx, A
    <3> QED
      BY <1>0, <2>1
  <2>3. [k \in Factors |-> A * x[k] * y[k]] = f
    <3>1. \A u, v, z \in Int : u * v * z = u * (z * v)
      OBVIOUS
    <3>2. ASSUME NEW k \in Factors PROVE A * x[k] * y[k] = A * (y[k] * x[k])
      <4>1. x[k] \in Int /\ y[k] \in Int
        BY <1>0
      <4> HIDE DEF A, x, y
      <4> QED
        BY <3>1, <4>1, <1>0
    <3> HIDE DEF A, x, y
    <3> QED
      BY <3>2
  <2>4. FactorContributions(m, p) = f
    <3>1. \A k \in Factors : y[k] = Total([l \in Factors |-> m.covariance[k][l] * x[l]])
      BY DEF Turned
    <3>2. [k \in Factors |-> A * x[k] * Total([l \in Factors |-> m.covariance[k][l] * x[l]])]
          = [k \in Factors |-> A * x[k] * y[k]]
      <4> HIDE DEF x, y, A
      <4> QED
        BY <3>1
    <3>3. ByFactor(f) = f
      <4> HIDE DEF f
      <4> QED
        BY <2>2, ByFactorIs DEF Vector
    <3> HIDE DEF f, y
    <3> QED
      BY <2>3, <3>2, <3>3 DEF FactorContributions
  <2>5. Total(f) = A * Total(yx)
    <3> HIDE DEF yx, A
    <3> QED
      BY <1>0, <2>1, TotalTimes
  <2>6. d.byFactor = f
    <3> HIDE DEF f
    <3> QED
      BY <2>4 DEF RunRiskDecomposition
  <2> QED
    BY <2>2, <2>5, <2>6
<1>5. d.specific = A * Total(wwr) /\ d.byStock = part /\ d.variance = Total(part) /\ d.betas = x
  BY DEF RunRiskDecomposition, PortfolioVariance
<1>6. Total(part) = A * Total(wo) + A * Total(wwr)
  <2> DEFINE ao == [i \in H |-> A * wo[i]]
             ar == [i \in H |-> A * wwr[i]]
  <2>1. ASSUME NEW i \in H PROVE part[i] = ao[i] + ar[i]
    <3>1. Total([j \in H |-> StockCovariance(m)[i][j] * w[j]]) = A * (own[i] + w[i] * r[i])
      BY HoldingContribution
    <3>2. own[i] \in Int /\ w[i] \in Int /\ r[i] \in Int
      BY <1>0, <1>1
    <3>3. \A a, u, v, z \in Int : u * (a * (v + u * z)) = a * (u * v) + a * (u * u * z)
      BY SMT
    <3>4. part[i] = w[i] * (A * (own[i] + w[i] * r[i]))
      <4> HIDE DEF own, A
      <4> QED
        BY <3>1
    <3>5. ao[i] = A * (w[i] * own[i]) /\ ar[i] = A * (w[i] * w[i] * r[i])
      <4> HIDE DEF own, A, w, r
      <4> QED
        OBVIOUS
    <3> HIDE DEF own, A, w, r, part, ao, ar
    <3> QED
      BY <3>2, <3>3, <3>4, <3>5, <1>0
  <2>2. Total(ao) = A * Total(wo) /\ Total(ar) = A * Total(wwr)
    <3> HIDE DEF wo, wwr, A
    <3> QED
      BY <1>0, <1>2, TotalTimes
  <2>3. ao \in [H -> Int] /\ ar \in [H -> Int]
    <3> HIDE DEF wo, wwr, A
    <3> QED
      BY <1>0, <1>2
  <2>4. Total([i \in H |-> ao[i] + ar[i]]) = Total(ao) + Total(ar)
    <3> HIDE DEF ao, ar
    <3> QED
      BY <1>0, <2>3, TotalPlus
  <2>5. part = [i \in H |-> ao[i] + ar[i]]
    <3> HIDE DEF ao, ar
    <3>1. \E f : part = [i \in H |-> f[i]]
      <4> WITNESS part
      <4> QED
        OBVIOUS
    <3> QED
      BY <2>1, <3>1
  <2> QED
    BY <2>2, <2>4, <2>5
<1>7. Total(wo) \in Int /\ Total(wwr) \in Int
  <2> HIDE DEF wo, wwr
  <2> QED
    BY <1>0, <1>2, TotalInt
<1> QED
  <2>1. A * Total(wo) \in Int /\ A * Total(wwr) \in Int
    <3> HIDE DEF A, wo, wwr
    <3> QED
      BY <1>0, <1>7
  <2> HIDE DEF A, wo, wwr, part, d, x, y
  <2> QED
    BY <1>0, <1>3, <1>4, <1>5, <1>6, <2>1 DEF IsDecomposition, Vector, d

(***************************************************************************)
(* The returns of the index are moves it made                              *)
(***************************************************************************)
\* A set of numbers in order: a sequence of its members.
LEMMA AscendingIn ==
    ASSUME NEW S \in SUBSET Int, IsFiniteSet(S)
    PROVE  /\ Cardinality(S) \in Nat
           /\ Ascending(S) \in [1 .. Cardinality(S) -> S]
           /\ \A i \in 1 .. Cardinality(S) :
                 Cardinality({m \in S : m < Ascending(S)[i]}) = i - 1
<1> DEFINE key == [n \in S |-> n]
           Place(n, i) == Cardinality({m \in S : m < n}) = i - 1
<1>1. Cardinality(S) \in Nat
  BY FS_CardinalityType
<1>2. ASSUME NEW i \in 1 .. Cardinality(S) PROVE \E n \in S : Place(n, i)
  <2>1. key \in [S -> Int] /\ \A a, b \in S : key[a] = key[b] => a = b
    OBVIOUS
  <2>2. i - 1 \in Nat /\ i - 1 < Cardinality(S)
    BY <1>1
  <2>3. \E n \in S : Cardinality(Below(S, key, n)) = i - 1
    <3> HIDE DEF key
    <3> QED
      BY <2>1, <2>2, RankExists
  <2>4. \A n \in S : Below(S, key, n) = {m \in S : m < n}
    BY DEF Below
  <2> QED
    BY <2>3, <2>4
<1>3. \A i \in 1 .. Cardinality(S) : Ascending(S)[i] = CHOOSE n \in S : Place(n, i)
  BY DEF Ascending
<1>4. \A i \in 1 .. Cardinality(S) : Ascending(S)[i] \in S /\ Place(Ascending(S)[i], i)
  BY <1>2, <1>3
<1>5. Ascending(S) \in [1 .. Cardinality(S) -> S]
  <2>1. \E f : Ascending(S) = [i \in 1 .. Cardinality(S) |-> f[i]]
    <3> DEFINE N == 1 .. Cardinality(S)
               pick(i) == CHOOSE n \in S : Cardinality({m \in S : m < n}) = i - 1
               f == [i \in N |-> pick(i)]
    <3>1. Ascending(S) = f
      BY DEF Ascending
    <3> HIDE DEF N, pick
    <3>2. f = [i \in N |-> f[i]]
      OBVIOUS
    <3> QED
      BY <3>1, <3>2 DEF N
  <2> QED
    BY <1>4, <2>1
<1> QED
  BY <1>1, <1>4, <1>5

LEMMA AscendingSeq ==
    ASSUME NEW S \in SUBSET Int, IsFiniteSet(S)
    PROVE  Ascending(S) \in Seq(S) /\ Len(Ascending(S)) = Cardinality(S)
  BY AscendingIn

(***************************************************************************)
(* Alignment                                                               *)
(***************************************************************************)
Closes(series) == {series[d] : d \in DOMAIN series}
Slots(series) == Closes(series) \cup {None}
Carried(series) == [last : Slots(series), gap : Nat, close : Slots(series)]

AlignStart == [last |-> None, gap |-> 0, close |-> None]

AlignBody(series, calendar, i, before) ==
    LET gap == before.gap + 1
    IN  IF calendar[i] \in DOMAIN series
        THEN [last |-> series[calendar[i]], gap |-> 0, close |-> series[calendar[i]]]
        ELSE [last |-> before.last, gap |-> gap,
              close |-> IF gap <= MaxForwardFill THEN before.last ELSE None]

AlignWalk(series, calendar, walk) ==
    walk = [i \in 0 .. Len(calendar) |->
              IF i = 0 THEN AlignStart ELSE AlignBody(series, calendar, i, walk[i - 1])]

AlignStep(series, calendar) ==
    [p \in (1 .. Len(calendar)) \X Carried(series) |-> AlignBody(series, calendar, p[1], p[2])]

LEMMA AlignIsWalk ==
    ASSUME NEW series, NEW calendar
    PROVE  AlignToCalendar(series, calendar)
           = [i \in 1 .. Len(calendar) |-> (CHOOSE walk : AlignWalk(series, calendar, walk))[i].close]
  BY DEF AlignToCalendar, AlignWalk, AlignBody, AlignStart

\* The loop of align_to_calendar.
LEMMA Aligned ==
    ASSUME NEW series, NEW calendar, Len(calendar) \in Nat
    PROVE  \E walk :
              /\ \A i \in 0 .. Len(calendar) : walk[i] \in Carried(series)
              /\ \A i \in 1 .. Len(calendar) :
                    walk[i] = AlignBody(series, calendar, i, walk[i - 1])
              /\ walk[0] = AlignStart
              /\ AlignToCalendar(series, calendar) = [i \in 1 .. Len(calendar) |-> walk[i].close]
<1> DEFINE n == Len(calendar)
           V == Carried(series)
           step == AlignStep(series, calendar)
           chosen == CHOOSE walk : AlignWalk(series, calendar, walk)
<1>1. AlignStart \in V
  BY DEF AlignStart, Carried, Slots
<1>2. /\ \A i \in 1 .. n : \A v \in V : step[<<i, v>>] = AlignBody(series, calendar, i, v)
      /\ step \in [(1 .. n) \X V -> V]
  <2>1. ASSUME NEW i \in 1 .. n, NEW before \in V
        PROVE  AlignBody(series, calendar, i, before) \in V
    <3>1. before.gap + 1 \in Nat /\ before.last \in Slots(series) /\ None \in Slots(series)
      BY DEF Carried, Slots
    <3>2. CASE calendar[i] \in DOMAIN series
      <4>1. series[calendar[i]] \in Slots(series)
        BY <3>2 DEF Slots, Closes
      <4> QED
        BY <3>2, <4>1 DEF AlignBody, Carried
    <3>3. CASE calendar[i] \notin DOMAIN series
      BY <3>1, <3>3 DEF AlignBody, Carried
    <3> QED
      BY <3>2, <3>3
  <2>2. \A p \in (1 .. n) \X V : p[1] \in 1 .. n /\ p[2] \in V
    OBVIOUS
  <2>3. \A p \in (1 .. n) \X V : AlignBody(series, calendar, p[1], p[2]) \in V
    <3> HIDE DEF V, n
    <3> QED
      BY <2>1, <2>2
  <2> HIDE DEF V
  <2> QED
    BY <2>3 DEF AlignStep, V
<1>3. PICK w \in [0 .. n -> V] : IsLoop(w, n, AlignStart, step)
  <2> HIDE DEF step, V, n
  <2> QED
    BY <1>1, <1>2, LoopExists DEF n
<1>4. AlignWalk(series, calendar, w)
  <2>1. ASSUME NEW i \in 1 .. n PROVE w[i] = AlignBody(series, calendar, i, w[i - 1])
    <3>1. w[i] = step[<<i, w[i - 1]>>] /\ w[i - 1] \in V
      BY <1>3 DEF IsLoop
    <3> HIDE DEF step, V, n
    <3> QED
      BY <3>1, <1>2
  <2>2. w[0] = AlignStart
    BY <1>3 DEF IsLoop
  <2>3. w = [i \in 0 .. n |-> w[i]]
    BY <1>3
  <2>4. \A i \in 0 .. n : i # 0 => i \in 1 .. n
    OBVIOUS
  <2>5. \A i \in 0 .. n : w[i] = IF i = 0 THEN AlignStart ELSE AlignBody(series, calendar, i, w[i - 1])
    BY <2>1, <2>2, <2>4
  <2> HIDE DEF n
  <2> QED
    BY <2>3, <2>5 DEF AlignWalk, n
<1>5. AlignWalk(series, calendar, chosen)
  BY <1>4
<1>6. /\ chosen[0] = AlignStart
      /\ \A i \in 1 .. n : chosen[i] = AlignBody(series, calendar, i, chosen[i - 1])
  <2> HIDE DEF chosen
  <2> QED
    BY <1>5 DEF AlignWalk
<1>7. \A i \in 0 .. n : chosen[i] \in V
  <2> HIDE DEF chosen, V, step, n
  <2>1. GoesRound(chosen, n, V, step)
    BY <1>2, <1>6 DEF GoesRound
  <2> QED
    BY <1>1, <1>2, <1>6, <2>1, LoopHolds DEF n
<1> QED
  <2> HIDE DEF V
  <2>1. AlignToCalendar(series, calendar) = [i \in 1 .. Len(calendar) |-> chosen[i].close]
    BY AlignIsWalk
  <2> HIDE DEF chosen
  <2> WITNESS chosen
  <2> QED
    BY <1>6, <1>7, <2>1 DEF V

LEMMA CalendarIn ==
    ASSUME NEW series, IsSeries(series)
    PROVE  /\ Calendar(series) \in Seq(DOMAIN series)
           /\ Calendar(series) \in Seq(Nat)
           /\ Len(Calendar(series)) = Cardinality(DOMAIN series)
           /\ Len(Calendar(series)) \in Nat
           /\ DOMAIN Calendar(series) = 1 .. Len(Calendar(series))
<1>1. DOMAIN series \in SUBSET Int /\ IsFiniteSet(DOMAIN series) /\ DOMAIN series \subseteq Nat
  BY DEF IsSeries
<1>2. Calendar(series) \in Seq(DOMAIN series) /\ Len(Calendar(series)) = Cardinality(DOMAIN series)
  BY <1>1, AscendingSeq DEF Calendar
<1> QED
  BY <1>1, <1>2

\* On its own calendar the index has every close.
LEMMA IndexAligned ==
    ASSUME NEW series, IsSeries(series)
    PROVE  /\ AlignToCalendar(series, Calendar(series)) \in Seq(Closes(series))
           /\ Len(AlignToCalendar(series, Calendar(series))) = Len(Calendar(series))
<1> DEFINE calendar == Calendar(series)
<1>1. /\ Len(calendar) \in Nat
      /\ \A i \in 1 .. Len(calendar) : calendar[i] \in DOMAIN series
  BY CalendarIn
<1>2. PICK walk : /\ \A i \in 1 .. Len(calendar) :
                        walk[i] = AlignBody(series, calendar, i, walk[i - 1])
                  /\ AlignToCalendar(series, calendar) = [i \in 1 .. Len(calendar) |-> walk[i].close]
  <2> HIDE DEF calendar
  <2> QED
    BY <1>1, Aligned
<1>3. \A i \in 1 .. Len(calendar) : walk[i].close \in Closes(series)
  <2>1. SUFFICES ASSUME NEW i \in 1 .. Len(calendar) PROVE walk[i].close \in Closes(series)
    OBVIOUS
  <2>2. calendar[i] \in DOMAIN series /\ walk[i] = AlignBody(series, calendar, i, walk[i - 1])
    <3> HIDE DEF calendar
    <3> QED
      BY <1>1, <1>2
  <2>3. walk[i].close = series[calendar[i]]
    <3> HIDE DEF calendar
    <3> QED
      BY <2>2 DEF AlignBody
  <2> HIDE DEF calendar
  <2> QED
    BY <2>2, <2>3 DEF Closes
<1> HIDE DEF calendar
<1> QED
  BY <1>1, <1>2, <1>3 DEF calendar

\* The least of a set of numbers.
LEMMA MinIs ==
    ASSUME NEW S \in SUBSET Nat, S # {}
    PROVE  Min(S) \in S /\ \A k \in S : Min(S) <= k
  BY LeastNumber DEF Min

\* What LoadAlignedPrices keeps of the index.
LEMMA PricesOfIndex ==
    ASSUME NEW raw, IsSeries(raw["MARKET"]), NEW tickers, NEW prices,
           prices = LoadAlignedPrices(raw, tickers), prices.outcome = "ok"
    PROVE  /\ prices.dates \in Seq(Nat)
           /\ prices.factors["MARKET"] \in Seq(Closes(raw["MARKET"]))
           /\ Len(prices.dates) = Len(prices.factors["MARKET"])
           /\ Len(prices.dates) \in Nat \ {0}
           /\ DOMAIN prices.stocks = tickers
<1> DEFINE series == raw["MARKET"]
           calendar == Calendar(series)
           aligned == [s \in tickers \cup FactorTickers |-> AlignToCalendar(raw[s], calendar)]
           start == StartIndex(aligned, Len(calendar))
           kept == [s \in DOMAIN aligned |-> SubSeq(aligned[s], start, Len(calendar))]
<1>2. /\ calendar \in Seq(Nat) /\ Len(calendar) \in Nat
      /\ AlignToCalendar(series, calendar) \in Seq(Closes(series))
      /\ Len(AlignToCalendar(series, calendar)) = Len(calendar)
  BY CalendarIn, IndexAligned
<1>3. start \in Nat /\ start >= 1
  <2> DEFINE S == {Len(calendar) + 1} \cup
        {i \in 1 .. Len(calendar) : \A f \in FactorTickers : aligned[f][i] # None}
  <2>1. S \in SUBSET Nat /\ S # {} /\ \A i \in S : i >= 1
    <3> HIDE DEF calendar, aligned
    <3> QED
      BY <1>2
  <2>2. start = Min(S)
    BY DEF StartIndex
  <2>3. Min(S) \in S
    <3> HIDE DEF S
    <3> QED
      BY <2>1, MinIs
  <2> HIDE DEF S, start
  <2> QED
    BY <2>1, <2>2, <2>3
<1>1. /\ start <= Len(calendar)
      /\ prices.dates = SubSeq(calendar, start, Len(calendar))
      /\ prices.factors["MARKET"] = SubSeq(AlignToCalendar(series, calendar), start, Len(calendar))
      /\ DOMAIN prices.stocks = tickers
  <2>1. kept["MARKET"] = SubSeq(AlignToCalendar(series, calendar), start, Len(calendar))
    <3>1. "MARKET" \in FactorTickers
      BY DEF FactorTickers
    <3> HIDE DEF start, calendar
    <3> QED
      BY <3>1
  <2>2. Failed("error").outcome # "ok" /\ Failed("panic").outcome # "ok" /\ "MARKET" \in FactorTickers
    BY DEF Failed, FactorTickers
  <2>3. /\ start <= Len(calendar)
        /\ prices.dates = SubSeq(calendar, start, Len(calendar))
        /\ prices.factors = [f \in FactorTickers |-> kept[f]]
        /\ DOMAIN prices.stocks = tickers
    <3> DEFINE stocks == [t \in tickers |-> TrailingNonNoneRun(kept[t])]
               dates == SubSeq(calendar, start, Len(calendar))
               factors == [f \in FactorTickers |-> kept[f]]
               whole == [outcome |-> "ok", dates |-> dates, stocks |-> stocks,
                         factors |-> factors]
    <3>1. prices = IF \E t \in tickers : stocks[t] = <<>> THEN Failed("error")
                   ELSE IF \/ \E f \in FactorTickers : Missing(kept[f]) # {}
                           \/ start > Len(calendar)
                   THEN Failed("panic") ELSE whole
      BY DEF LoadAlignedPrices
    <3> HIDE DEF start, calendar, kept, stocks
    <3>2. prices = whole /\ ~(start > Len(calendar))
      BY <3>1, <2>2
    <3>3. DOMAIN stocks = tickers
      BY DEF stocks
    <3>4. start <= Len(calendar)
      <4>1. start \in Int /\ Len(calendar) \in Int
        BY <1>2, <1>3
      <4> QED
        BY <3>2, <4>1
    <3>5. prices.dates = dates /\ prices.factors = factors /\ prices.stocks = stocks
      <4> HIDE DEF dates, factors
      <4> QED
        BY <3>2
    <3> HIDE DEF whole
    <3> QED
      BY <3>3, <3>4, <3>5
  <2> HIDE DEF start, calendar, kept
  <2> QED
    BY <2>1, <2>2, <2>3
<1> HIDE DEF start, calendar
<1> QED
  BY <1>1, <1>2, <1>3

\* A series as long as the dates is resampled where it stands.
LEMMA ResampleWhole ==
    ASSUME NEW V, NEW closes \in Seq(V), NEW indices \in SUBSET (1 .. Len(closes))
    PROVE  Resample(closes, indices, Len(closes)) \in Seq(V)
<1> DEFINE n == Len(closes)
           offset == n - n
           kept == indices \ 1 .. offset
           own == Ascending(kept)
<1>1. n \in Nat /\ offset = 0 /\ \A i \in 1 .. n : closes[i] \in V
  OBVIOUS
<1>2. kept \in SUBSET Int /\ IsFiniteSet(kept) /\ kept \subseteq 1 .. n
  <2>1. IsFiniteSet(1 .. n)
    <3>1. 1 \in Int /\ n \in Int
      BY <1>1
    <3> HIDE DEF n
    <3> QED
      BY <3>1, FS_Interval, Zenon
  <2>2. kept \in SUBSET (1 .. n)
    OBVIOUS
  <2>3. IsFiniteSet(kept)
    <3> HIDE DEF kept, n
    <3> QED
      BY <2>1, <2>2, FS_Subset
  <2> HIDE DEF kept, n
  <2> QED
    BY <2>2, <2>3
<1>3. own \in Seq(kept)
  <2> HIDE DEF kept
  <2> QED
    BY <1>2, AscendingSeq
<1>4. /\ DOMAIN own = 1 .. Len(own) /\ Len(own) \in Nat
      /\ \A k \in DOMAIN own : own[k] - offset \in 1 .. n
  <2>1. /\ DOMAIN own = 1 .. Len(own) /\ Len(own) \in Nat
        /\ \A k \in DOMAIN own : own[k] \in kept
    <3> HIDE DEF own, kept
    <3> QED
      BY <1>3
  <2>2. \A i \in kept : i - offset \in 1 .. n
    <3> HIDE DEF kept, n, offset
    <3> QED
      BY <1>1, <1>2
  <2> HIDE DEF own, kept, n, offset
  <2> QED
    BY <2>1, <2>2
<1>5. \A k \in DOMAIN own : closes[own[k] - offset] \in V
  <2> HIDE DEF own, offset
  <2> QED
    BY <1>1, <1>4
<1> HIDE DEF own, offset
<1>6. [k \in DOMAIN own |-> closes[own[k] - offset]] \in Seq(V)
  BY <1>4, <1>5
<1> QED
  BY <1>6 DEF Resample, own, offset

\* A return is a difference of closes.
LEMMA ReturnsAreMoves ==
    ASSUME NEW series, NEW closes \in Seq(Closes(series))
    PROVE  LogReturns(closes) \in Seq(Moves(series))
<1>1. ASSUME NEW i \in 1 .. Len(closes) - 1
      PROVE  closes[i + 1] - closes[i] \in Moves(series)
  <2>1. closes[i + 1] \in Closes(series) /\ closes[i] \in Closes(series)
    OBVIOUS
  <2> QED
    BY <2>1 DEF Closes, Moves
<1>2. [i \in 1 .. Len(closes) - 1 |-> closes[i + 1] - closes[i]] \in Seq(Moves(series))
  <2>1. CASE Len(closes) = 0
    <3>1. 1 .. Len(closes) - 1 = 1 .. 0
      BY <2>1
    <3> DEFINE g == [i \in 1 .. Len(closes) - 1 |-> closes[i + 1] - closes[i]]
    <3>2. g \in [1 .. 0 -> Moves(series)] /\ 0 \in Nat
      BY <3>1
    <3> HIDE DEF g
    <3>3. \A N \in Nat : g \in [1 .. N -> Moves(series)] => g \in Seq(Moves(series))
      OBVIOUS
    <3>4. g \in Seq(Moves(series))
      BY <3>2, <3>3
    <3> QED
      BY <3>4 DEF g
  <2>2. CASE Len(closes) # 0
    <3> DEFINE N == Len(closes) - 1
               g == [i \in 1 .. N |-> closes[i + 1] - closes[i]]
    <3>1. N \in Nat
      BY <2>2
    <3>2. g \in [1 .. N -> Moves(series)]
      BY <1>1
    <3> HIDE DEF N, g
    <3>3. g \in Seq(Moves(series))
      BY <3>1, <3>2
    <3> QED
      BY <3>3 DEF N, g
  <2> QED
    BY <2>1, <2>2
<1> QED
  BY <1>2 DEF LogReturns

Loadable(raw, tickers, frequency, md) ==
    /\ IsSeries(raw["MARKET"])
    /\ md = LoadMarketData(raw, tickers, frequency)
    /\ md.outcome = "ok"

\* The returns of the index are moves it made.
LEMMA MarketMoves ==
    ASSUME NEW raw, NEW tickers, NEW frequency, NEW md, Loadable(raw, tickers, frequency, md)
    PROVE  md.factors["MARKET"] \in Seq(Moves(raw["MARKET"]))
<1> DEFINE prices == LoadAlignedPrices(raw, tickers)
           closes == prices.factors["MARKET"]
           slots == Len(prices.dates)
           indices == IF frequency = "weekly"
                      THEN WeeklyResampleIndices(prices.dates) ELSE 1 .. slots
           market == LogReturns(Resample(closes, indices, slots))
<1>1. prices.outcome = "ok" /\ md = ToReturns(prices, frequency)
  <2> HIDE DEF prices
  <2> QED
    BY DEF Loadable, LoadMarketData, prices
<1>2. /\ prices.dates \in Seq(Nat) /\ slots = Len(closes)
      /\ closes \in Seq(Closes(raw["MARKET"]))
  <2> HIDE DEF prices
  <2> QED
    BY <1>1, PricesOfIndex DEF prices, Loadable
<1>3. indices \in SUBSET (1 .. Len(closes))
  <2> HIDE DEF prices
  <2> QED
    BY <1>2 DEF WeeklyResampleIndices
<1>4. market \in Seq(Moves(raw["MARKET"]))
  <2> HIDE DEF prices, indices, closes
  <2>1. Resample(closes, indices, Len(closes)) \in Seq(Closes(raw["MARKET"]))
    BY <1>2, <1>3, ResampleWhole
  <2> QED
    BY <1>2, <2>1, ReturnsAreMoves
<1>5. md.factors["MARKET"] = market
  <2> DEFINE names == {FactorNames[k] : k \in DOMAIN FactorNames}
             bank == LogReturns(Resample(prices.factors["BANK"], indices, slots))
             at(f) == LogReturns(Resample(prices.factors[f], indices, slots))
             factors == [f \in names |-> IF f = "RATES_PROXY"
                                         THEN [i \in DOMAIN market |-> bank[i] - market[i]]
                                         ELSE at(f)]
  <2>1. md.factors = factors
    BY <1>1 DEF ToReturns
  <2>2. "MARKET" \in names
    <3>1. 1 \in DOMAIN FactorNames /\ FactorNames[1] = "MARKET"
      BY DEF FactorNames
    <3> QED
      BY <3>1
  <2>3. factors["MARKET"] = at("MARKET")
    <3> HIDE DEF names, prices, indices, slots
    <3> QED
      BY <2>2
  <2> QED
    BY <2>1, <2>3
<1> QED
  BY <1>4, <1>5

(***************************************************************************)
(* The regime of today is one of the three                                 *)
(***************************************************************************)
Weights == [States -> Nat]
Square == [States -> Weights]

LEMMA StatesAre == States = 1 .. 3 /\ States = {1, 2, 3} /\ IsFiniteSet(States)
<1>1. States = 1 .. 3 /\ States = {1, 2, 3}
  BY DEF States
<1>2. 1 \in Int /\ 3 \in Int
  OBVIOUS
<1>3. IsFiniteSet(1 .. 3)
  BY <1>2, FS_Interval, Zenon
<1> QED
  BY <1>1, <1>3

\* A tuple by state is the function.
LEMMA ByStateIs == ASSUME NEW S, NEW f \in [States -> S] PROVE ByState(f) = f
  BY DEF ByState, States

LEMMA VecMatMulIn ==
    ASSUME NEW v \in Weights, NEW m \in [States -> Weights]
    PROVE  VecMatMul(v, m) \in Weights
<1> DEFINE f == [j \in States |-> v[1] * m[1][j] + v[2] * m[2][j] + v[3] * m[3][j]]
<1>1. \A a, b, c, x, y, z \in Nat : a * x + b * y + c * z \in Nat
  <2>1. \A a, x \in Nat : a * x \in Nat
    OBVIOUS
  <2> QED
    BY <2>1
<1>2. ASSUME NEW j \in States PROVE f[j] \in Nat
  <2>1. /\ v[1] \in Nat /\ v[2] \in Nat /\ v[3] \in Nat
        /\ m[1][j] \in Nat /\ m[2][j] \in Nat /\ m[3][j] \in Nat
    BY StatesAre DEF Weights
  <2>2. f[j] = v[1] * m[1][j] + v[2] * m[2][j] + v[3] * m[3][j]
    OBVIOUS
  <2> HIDE DEF f
  <2> QED
    BY <1>1, <2>1, <2>2
<1>3. f \in [States -> Nat]
  BY <1>2
<1>4. ByState(f) = f
  <2> HIDE DEF f
  <2> QED
    BY <1>3, ByStateIs
<1> QED
  BY <1>3, <1>4 DEF VecMatMul, Weights

Observation(hmm, observed, moves) ==
    /\ IsFit(hmm, moves)
    /\ observed \in Seq(moves) /\ observed # << >>

\* What alpha is on a day, from what came before.
AlphaBody(hmm, observed, t, before) ==
    ByState([k \in States |-> before[k] * hmm.density[k][observed[t]]])

AlphaWalk(hmm, observed, alpha) ==
    alpha = [t \in DOMAIN observed |->
              AlphaBody(hmm, observed, t,
                        IF t = 1 THEN hmm.initial ELSE VecMatMul(alpha[t - 1], hmm.transition))]

LEMMA ForwardIsWalk ==
    ASSUME NEW hmm, NEW observed
    PROVE  Forward(hmm, observed)
           = [t \in DOMAIN observed |-> (CHOOSE alpha : AlphaWalk(hmm, observed, alpha))[t]]
  BY DEF Forward, AlphaWalk, AlphaBody

LEMMA AlphaBodyIn ==
    ASSUME NEW hmm, NEW observed, NEW moves, Observation(hmm, observed, moves),
           NEW t \in 1 .. Len(observed), NEW before \in Weights
    PROVE  AlphaBody(hmm, observed, t, before) \in Weights
<1> DEFINE f == [k \in States |-> before[k] * hmm.density[k][observed[t]]]
<1>1. observed[t] \in moves
  BY DEF Observation
<1>2. ASSUME NEW k \in States PROVE f[k] \in Nat
  <2>1. before[k] \in Nat /\ hmm.density[k][observed[t]] \in Nat
    BY <1>1 DEF Observation, IsFit, Weights, Likelihoods
  <2>2. f[k] = before[k] * hmm.density[k][observed[t]]
    OBVIOUS
  <2>3. \A a, b \in Nat : a * b \in Nat
    OBVIOUS
  <2> HIDE DEF f
  <2> QED
    BY <2>1, <2>2, <2>3
<1>3. f \in [States -> Nat]
  BY <1>2
<1>4. ByState(f) = f
  <2> HIDE DEF f
  <2> QED
    BY <1>3, ByStateIs
<1> QED
  BY <1>3, <1>4 DEF AlphaBody, Weights

\* What alpha is: it solves its equations.
LEMMA ForwardIs ==
    ASSUME NEW hmm, NEW observed, NEW moves, Observation(hmm, observed, moves)
    PROVE  \A t \in 1 .. Len(observed) :
              /\ Forward(hmm, observed)[t] \in Weights
              /\ Forward(hmm, observed)[t]
                    = AlphaBody(hmm, observed, t,
                          IF t = 1 THEN hmm.initial
                          ELSE VecMatMul(Forward(hmm, observed)[t - 1], hmm.transition))
<1> DEFINE n == Len(observed)
           chosen == CHOOSE alpha : AlphaWalk(hmm, observed, alpha)
           start == AlphaBody(hmm, observed, 1, hmm.initial)
           next(t, v) == AlphaBody(hmm, observed, t, VecMatMul(v, hmm.transition))
           step == [p \in (2 .. n) \X Weights |-> next(p[1], p[2])]
<1>1. /\ n \in Nat \ {0} /\ DOMAIN observed = 1 .. n /\ 1 \in 1 .. n
      /\ hmm.initial \in Weights /\ hmm.transition \in [States -> Weights]
  BY DEF Observation, IsFit, Weights, Likelihoods
<1>2. start \in Weights
  BY <1>1, AlphaBodyIn
<1>3. /\ step \in [(2 .. n) \X Weights -> Weights]
      /\ \A t \in 2 .. n : \A v \in Weights : step[<<t, v>>] = next(t, v)
  <2>1. ASSUME NEW t \in 2 .. n, NEW v \in Weights PROVE next(t, v) \in Weights
    <3>1. t \in 1 .. n /\ VecMatMul(v, hmm.transition) \in Weights
      BY <1>1, VecMatMulIn
    <3> QED
      BY <3>1, AlphaBodyIn
  <2>2. \A p \in (2 .. n) \X Weights : p[1] \in 2 .. n /\ p[2] \in Weights
    OBVIOUS
  <2>3. \A p \in (2 .. n) \X Weights : next(p[1], p[2]) \in Weights
    <3> HIDE DEF next, n
    <3> QED
      BY <2>1, <2>2
  <2> HIDE DEF n, next
  <2> QED
    BY <2>3
<1>4. PICK w \in [1 .. n -> Weights] : IsForward(w, n, start, step)
  <2> HIDE DEF step, start, n
  <2> QED
    BY <1>1, <1>2, <1>3, ForwardExists
<1>5. AlphaWalk(hmm, observed, w)
  <2> DEFINE body(t) == AlphaBody(hmm, observed, t,
                          IF t = 1 THEN hmm.initial ELSE VecMatMul(w[t - 1], hmm.transition))
  <2>1. ASSUME NEW t \in 1 .. n PROVE w[t] = body(t)
    <3>1. CASE t = 1
      BY <1>4, <3>1 DEF IsForward
    <3>2. CASE t # 1
      <4>1. t \in 2 .. n /\ t - 1 \in 1 .. n
        BY <1>1, <3>2
      <4>2. w[t] = step[<<t, w[t - 1]>>] /\ w[t - 1] \in Weights
        BY <1>4, <4>1 DEF IsForward
      <4>3. w[t] = next(t, w[t - 1])
        <5> HIDE DEF step, next, n
        <5> QED
          BY <1>3, <4>1, <4>2
      <4> HIDE DEF step
      <4> QED
        BY <3>2, <4>3
    <3> QED
      BY <3>1, <3>2
  <2>2. w = [t \in 1 .. n |-> w[t]]
    BY <1>4
  <2>3. w = [t \in 1 .. n |-> body(t)]
    <3> HIDE DEF body
    <3> QED
      BY <2>1, <2>2
  <2> HIDE DEF n
  <2> QED
    BY <1>1, <2>3 DEF AlphaWalk
<1>6. AlphaWalk(hmm, observed, chosen)
  BY <1>5
<1>7. \A t \in 1 .. n : chosen[t] = AlphaBody(hmm, observed, t,
                          IF t = 1 THEN hmm.initial ELSE VecMatMul(chosen[t - 1], hmm.transition))
  <2> HIDE DEF chosen
  <2> QED
    BY <1>1, <1>6 DEF AlphaWalk
<1>8. \A t \in 1 .. n : chosen[t] \in Weights
  <2> HIDE DEF chosen
  <2>1. chosen[1] = start
    BY <1>1, <1>7
  <2>2. ASSUME NEW t \in 2 .. n, chosen[t - 1] \in Weights
        PROVE  chosen[t] = step[<<t, chosen[t - 1]>>]
    <3>1. t \in 1 .. n /\ t # 1
      BY <1>1
    <3>2. chosen[t] = next(t, chosen[t - 1])
      BY <1>7, <3>1
    <3> HIDE DEF next, step, n
    <3> QED
      BY <1>3, <2>2, <3>2
  <2>3. \A t \in 2 .. n : chosen[t - 1] \in Weights => chosen[t] = step[<<t, chosen[t - 1]>>]
    <3> HIDE DEF step, n
    <3> QED
      BY <2>2
  <2>4. n \in Nat \ {0} /\ step \in [(2 .. n) \X Weights -> Weights]
    BY <1>1, <1>3
  <2>5. GoesForward(chosen, n, Weights, step)
    <3> HIDE DEF step, n
    <3> QED
      BY <2>3 DEF GoesForward
  <2> HIDE DEF step, start, n, next
  <2> QED
    BY <1>2, <2>1, <2>4, <2>5, ForwardHolds
<1> HIDE DEF chosen
<1>9. \A t \in 1 .. n : Forward(hmm, observed)[t] = chosen[t]
  BY <1>1, ForwardIsWalk DEF chosen
<1>10. \A t \in 1 .. n : t # 1 => t - 1 \in 1 .. n
  <2> HIDE DEF n
  <2> QED
    BY <1>1
<1> QED
  BY <1>7, <1>8, <1>9, <1>10

LEMMA ForwardIn ==
    ASSUME NEW hmm, NEW observed, NEW moves, Observation(hmm, observed, moves)
    PROVE  \A t \in 1 .. Len(observed) : Forward(hmm, observed)[t] \in Weights
BY ForwardIs

\* What beta is on a day, from what comes after.
BetaBody(hmm, observed, t, after) ==
    ByState([k \in States |-> Total([j \in States |->
       hmm.transition[k][j] * hmm.density[j][observed[t + 1]] * after[j]])])

BetaWalk(hmm, observed, beta) ==
    beta = [t \in DOMAIN observed |->
              IF t = Len(observed) THEN <<1, 1, 1>> ELSE BetaBody(hmm, observed, t, beta[t + 1])]

LEMMA BackwardIsWalk ==
    ASSUME NEW hmm, NEW observed
    PROVE  Backward(hmm, observed)
           = [t \in DOMAIN observed |-> (CHOOSE beta : BetaWalk(hmm, observed, beta))[t]]
  BY DEF Backward, BetaWalk, BetaBody

LEMMA BetaBodyIn ==
    ASSUME NEW hmm, NEW observed, NEW moves, Observation(hmm, observed, moves),
           NEW t \in 1 .. Len(observed) - 1, NEW after \in Weights
    PROVE  BetaBody(hmm, observed, t, after) \in Weights
<1> DEFINE g(k, j) == hmm.transition[k][j] * hmm.density[j][observed[t + 1]] * after[j]
           f == [k \in States |-> Total([j \in States |-> g(k, j)])]
<1>1. observed[t + 1] \in moves
  <2>1. t + 1 \in 1 .. Len(observed)
    BY DEF Observation
  <2> QED
    BY <2>1 DEF Observation
<1>2. ASSUME NEW k \in States PROVE f[k] \in Nat
  <2>1. ASSUME NEW j \in States PROVE g(k, j) \in Nat
    <3>1. /\ hmm.transition[k][j] \in Nat /\ hmm.density[j][observed[t + 1]] \in Nat
          /\ after[j] \in Nat
      BY <1>1 DEF Observation, IsFit, Weights, Likelihoods
    <3>2. \A a, b, c \in Nat : a * b * c \in Nat
      <4>1. \A a, b \in Nat : a * b \in Nat
        OBVIOUS
      <4> QED
        BY <4>1
    <3> QED
      BY <3>1, <3>2
  <2> HIDE DEF g
  <2>2. [j \in States |-> g(k, j)] \in [States -> Nat]
    BY <2>1
  <2>3. Total([j \in States |-> g(k, j)]) \in Nat
    BY <2>2, StatesAre, TotalNat
  <2> QED
    BY <2>3
<1>3. f \in [States -> Nat]
  BY <1>2
<1>4. ByState(f) = f
  <2> HIDE DEF f
  <2> QED
    BY <1>3, ByStateIs
<1> QED
  BY <1>3, <1>4 DEF BetaBody, Weights

\* What beta is: it solves its equations.
LEMMA BackwardIs ==
    ASSUME NEW hmm, NEW observed, NEW moves, Observation(hmm, observed, moves)
    PROVE  \A t \in 1 .. Len(observed) :
              /\ Backward(hmm, observed)[t] \in Weights
              /\ Backward(hmm, observed)[t]
                    = IF t = Len(observed) THEN <<1, 1, 1>>
                      ELSE BetaBody(hmm, observed, t, Backward(hmm, observed)[t + 1])
<1> DEFINE n == Len(observed)
           chosen == CHOOSE beta : BetaWalk(hmm, observed, beta)
           start == <<1, 1, 1>>
           next(t, v) == BetaBody(hmm, observed, t, v)
           step == [p \in (1 .. n - 1) \X Weights |-> next(p[1], p[2])]
<1>1. n \in Nat \ {0} /\ DOMAIN observed = 1 .. n /\ n \in 1 .. n
  BY DEF Observation
<1>2. start \in Weights
  BY StatesAre DEF Weights
<1>3. /\ step \in [(1 .. n - 1) \X Weights -> Weights]
      /\ \A t \in 1 .. n - 1 : \A v \in Weights : step[<<t, v>>] = next(t, v)
  <2>1. \A t \in 1 .. n - 1 : \A v \in Weights : next(t, v) \in Weights
    BY BetaBodyIn
  <2>2. \A p \in (1 .. n - 1) \X Weights : p[1] \in 1 .. n - 1 /\ p[2] \in Weights
    OBVIOUS
  <2>3. \A p \in (1 .. n - 1) \X Weights : next(p[1], p[2]) \in Weights
    <3> HIDE DEF next, n
    <3> QED
      BY <2>1, <2>2
  <2> HIDE DEF n, next
  <2> QED
    BY <2>3
<1>4. PICK w \in [1 .. n -> Weights] : IsBackward(w, n, start, step)
  <2> HIDE DEF step, start, n
  <2> QED
    BY <1>1, <1>2, <1>3, BackwardExists
<1>5. BetaWalk(hmm, observed, w)
  <2> DEFINE body(t) == IF t = Len(observed) THEN <<1, 1, 1>> ELSE BetaBody(hmm, observed, t, w[t + 1])
  <2>1. ASSUME NEW t \in 1 .. n PROVE w[t] = body(t)
    <3>1. CASE t = n
      BY <1>4, <3>1 DEF IsBackward
    <3>2. CASE t # n
      <4>1. t \in 1 .. n - 1 /\ t + 1 \in 1 .. n
        <5> HIDE DEF n
        <5> QED
          BY <1>1, <3>2
      <4>2. w[t] = step[<<t, w[t + 1]>>] /\ w[t + 1] \in Weights
        BY <1>4, <4>1 DEF IsBackward
      <4>3. w[t] = next(t, w[t + 1])
        <5> HIDE DEF step, next, n
        <5> QED
          BY <1>3, <4>1, <4>2
      <4> HIDE DEF step
      <4> QED
        BY <3>2, <4>3
    <3> QED
      BY <3>1, <3>2
  <2>2. w = [t \in 1 .. n |-> w[t]]
    BY <1>4
  <2>3. w = [t \in 1 .. n |-> body(t)]
    <3> HIDE DEF body
    <3> QED
      BY <2>1, <2>2
  <2> HIDE DEF n
  <2> QED
    BY <1>1, <2>3 DEF BetaWalk
<1>6. BetaWalk(hmm, observed, chosen)
  BY <1>5
<1>7. \A t \in 1 .. n : chosen[t] = IF t = n THEN <<1, 1, 1>>
                                    ELSE BetaBody(hmm, observed, t, chosen[t + 1])
  <2> HIDE DEF chosen
  <2> QED
    BY <1>1, <1>6 DEF BetaWalk
<1>8. \A t \in 1 .. n : chosen[t] \in Weights
  <2> HIDE DEF chosen
  <2>1. chosen[n] = start
    BY <1>1, <1>7
  <2>2. ASSUME NEW t \in 1 .. n - 1, chosen[t + 1] \in Weights
        PROVE  chosen[t] = step[<<t, chosen[t + 1]>>]
    <3>1. t \in 1 .. n /\ t # n
      <4> HIDE DEF n
      <4> QED
        BY <1>1
    <3>2. chosen[t] = next(t, chosen[t + 1])
      BY <1>7, <3>1
    <3> HIDE DEF next, step, n
    <3> QED
      BY <1>3, <2>2, <3>2
  <2>3. GoesBackward(chosen, n, Weights, step)
    <3> HIDE DEF step, n
    <3> QED
      BY <2>2 DEF GoesBackward
  <2> HIDE DEF step, start, n
  <2> QED
    BY <1>1, <1>2, <1>3, <2>1, <2>3, BackwardHolds
<1> HIDE DEF chosen
<1>9. \A t \in 1 .. n : Backward(hmm, observed)[t] = chosen[t]
  BY <1>1, BackwardIsWalk DEF chosen
<1>10. \A t \in 1 .. n : t # n => t + 1 \in 1 .. n
  <2> HIDE DEF n
  <2> QED
    BY <1>1
<1> QED
  BY <1>7, <1>8, <1>9, <1>10

LEMMA BackwardIn ==
    ASSUME NEW hmm, NEW observed, NEW moves, Observation(hmm, observed, moves)
    PROVE  \A t \in 1 .. Len(observed) : Backward(hmm, observed)[t] \in Weights
BY BackwardIs

\* The weights of the states on a day are natural numbers.
LEMMA GammaIn ==
    ASSUME NEW hmm, NEW observed, NEW moves, Observation(hmm, observed, moves),
           NEW t \in 1 .. Len(observed)
    PROVE  EStep(hmm, observed).gamma[t] \in Weights
<1> DEFINE a == Forward(hmm, observed)[t]
           b == Backward(hmm, observed)[t]
           f == [k \in States |-> a[k] * b[k]]
<1>1. a \in Weights /\ b \in Weights
  BY ForwardIn, BackwardIn
<1>2. \A u, v \in Nat : u * v \in Nat
  OBVIOUS
<1>3. f \in [States -> Nat]
  <2> HIDE DEF a, b
  <2> QED
    BY <1>1, <1>2 DEF Weights
<1>4. ByState(f) = f
  <2> HIDE DEF f
  <2> QED
    BY <1>3, ByStateIs
<1>5. t \in DOMAIN observed
  BY DEF Observation
<1>6. EStep(hmm, observed).gamma[t] = ByState(f)
  BY <1>5 DEF EStep
<1> QED
  BY <1>3, <1>4, <1>6 DEF Weights

\* A value and then a place, as one number.
LEMMA TiesByPlace ==
    ASSUME NEW a \in Nat, NEW b \in Nat, NEW i \in 1 .. 3, NEW j \in 1 .. 3
    PROVE  /\ a + a + a + i = b + b + b + j => i = j
           /\ a + a + a + i < b + b + b + j <=> (a < b \/ (a = b /\ i < j))
<1>1. CASE a + 1 <= b
  BY <1>1
<1>2. CASE a = b
  BY <1>2
<1>3. CASE b + 1 <= a
  BY <1>3
<1> QED
  BY <1>1, <1>2, <1>3

\* The states that come before one in the order of the variances.
Ahead(hmm, k) ==
    {j \in States : \/ hmm.variance[j] < hmm.variance[k]
                    \/ hmm.variance[j] = hmm.variance[k] /\ j < k}

\* The order of the variances names a state for each place: the one with as many
\* before it.
LEMMA OrderIn ==
    ASSUME NEW hmm, NEW moves, IsFit(hmm, moves), NEW new \in States
    PROVE  /\ VarianceOrder(hmm)[new] \in States
           /\ Cardinality(Ahead(hmm, VarianceOrder(hmm)[new])) = new - 1
<1> DEFINE v == hmm.variance
           key == [k \in States |-> v[k] + v[k] + v[k] + k]
           before(k) == {j \in States : v[j] < v[k] \/ (v[j] = v[k] /\ j < k)}
           order == [n \in States |-> CHOOSE k \in States : Cardinality(before(k)) = n - 1]
<1>1. /\ \A k \in States : v[k] \in Nat
      /\ IsFiniteSet(States) /\ Cardinality(States) = 3 /\ \A k \in States : k \in 1 .. 3
  <2>1. Cardinality(1 .. 3) = 3
    <3>1. 1 \in Int /\ 3 \in Int /\ 1 <= 3 /\ 3 - 1 + 1 = 3
      OBVIOUS
    <3>2. Cardinality(1 .. 3) = IF 1 > 3 THEN 0 ELSE 3 - 1 + 1
      BY <3>1, FS_Interval, Zenon
    <3> QED
      BY <3>2
  <2> QED
    BY <2>1, StatesAre DEF IsFit
<1>9. VarianceOrder(hmm) = ByState(order) /\ \A k : Ahead(hmm, k) = before(k)
  BY DEF VarianceOrder, Ahead
<1> HIDE DEF v
<1>2. key \in [States -> Int] /\ \A k \in States : key[k] = v[k] + v[k] + v[k] + k
  BY <1>1
<1>3. \A a, b \in Nat : \A i, j \in 1 .. 3 :
          /\ a + a + a + i = b + b + b + j => i = j
          /\ a + a + a + i < b + b + b + j <=> (a < b \/ (a = b /\ i < j))
  BY TiesByPlace
<1> HIDE DEF key
<1>4. \A a, b \in States : key[a] = key[b] => a = b
  BY <1>1, <1>2, <1>3
<1>5. ASSUME NEW k \in States PROVE Below(States, key, k) = before(k)
  <2>1. \A j \in States : key[j] < key[k] <=> (v[j] < v[k] \/ (v[j] = v[k] /\ j < k))
    BY <1>1, <1>2, <1>3
  <2> QED
    BY <2>1 DEF Below
<1>6. ASSUME NEW n \in States
      PROVE  \E k \in States : Cardinality(before(k)) = n - 1
  <2>1. n - 1 \in Nat /\ n - 1 < Cardinality(States)
    BY <1>1
  <2> DEFINE i == n - 1
  <2>2. i \in Nat /\ i < Cardinality(States)
    BY <2>1
  <2> HIDE DEF i
  <2>3. PICK k \in States : Cardinality(Below(States, key, k)) = i
    BY <1>1, <1>2, <1>4, <2>2, RankExists
  <2> QED
    BY <1>5, <2>3 DEF i
<1>7. order \in [States -> States] /\ \A n \in States : Cardinality(before(order[n])) = n - 1
  <2> HIDE DEF before
  <2> QED
    BY <1>6
<1>8. ByState(order) = order
  <2> HIDE DEF order
  <2> QED
    BY <1>7, ByStateIs
<1> HIDE DEF order
<1> QED
  BY <1>7, <1>8, <1>9

LEMMA MaxIs ==
    ASSUME NEW S \in SUBSET Int, IsFiniteSet(S), S # {}
    PROVE  Max(S) \in S /\ \A k \in S : k <= Max(S)
BY GreatestNumber DEF Max

\* One of the states has the highest value.
LEMMA LastHighestIn ==
    ASSUME NEW value \in [States -> Int]
    PROVE  LastHighest(value) \in States /\ \A k \in States : value[k] <= value[LastHighest(value)]
<1> DEFINE values == {value[k] : k \in States}
<1>1. IsFiniteSet(values)
  <2>1. values = {value[1], value[2], value[3]}
    BY StatesAre
  <2>2. \A a, b, c \in Int : IsFiniteSet({a, b, c})
    <3>1. SUFFICES ASSUME NEW a, NEW b, NEW c PROVE IsFiniteSet({a, b, c})
      OBVIOUS
    <3>2. IsFiniteSet({}) /\ IsFiniteSet({} \cup {a})
      BY FS_EmptySet, FS_AddElement
    <3>3. IsFiniteSet(({} \cup {a}) \cup {b})
      BY <3>2, FS_AddElement
    <3>4. IsFiniteSet((({} \cup {a}) \cup {b}) \cup {c})
      BY <3>3, FS_AddElement
    <3>5. (({} \cup {a}) \cup {b}) \cup {c} = {a, b, c}
      OBVIOUS
    <3> QED
      BY <3>4, <3>5
  <2> QED
    BY <2>1, <2>2, StatesAre
<1>2. values \in SUBSET Int /\ values # {}
  BY StatesAre
<1>3. PICK m \in values : \A x \in values : x <= m
  <2> HIDE DEF values
  <2> QED
    BY <1>1, <1>2, GreatestNumber
<1>4. PICK k \in States : value[k] = m
  BY <1>3
<1>5. Highest(value) # {} /\ Highest(value) \in SUBSET States
  BY <1>3, <1>4 DEF Highest
<1>6. IsFiniteSet(Highest(value)) /\ Highest(value) \in SUBSET Int
  BY <1>5, StatesAre, FS_Subset
<1>7. LastHighest(value) \in Highest(value)
  BY <1>5, <1>6, MaxIs DEF LastHighest
<1> QED
  BY <1>5, <1>7 DEF Highest

\* What a regime is, for all that is computed of it later.
IsRegime(s) ==
    /\ s.current \in States /\ s.smoothed \in Weights /\ s.transition \in Square
    /\ s.forecast = RegimeForecast(s.smoothed, s.transition, s.current)

\* The regime of today is one of the three.
LEMMA RegimeIs ==
    ASSUME NEW hmm, NEW observed, NEW moves, Observation(hmm, observed, moves)
    PROVE  IsRegime(FitHmm(hmm, observed))
<1> DEFINE order == VarianceOrder(hmm)
           gamma == EStep(hmm, observed).gamma[Len(observed)]
           fit == Relabelled(hmm, order, Rank(order), Viterbi(hmm, observed), gamma)
           own == [new \in States |-> gamma[order[new]]]
           row(j) == [k \in States |-> hmm.transition[order[j]][order[k]]]
           rows == [j \in States |-> ByState(row(j))]
<1>1. gamma \in Weights
  <2>1. Len(observed) \in 1 .. Len(observed)
    BY DEF Observation
  <2> QED
    BY <2>1, GammaIn
<1>2. \A new \in States : order[new] \in States
  BY OrderIn DEF Observation
<1>3. own \in [States -> Nat]
  <2> HIDE DEF gamma, order
  <2> QED
    BY <1>1, <1>2 DEF Weights
<1>4. fit.smoothed = ByState(own) /\ fit.transition = ByState(rows)
  <2> HIDE DEF gamma, order
  <2> QED
    BY DEF Relabelled
<1>5. ByState(own) = own
  <2> HIDE DEF own
  <2> QED
    BY <1>3, ByStateIs
<1>6. rows \in [States -> [States -> Nat]]
  <2>1. hmm.transition \in [States -> [States -> Nat]]
    BY DEF Observation, IsFit, Likelihoods
  <2> HIDE DEF order
  <2>2. \A j \in States : row(j) \in [States -> Nat]
    BY <1>2, <2>1
  <2> HIDE DEF row
  <2>3. \A j \in States : ByState(row(j)) = row(j)
    BY <2>2, ByStateIs
  <2> QED
    BY <2>2, <2>3
<1>7. ByState(rows) = rows
  <2> HIDE DEF rows
  <2> QED
    BY <1>6, ByStateIs
<1>8. /\ FitHmm(hmm, observed).current = LastHighest(fit.smoothed)
      /\ FitHmm(hmm, observed).smoothed = fit.smoothed
      /\ FitHmm(hmm, observed).transition = fit.transition
      /\ FitHmm(hmm, observed).forecast
           = RegimeForecast(fit.smoothed, fit.transition, LastHighest(fit.smoothed))
  <2>1. FitHmm(hmm, observed) = Classified(fit)
    BY DEF FitHmm
  <2> HIDE DEF fit
  <2> QED
    BY <2>1 DEF Classified, RegimeState
<1>9. own \in [States -> Int]
  <2> HIDE DEF own
  <2> QED
    BY <1>3
<1> HIDE DEF own, fit, rows
<1>10. LastHighest(own) \in States
  BY <1>9, LastHighestIn
<1> QED
  BY <1>3, <1>4, <1>5, <1>6, <1>7, <1>8, <1>10 DEF IsRegime, Weights, Square

(***************************************************************************)
(* What a request is answered with                                         *)
(***************************************************************************)
LoadedFor(r) ==
    LoadMarketData(Markets[r.market].raw, TickersOf(r.portfolio), FrequencyOf(r))
FittedFor(r) ==
    FitFactorModel(LoadedFor(r), r.portfolio.tickers,
                   ResolvedWindow(r.window, FrequencyOf(r)), FrequencyOf(r),
                   Markets[r.market].hmm, Markets[r.market].estimates)

LEMMA RequestIs ==
    ASSUME NEW r \in Requests
    PROVE  /\ IsSeries(Markets[r.market].raw["MARKET"])
           /\ IsFit(Markets[r.market].hmm, Moves(Markets[r.market].raw["MARKET"]))
           /\ IsEstimate(Markets[r.market].estimates, Stocks(r.market))
           /\ r.portfolio.tickers \in Seq(Stocks(r.market))
           /\ r.portfolio.weights \in [Holdings(r.portfolio) -> Nat]
           /\ IsFiniteSet(Holdings(r.portfolio))
           /\ IsPortfolio(r.portfolio)
<1>1. IsRequest(r) /\ r.market \in DOMAIN Markets
  BY SessionsAssumption DEF IsRequest
<1>2. /\ FactorTickers \subseteq DOMAIN Markets[r.market].raw
      /\ \A s \in DOMAIN Markets[r.market].raw : IsSeries(Markets[r.market].raw[s])
      /\ IsFit(Markets[r.market].hmm, Moves(Markets[r.market].raw["MARKET"]))
      /\ IsEstimate(Markets[r.market].estimates, Stocks(r.market))
  BY <1>1, MarketsAssumption
<1>3. "MARKET" \in FactorTickers
  BY DEF FactorTickers
<1>4. /\ r.portfolio.tickers \in Seq(Stocks(r.market))
      /\ r.portfolio.weights \in [Holdings(r.portfolio) -> Nat]
  BY <1>1 DEF IsRequest, Holdings
<1>5. IsFiniteSet(Holdings(r.portfolio))
  <2> DEFINE n == Len(r.portfolio.tickers)
  <2>1. Holdings(r.portfolio) = 1 .. n /\ 1 \in Int /\ n \in Int
    BY <1>4 DEF Holdings
  <2> HIDE DEF n
  <2>2. IsFiniteSet(1 .. n)
    BY <2>1, FS_Interval, Zenon
  <2> QED
    BY <2>1, <2>2
<1> QED
  BY <1>2, <1>3, <1>4, <1>5 DEF IsPortfolio

\* What a successful fit is of.
LEMMA FitTyped ==
    ASSUME NEW r \in Requests, LoadedFor(r).outcome = "ok", FittedFor(r).outcome = "ok"
    PROVE  /\ IsModelOf(FittedFor(r), Holdings(r.portfolio))
           /\ FittedFor(r).tickers = r.portfolio.tickers
           /\ IsRegime(FittedFor(r).regime)
<1> DEFINE md == LoadedFor(r)
           tickers == r.portfolio.tickers
           frequency == FrequencyOf(r)
           asked == ResolvedWindow(r.window, frequency)
           hmm == Markets[r.market].hmm
           estimates == Markets[r.market].estimates
           market == md.factors["MARKET"]
           window == Smaller(asked, Len(market))
           rows == FactorsWindow(md, window)
           observed == [i \in 1 .. window |-> rows[i][1]]
           state == FitHmm(hmm, observed)
           moves == Moves(Markets[r.market].raw["MARKET"])
<1>1. /\ FittedFor(r) = FitOnWindow(md, tickers, rows, frequency, state, estimates)
      /\ MinModelWindow <= window \/ ~(window < MinModelWindow)
  <2>1. Failed("error").outcome # "ok"
    BY DEF Failed
  <2>2. FittedFor(r) = IF \/ window < MinModelWindow
                          \/ \E k \in DOMAIN tickers : Len(md.stocks[tickers[k]]) < MinTickerObservations
                       THEN Failed("error")
                       ELSE FitOnWindow(md, tickers, rows, frequency, state, estimates)
    BY DEF FittedFor, FitFactorModel
  <2> HIDE DEF md, tickers, frequency, window, rows, state, estimates
  <2> QED
    BY <2>1, <2>2
<1>2. market \in Seq(moves) /\ Len(market) \in Nat
  <2>1. Loadable(Markets[r.market].raw, TickersOf(r.portfolio), frequency, md)
    BY RequestIs DEF Loadable, LoadedFor
  <2>2. md.factors["MARKET"] \in Seq(moves)
    <3> HIDE DEF md, frequency
    <3> QED
      BY <2>1, MarketMoves
  <2> HIDE DEF md, moves
  <2> QED
    BY <2>2
<1>3. asked \in Nat
  <2>1. DefaultWindow(frequency) \in Nat
    <3> HIDE DEF frequency
    <3> QED
      BY ModelAssumption DEF DefaultWindow
  <2>2. r.window = Unset \/ r.window \in Nat
    BY SessionsAssumption DEF IsRequest
  <2> HIDE DEF frequency
  <2> QED
    BY <2>1, <2>2 DEF ResolvedWindow
<1>4. window \in 1 .. Len(market)
  <2> HIDE DEF asked, market
  <2>1. window \in Nat /\ window <= Len(market)
    BY <1>2, <1>3 DEF Smaller
  <2> HIDE DEF window
  <2> QED
    BY <1>1, <1>2, <2>1, ModelAssumption
<1>5. \A i \in 1 .. window : rows[i][1] = market[(Len(market) - window) + i]
  <2>1. 1 \in Factors /\ FactorNames[1] = "MARKET"
    BY FactorsAre DEF FactorNames
  <2>2. \A i \in 1 .. window : rows[i] = [k \in Factors |->
            md.factors[FactorNames[k]][(Len(market) - window) + i]]
    <3> HIDE DEF md, window
    <3> QED
      BY DEF FactorsWindow
  <2> HIDE DEF rows, window
  <2>3. \A i \in 1 .. window : rows[i][1]
          = md.factors[FactorNames[1]][(Len(market) - window) + i]
    <3> HIDE DEF md
    <3> QED
      BY <2>1, <2>2
  <2> QED
    BY <2>1, <2>3
<1>6. Observation(hmm, observed, moves)
  <2>1. \A i \in 1 .. window : (Len(market) - window) + i \in 1 .. Len(market)
    <3> DEFINE n == Len(market)
    <3>1. n \in Nat /\ window \in 1 .. n
      BY <1>2, <1>4
    <3> HIDE DEF n, window
    <3>2. \A i \in 1 .. window : (n - window) + i \in 1 .. n
      BY <3>1
    <3> QED
      BY <3>2 DEF n
  <2>2. \A i \in 1 .. window : market[(Len(market) - window) + i] \in moves
    <3> HIDE DEF market, moves, window
    <3> QED
      BY <1>2, <2>1
  <2>3. window \in Nat \ {0}
    BY <1>2, <1>4
  <2>4. \A i \in 1 .. window : rows[i][1] \in moves
    <3> HIDE DEF rows, market, moves, window
    <3> QED
      BY <1>5, <2>2
  <2>5. observed \in Seq(moves) /\ Len(observed) = window
    <3> HIDE DEF rows, moves, window
    <3> QED
      BY <2>3, <2>4
  <2>6. IsFit(hmm, moves)
    BY RequestIs
  <2> HIDE DEF observed, window, hmm, moves
  <2> QED
    BY <2>3, <2>5, <2>6 DEF Observation
<1>7. IsRegime(state) /\ state.current \in States
  <2> HIDE DEF hmm, observed, moves
  <2> QED
    BY <1>6, RegimeIs DEF IsRegime
<1>8. /\ FittedFor(r).regime = state
      /\ FittedFor(r).tickers = tickers
      /\ FittedFor(r).betas = [k \in DOMAIN tickers |-> estimates.betas[tickers[k]]]
      /\ FittedFor(r).residual = [k \in DOMAIN tickers |-> estimates.residual[tickers[k]]]
      /\ FittedFor(r).covariance = RegimeCovariance(estimates, state.sequence)[state.current]
  <2> HIDE DEF md, tickers, rows, frequency, state, estimates
  <2> QED
    BY <1>1 DEF FitOnWindow, Assembled
<1>9. /\ IsEstimate(estimates, Stocks(r.market))
      /\ \A k \in DOMAIN tickers : tickers[k] \in Stocks(r.market)
      /\ DOMAIN tickers = Holdings(r.portfolio)
  <2>1. tickers \in Seq(Stocks(r.market)) /\ IsEstimate(estimates, Stocks(r.market))
    BY RequestIs
  <2>2. DOMAIN tickers = Holdings(r.portfolio)
    BY DEF Holdings
  <2> HIDE DEF tickers
  <2> QED
    BY <2>1, <2>2
<1>10. RegimeCovariance(estimates, state.sequence)[state.current] \in Matrix
  <2> HIDE DEF state, estimates
  <2> QED
    BY <1>7, <1>9 DEF IsEstimate, RegimeCovariance
<1>11. /\ \A k \in DOMAIN tickers : estimates.betas[tickers[k]] \in Vector
       /\ \A k \in DOMAIN tickers : estimates.residual[tickers[k]] \in Int
  <2> HIDE DEF tickers, estimates
  <2> QED
    BY <1>9 DEF IsEstimate
<1> HIDE DEF tickers, estimates, state
<1>12. /\ FittedFor(r).betas \in [Holdings(r.portfolio) -> Vector]
       /\ FittedFor(r).residual \in [Holdings(r.portfolio) -> Int]
  BY <1>8, <1>9, <1>11
<1>13. FittedFor(r).tickers = r.portfolio.tickers
  BY <1>8 DEF tickers
<1> QED
  BY <1>7, <1>8, <1>10, <1>12, <1>13 DEF IsModelOf

AnswerFor(r) == RunRiskDecomposition(LoadedFor(r), FittedFor(r), r.portfolio)
RegimeFor(r) == [outcome |-> "ok", regime |-> FittedFor(r).regime]

\* What a step may end with, besides success.
Faults == {"error", "panic"}
Ends == Faults \cup {"refused"}

LEMMA LoadEnds ==
    ASSUME NEW raw, NEW tickers, NEW frequency
    PROVE  LoadMarketData(raw, tickers, frequency).outcome \in Faults \cup {"ok"}
<1> DEFINE prices == LoadAlignedPrices(raw, tickers)
<1>1. prices.outcome \in Faults \cup {"ok"}
  BY DEF LoadAlignedPrices, Failed, Faults
<1>2. ToReturns(prices, frequency).outcome = "ok"
  <2> HIDE DEF prices
  <2> QED
    BY DEF ToReturns
<1>3. LoadMarketData(raw, tickers, frequency)
      = IF prices.outcome = "ok" THEN ToReturns(prices, frequency) ELSE prices
  BY DEF LoadMarketData
<1> HIDE DEF prices
<1> QED
  BY <1>1, <1>2, <1>3

LEMMA FitEnds ==
    ASSUME NEW md, NEW tickers, NEW asked, NEW frequency, NEW hmm, NEW estimates
    PROVE  FitFactorModel(md, tickers, asked, frequency, hmm, estimates).outcome
             \in Faults \cup {"ok"}
BY DEF FitFactorModel, FitOnWindow, Assembled, Failed, Faults

LEMMA ShockEnds ==
    ASSUME NEW md, NEW m, NEW p, NEW input
    PROVE  RunFactorShock(md, m, p, input).outcome \in Faults \cup {"ok"}
BY DEF RunFactorShock, ShockReport, Failed, Faults

LEMMA DecompositionEnds ==
    ASSUME NEW md, NEW m, NEW p
    PROVE  RunRiskDecomposition(md, m, p).outcome \in Faults \cup {"ok"}
BY DEF RunRiskDecomposition, Failed, Faults

LEMMA DriftEnds ==
    ASSUME NEW id, NEW base, NEW result, NEW regime
    PROVE  ComputeRiskDrift(id, base, result, regime).outcome \in Faults \cup {"ok"}
BY DEF ComputeRiskDrift, Failed, Faults

LEMMA StressEnds ==
    ASSUME NEW m, NEW p, NEW input, NEW stopped
    PROVE  RunReverseStress(m, p, input, stopped).outcome \in Ends \cup {"ok"}
BY DEF RunReverseStress, StressReport, Failed, Ends, Faults

LEMMA CheckEnds ==
    ASSUME NEW policy, NEW md, NEW m, NEW p
    PROVE  RunPolicyCheck(policy, md, m, p).outcome \in Faults \cup {"ok"}
BY DEF RunPolicyCheck, Failed, Faults

LEMMA PerformanceEnds ==
    ASSUME NEW md, NEW p, NEW window, NEW hmm
    PROVE  RunPortfolioPerformance(md, p, window, hmm).outcome \in Faults \cup {"ok"}
BY DEF RunPortfolioPerformance, Failed, Faults

LEMMA RebalanceEnds ==
    ASSUME NEW md, NEW input, NEW hmm, NEW estimates
    PROVE  RunCvarRebalance(md, input, hmm, estimates).outcome \in Faults \cup {"ok"}
BY DEF RunCvarRebalance, Rebalanced, Report, Failed, Faults

(***************************************************************************)
(* The session                                                             *)
(***************************************************************************)
Loaded == stage \in {"loaded", "fitted", "windowed", "ran", "judged"}
Modelled == stage = "fitted" \/ (stage \in {"windowed", "ran"} /\ Kind \in WithModel)
Traced == stage \in {"ran", "judged"}

RequestsHeld == session \in Seq(Requests) /\ session # <<>>

DataHeld == Loaded => data = LoadedFor(Request) /\ data.outcome = "ok"

ModelHeld == Modelled => model = FittedFor(Request) /\ model.outcome = "ok"

\* A finished trace names its request, and a decomposition is that of the
\* request alone.
Attests(t) ==
    t.kind = "RiskDecomposition" =>
        /\ t.inputs \in Requests /\ t.portfolio = t.inputs.portfolio
        /\ LoadedFor(t.inputs).outcome = "ok" /\ FittedFor(t.inputs).outcome = "ok"
        /\ t.answer = AnswerFor(t.inputs) /\ t.regime = RegimeFor(t.inputs)

TraceFields == {"kind", "portfolio", "inputs", "window", "answer", "regime",
                "policy", "history"}

TraceHeld ==
    Traced =>
        /\ DOMAIN trace = TraceFields /\ Attests(trace)
        /\ trace.kind = Kind /\ trace.portfolio = Portfolio /\ trace.inputs = Request

DriftHeld ==
    (stage = "ran" /\ Kind = "RiskDrift") =>
        /\ trace.answer.outcome = "ok"
        /\ \E i \in Baseline :
              trace.answer = ComputeRiskDrift(i, stored[i], AnswerFor(Request),
                                              FittedFor(Request).regime)

IsSequence(s) == s \in Seq({s[i] : i \in DOMAIN s})

StoredHeld ==
    /\ IsSequence(stored)
    /\ \A i \in DOMAIN stored : Attests(stored[i])

RunInv == RequestsHeld /\ DataHeld /\ ModelHeld /\ TraceHeld /\ DriftHeld /\ StoredHeld

LEMMA RunInvInitially == Init => RunInv
<1>1. SUFFICES ASSUME Init PROVE RunInv
  OBVIOUS
<1>2. RequestsHeld
  <2>1. session \in Sessions
    BY <1>1 DEF Init
  <2> QED
    BY <2>1, SessionsAssumption DEF RequestsHeld
<1>3. StoredHeld
  <2>1. stored = <<>> /\ DOMAIN stored = {}
    BY <1>1 DEF Init
  <2>2. <<>> \in Seq({stored[i] : i \in DOMAIN stored})
    OBVIOUS
  <2> QED
    BY <2>1, <2>2 DEF StoredHeld, IsSequence
<1>4. stage = "asked"
  BY <1>1 DEF Init
<1> QED
  BY <1>2, <1>3, <1>4 DEF RunInv, DataHeld, ModelHeld, TraceHeld, DriftHeld, Loaded, Modelled, Traced

\* The request at hand.
LEMMA RequestIn == ASSUME RequestsHeld PROVE Request \in Requests
BY DEF RequestsHeld, Request

LEMMA ThroughFit ==
    ASSUME RequestsHeld, DataHeld, Loaded
    PROVE  Fitted = FittedFor(Request)
BY DEF DataHeld, Fitted, FittedFor, Portfolio, Window, World

\* A step that ends the request, or leaves it with nothing computed.
LEMMA EndKeeps ==
    ASSUME RunInv, session' = session, stored' = stored, stage' \in Ends \cup {"asked"}
    PROVE  RunInv'
<1>1. RequestsHeld' /\ StoredHeld'
  BY DEF RunInv, RequestsHeld, StoredHeld, IsSequence, Attests
<1>2. ~Loaded' /\ ~Modelled' /\ ~Traced' /\ stage' # "ran"
  BY DEF Loaded, Modelled, Traced, Ends, Faults
<1> QED
  BY <1>1, <1>2 DEF RunInv, DataHeld, ModelHeld, TraceHeld, DriftHeld

\* A step that leaves the session and the store alone, with the rest to show.
LEMMA SameRequest ==
    ASSUME RunInv, session' = session, stored' = stored
    PROVE  /\ RequestsHeld' /\ StoredHeld' /\ Request' = Request
           /\ Kind' = Kind /\ Portfolio' = Portfolio /\ Baseline' = Baseline
BY DEF RunInv, RequestsHeld, StoredHeld, IsSequence, Attests, Request, Kind, Portfolio, Baseline, OfPortfolio

LEMMA LoadKeeps == ASSUME RunInv, LoadData PROVE RunInv'
<1>1. session' = session /\ stored' = stored /\ Request \in Requests
  BY RequestIn DEF LoadData, RunInv
<1>2. data' = LoadedFor(Request)
  BY DEF LoadData, LoadedFor, World, Portfolio
<1>3. CASE data'.outcome = "ok"
  <2>1. stage' = "loaded"
    BY <1>3 DEF LoadData
  <2>2. DataHeld'
    BY <1>1, <1>2, <1>3, SameRequest DEF DataHeld
  <2>3. ~Modelled' /\ ~Traced' /\ stage' # "ran"
    BY <2>1 DEF Modelled, Traced
  <2> QED
    BY <1>1, <2>2, <2>3, SameRequest DEF RunInv, ModelHeld, TraceHeld, DriftHeld
<1>4. CASE data'.outcome # "ok"
  <2>1. stage' \in Ends
    BY <1>2, <1>4, LoadEnds DEF LoadData, End, LoadedFor, Ends
  <2> QED
    BY <1>1, <2>1, EndKeeps
<1> QED
  BY <1>3, <1>4

LEMMA FitKeeps == ASSUME RunInv, FitModel PROVE RunInv'
<1>1. session' = session /\ stored' = stored /\ data' = data /\ stage = "loaded"
  BY DEF FitModel
<1>2. model' = FittedFor(Request)
  BY <1>1, ThroughFit DEF FitModel, RunInv, Loaded
<1>3. CASE model'.outcome = "ok"
  <2>1. stage' = "fitted"
    BY <1>3 DEF FitModel
  <2>2. DataHeld'
    BY <1>1, SameRequest DEF RunInv, DataHeld, Loaded
  <2>3. ModelHeld'
    BY <1>1, <1>2, <1>3, SameRequest DEF ModelHeld
  <2>4. ~Traced' /\ stage' # "ran"
    BY <2>1 DEF Traced
  <2> QED
    BY <1>1, <2>2, <2>3, <2>4, SameRequest DEF RunInv, TraceHeld, DriftHeld
<1>4. CASE model'.outcome # "ok"
  <2>1. stage' \in Ends
    BY <1>2, <1>4, FitEnds DEF FitModel, End, FittedFor, Ends
  <2> QED
    BY <1>1, <2>1, EndKeeps
<1> QED
  BY <1>3, <1>4

LEMMA WindowKeeps == ASSUME RunInv, BuildDataWindow PROVE RunInv'
<1>1. /\ session' = session /\ stored' = stored /\ data' = data /\ model' = model
      /\ stage = IF Kind \in WithModel THEN "fitted" ELSE "loaded"
      /\ stage' \in {"windowed", "panic"}
  BY DEF BuildDataWindow, End
<1>2. CASE stage' = "windowed"
  <2>1. DataHeld'
    BY <1>1, SameRequest DEF RunInv, DataHeld, Loaded
  <2>2. ModelHeld'
    BY <1>1, <1>2, SameRequest DEF RunInv, ModelHeld, Modelled
  <2>3. ~Traced' /\ stage' # "ran"
    BY <1>2 DEF Traced
  <2> QED
    BY <1>1, <2>1, <2>2, <2>3, SameRequest DEF RunInv, TraceHeld, DriftHeld
<1>3. CASE stage' = "panic"
  BY <1>1, <1>3, EndKeeps DEF Ends, Faults
<1> QED
  BY <1>1, <1>2, <1>3

\* An experiment of either kind that keeps what its trace has to attest.
LEMMA AnswerKeeps ==
    ASSUME RunInv, NEW answer, NEW regime, NEW window, Answered(answer, regime, window),
           stage \in {"loaded", "windowed"}, Kind \in WithModel => stage = "windowed",
           answer.outcome \in Ends \cup {"ok"},
           (Kind = "RiskDecomposition" /\ answer.outcome = "ok") =>
               answer = AnswerFor(Request) /\ regime = RegimeFor(Request),
           (Kind = "RiskDrift" /\ answer.outcome = "ok") =>
               \E i \in Baseline : answer = ComputeRiskDrift(i, stored[i],
                                       AnswerFor(Request), FittedFor(Request).regime)
    PROVE  RunInv'
<1>1. session' = session /\ stored' = stored /\ data' = data /\ model' = model
  BY DEF Answered
<1>2. Request \in Requests
  BY RequestIn DEF RunInv
<1>3. CASE answer.outcome = "ok"
  <2>1. /\ stage' = "ran"
        /\ trace' = [kind |-> Kind, portfolio |-> Portfolio, inputs |-> Request,
                     window |-> window, answer |-> answer, regime |-> regime,
                     policy |-> Nothing, history |-> Nothing]
    BY <1>3 DEF Answered
  <2>2. /\ DOMAIN trace' = TraceFields /\ trace'.kind = Kind
        /\ trace'.portfolio = Portfolio /\ trace'.inputs = Request
        /\ trace'.answer = answer /\ trace'.regime = regime
    BY <2>1 DEF TraceFields
  <2>3. DataHeld'
    BY <1>1, SameRequest DEF RunInv, DataHeld, Loaded
  <2>4. ModelHeld'
    BY <1>1, <2>1, SameRequest DEF RunInv, ModelHeld, Modelled
  <2>5. Attests(trace')
    <3>1. SUFFICES ASSUME Kind = "RiskDecomposition"
                   PROVE  /\ Portfolio = Request.portfolio
                          /\ LoadedFor(Request).outcome = "ok"
                          /\ FittedFor(Request).outcome = "ok"
      BY <1>2, <1>3, <2>2 DEF Attests
    <3>2. Loaded /\ Modelled
      BY <3>1 DEF Loaded, Modelled, WithModel
    <3> QED
      BY <3>2 DEF RunInv, DataHeld, ModelHeld, Portfolio
  <2>6. TraceHeld'
    BY <1>1, <2>2, <2>5, SameRequest DEF TraceHeld, Attests, TraceFields
  <2>7. DriftHeld'
    BY <1>1, <1>3, <2>2, SameRequest DEF DriftHeld
  <2> QED
    BY <1>1, <2>3, <2>4, <2>6, <2>7, SameRequest DEF RunInv
<1>4. CASE answer.outcome # "ok"
  <2>1. stage' \in Ends
    BY <1>4 DEF Answered, End
  <2> QED
    BY <1>1, <2>1, EndKeeps
<1> QED
  BY <1>3, <1>4

LEMMA ExperimentKeeps ==
    ASSUME RunInv,
           \/ FactorShock \/ RiskDecomposition \/ RiskDrift \/ ReverseStressed
           \/ PolicyCheck \/ PortfolioPerformance \/ CvarRebalanced
    PROVE  RunInv'
<1>1. CASE FactorShock
  BY <1>1, AnswerKeeps, ShockEnds DEF FactorShock, FromModel, Ends
<1>2. CASE RiskDecomposition
  <2>1. stage = "windowed" /\ Kind = "RiskDecomposition" /\ Loaded /\ Modelled
    BY <1>2 DEF RiskDecomposition, Loaded, Modelled, WithModel
  <2>2. data = LoadedFor(Request) /\ model = FittedFor(Request)
    BY <2>1 DEF RunInv, DataHeld, ModelHeld
  <2>3. Answered(AnswerFor(Request), RegimeFor(Request), trace)
    BY <1>2, <2>2 DEF RiskDecomposition, FromModel, AnswerFor, RegimeFor, Portfolio
  <2>4. AnswerFor(Request).outcome \in Ends \cup {"ok"}
    BY DecompositionEnds DEF AnswerFor, Ends
  <2> QED
    BY <2>1, <2>3, <2>4, AnswerKeeps
<1>3. CASE RiskDrift
  <2>1. stage = "windowed" /\ Kind = "RiskDrift" /\ Loaded /\ Modelled
    BY <1>3 DEF RiskDrift, Loaded, Modelled, WithModel
  <2>2. data = LoadedFor(Request) /\ model = FittedFor(Request)
    BY <2>1 DEF RunInv, DataHeld, ModelHeld
  <2> DEFINE drift(i) == ComputeRiskDrift(i, stored[i], AnswerFor(Request),
                                          FittedFor(Request).regime)
             answer(i) == IF AnswerFor(Request).outcome # "ok" THEN AnswerFor(Request)
                          ELSE drift(i)
  <2>3. PICK i \in Baseline : Answered(answer(i), RegimeFor(Request), trace)
    BY <1>3, <2>2 DEF RiskDrift, FromModel, AnswerFor, RegimeFor, Portfolio
  <2>4. answer(i).outcome \in Ends \cup {"ok"} /\ (answer(i).outcome = "ok" => answer(i) = drift(i))
    <3>1. AnswerFor(Request).outcome \in Ends \cup {"ok"} /\ drift(i).outcome \in Ends \cup {"ok"}
      BY DecompositionEnds, DriftEnds DEF AnswerFor, Ends
    <3> HIDE DEF drift
    <3> QED
      BY <3>1
  <2> HIDE DEF answer
  <2> QED
    BY <2>1, <2>3, <2>4, AnswerKeeps
<1>4. CASE ReverseStressed
  <2>1. PICK stopped : FromModel(RunReverseStress(model, Portfolio, Request.input, stopped))
    BY <1>4 DEF ReverseStressed
  <2> QED
    BY <1>4, <2>1, AnswerKeeps, StressEnds DEF ReverseStressed, FromModel
<1>5. CASE PolicyCheck
  BY <1>5, AnswerKeeps, CheckEnds DEF PolicyCheck, FromModel, Ends
<1>6. CASE PortfolioPerformance
  <2> DEFINE answer == RunPortfolioPerformance(data, Portfolio, Window, World.hmm)
             regime == IF answer.outcome = "ok" THEN answer.regime ELSE Nothing
  <2>1. Answered(answer, regime, trace) /\ stage = "windowed" /\ Kind = "PortfolioPerformance"
    BY <1>6 DEF PortfolioPerformance
  <2>2. answer.outcome \in Ends \cup {"ok"}
    BY PerformanceEnds DEF Ends
  <2> HIDE DEF answer, regime
  <2> QED
    BY <2>1, <2>2, AnswerKeeps
<1>7. CASE CvarRebalanced
  <2> DEFINE answer == RunCvarRebalance(data, Request.input, World.hmm, World.estimates)
  <2>1. /\ stage = "loaded" /\ Kind = "CvarRebalance"
        /\ \E regime, window : Answered(answer, regime, window)
    BY <1>7 DEF CvarRebalanced
  <2>2. answer.outcome \in Ends \cup {"ok"}
    BY RebalanceEnds DEF Ends
  <2> HIDE DEF answer
  <2>3. PICK regime, window : Answered(answer, regime, window)
    BY <2>1
  <2>4. Kind \notin WithModel
    BY <2>1 DEF WithModel
  <2> QED
    BY <2>1, <2>2, <2>3, <2>4, AnswerKeeps
<1> QED
  BY <1>1, <1>2, <1>3, <1>4, <1>5, <1>6, <1>7

LEMMA PolicyKeeps == ASSUME RunInv, AttachPolicy PROVE RunInv'
<1>1. session' = session /\ stored' = stored /\ data' = data /\ stage = "ran"
  BY DEF AttachPolicy
<1>2. \/ stage' \in Ends
      \/ stage' = "judged" /\ trace' = trace
      \/ stage' = "judged" /\ \E result : trace' = [trace EXCEPT !.policy = result]
  BY DEF AttachPolicy, End, Ends, Faults
<1>3. CASE stage' \in Ends
  BY <1>1, <1>3, EndKeeps
<1>4. CASE stage' = "judged" /\ (trace' = trace \/ \E result : trace' = [trace EXCEPT !.policy = result])
  <2>1. /\ DOMAIN trace = TraceFields /\ Attests(trace)
        /\ trace.kind = Kind /\ trace.portfolio = Portfolio /\ trace.inputs = Request
    BY <1>1 DEF RunInv, TraceHeld, Traced
  <2>2. /\ DOMAIN trace' = TraceFields /\ trace'.kind = trace.kind
        /\ trace'.portfolio = trace.portfolio /\ trace'.inputs = trace.inputs
        /\ trace'.answer = trace.answer /\ trace'.regime = trace.regime
    BY <1>4, <2>1 DEF TraceFields
  <2>3. TraceHeld'
    BY <1>1, <2>1, <2>2, SameRequest DEF TraceHeld, Attests
  <2>4. DataHeld'
    BY <1>1, SameRequest DEF RunInv, DataHeld, Loaded
  <2>5. ~Modelled' /\ stage' # "ran"
    BY <1>4 DEF Modelled
  <2> QED
    BY <1>1, <2>3, <2>4, <2>5, SameRequest DEF RunInv, ModelHeld, DriftHeld
<1> QED
  BY <1>2, <1>3, <1>4

LEMMA AppendKeeps ==
    ASSUME NEW s, IsSequence(s), NEW e
    PROVE  /\ IsSequence(Append(s, e))
           /\ \A i \in DOMAIN Append(s, e) :
                 Append(s, e)[i] = e \/ \E j \in DOMAIN s : Append(s, e)[i] = s[j]
<1> DEFINE S == {s[i] : i \in DOMAIN s} \cup {e}
           t == Append(s, e)
<1>1. s \in Seq(S)
  <2>1. \A i \in 1 .. Len(s) : s[i] \in S
    BY DEF S, IsSequence
  <2> QED
    BY <2>1 DEF IsSequence
<1>2. e \in S
  OBVIOUS
<1> HIDE DEF S
<1>3. /\ t \in Seq(S) /\ Len(t) = Len(s) + 1 /\ Len(s) \in Nat /\ DOMAIN s = 1 .. Len(s)
      /\ \A i \in 1 .. Len(s) : t[i] = s[i]
      /\ t[Len(s) + 1] = e
  BY <1>1, <1>2, AppendProperties
<1> HIDE DEF t
<1>4. DOMAIN t = 1 .. Len(t) /\ Len(t) \in Nat
  BY <1>3
<1>5. t \in Seq({t[i] : i \in DOMAIN t})
  <2>1. t = [i \in 1 .. Len(t) |-> t[i]]
    BY <1>3
  <2>2. t \in [1 .. Len(t) -> {t[i] : i \in DOMAIN t}]
    BY <1>4, <2>1
  <2> QED
    BY <1>4, <2>2
<1>6. ASSUME NEW i \in DOMAIN t PROVE t[i] = e \/ \E j \in DOMAIN s : t[i] = s[j]
  <2>1. i \in 1 .. Len(s) \/ i = Len(s) + 1
    BY <1>3, <1>4
  <2> QED
    BY <1>3, <2>1
<1> QED
  BY <1>5, <1>6 DEF t, IsSequence

LEMMA HistoryKeeps == ASSUME RunInv, AttachHistory PROVE RunInv'
<1>1. /\ session' = session /\ data' = data /\ stage = "judged" /\ stage' = "answered"
      /\ stored' = Append(stored, trace')
      /\ \E h : trace' = [trace EXCEPT !.history = h]
  BY DEF AttachHistory
<1>2. Attests(trace')
  <2>1. DOMAIN trace = TraceFields /\ Attests(trace)
    BY <1>1 DEF RunInv, TraceHeld, Traced
  <2>2. /\ trace'.kind = trace.kind
        /\ trace'.portfolio = trace.portfolio /\ trace'.inputs = trace.inputs
        /\ trace'.answer = trace.answer /\ trace'.regime = trace.regime
    BY <1>1, <2>1 DEF TraceFields
  <2> QED
    BY <2>1, <2>2 DEF Attests
<1>3. StoredHeld'
  <2> DEFINE e == trace'
  <2>1. IsSequence(stored) /\ \A j \in DOMAIN stored : Attests(stored[j])
    BY DEF RunInv, StoredHeld, IsSequence
  <2>2. stored' = Append(stored, e) /\ Attests(e)
    BY <1>1, <1>2
  <2> HIDE DEF e
  <2>3. /\ IsSequence(Append(stored, e))
        /\ \A i \in DOMAIN Append(stored, e) :
              Append(stored, e)[i] = e \/ \E j \in DOMAIN stored : Append(stored, e)[i] = stored[j]
    BY <2>1, AppendKeeps
  <2>4. \A i \in DOMAIN Append(stored, e) : Attests(Append(stored, e)[i])
    BY <2>1, <2>2, <2>3
  <2> QED
    BY <2>2, <2>3, <2>4 DEF StoredHeld, IsSequence, Attests
<1>4. RequestsHeld'
  BY <1>1 DEF RunInv, RequestsHeld
<1>5. ~Loaded' /\ ~Modelled' /\ ~Traced' /\ stage' # "ran"
  BY <1>1 DEF Loaded, Modelled, Traced
<1> QED
  BY <1>3, <1>4, <1>5 DEF RunInv, DataHeld, ModelHeld, TraceHeld, DriftHeld

LEMMA NextRequestKeeps == ASSUME RunInv, NextRequest PROVE RunInv'
<1>1. session' = Tail(session) /\ Len(session) > 1 /\ stage' = "asked" /\ stored' = stored
  BY DEF NextRequest
<1>2. RequestsHeld'
  <2>1. session \in Seq(Requests) /\ session # <<>>
    BY DEF RunInv, RequestsHeld
  <2> DEFINE t == Tail(session)
             n == Len(session)
  <2>2. t \in Seq(Requests) /\ Len(t) = n - 1 /\ n \in Nat
    BY <2>1, HeadTailProperties
  <2>3. n > 1 /\ session' = t
    BY <1>1
  <2> HIDE DEF t, n
  <2>4. t # <<>>
    <3>1. Len(t) # 0
      BY <2>2, <2>3
    <3> QED
      BY <3>1
  <2> QED
    BY <2>2, <2>3, <2>4 DEF RequestsHeld
<1>3. StoredHeld'
  BY <1>1 DEF RunInv, StoredHeld, IsSequence, Attests
<1>4. ~Loaded' /\ ~Modelled' /\ ~Traced' /\ stage' # "ran"
  BY <1>1 DEF Loaded, Modelled, Traced
<1> QED
  BY <1>2, <1>3, <1>4 DEF RunInv, DataHeld, ModelHeld, TraceHeld, DriftHeld

LEMMA StutterKeeps == ASSUME RunInv, UNCHANGED vars PROVE RunInv'
<1>1. /\ session' = session /\ stored' = stored /\ data' = data /\ model' = model
      /\ trace' = trace /\ stage' = stage
  BY DEF vars
<1>2. DataHeld' /\ ModelHeld' /\ TraceHeld' /\ DriftHeld'
  BY <1>1, SameRequest
     DEF RunInv, DataHeld, ModelHeld, TraceHeld, DriftHeld, Loaded, Modelled, Traced, Attests
<1> QED
  BY <1>1, <1>2, SameRequest DEF RunInv

LEMMA RunInvAlways == Spec => []RunInv
<1>1. Init => RunInv
  BY RunInvInitially
<1>2. RunInv /\ [Next]_vars => RunInv'
  <2>1. SUFFICES ASSUME RunInv, [Next]_vars PROVE RunInv'
    OBVIOUS
  <2>2. CASE RefuseRequest
    BY <2>1, <2>2, EndKeeps DEF RefuseRequest, End, Ends, Faults
  <2>3. CASE LoadData
    BY <2>1, <2>3, LoadKeeps
  <2>4. CASE FitModel
    BY <2>1, <2>4, FitKeeps
  <2>5. CASE BuildDataWindow
    BY <2>1, <2>5, WindowKeeps
  <2>6. CASE \/ FactorShock \/ RiskDecomposition \/ RiskDrift \/ ReverseStressed
             \/ PolicyCheck \/ PortfolioPerformance \/ CvarRebalanced
    BY <2>1, <2>6, ExperimentKeeps
  <2>7. CASE AttachPolicy
    BY <2>1, <2>7, PolicyKeeps
  <2>8. CASE AttachHistory
    BY <2>1, <2>8, HistoryKeeps
  <2>9. CASE NextRequest
    BY <2>1, <2>9, NextRequestKeeps
  <2>10. CASE Idle \/ UNCHANGED vars
    BY <2>1, <2>10, StutterKeeps DEF Idle
  <2> QED
    BY <2>1, <2>2, <2>3, <2>4, <2>5, <2>6, <2>7, <2>8, <2>9, <2>10 DEF Next
<1> QED
  BY <1>1, <1>2, PTL DEF Spec

(***************************************************************************)
(* What the answers are                                                    *)
(***************************************************************************)
\* What the answer to a request is, once its data and its model are there.
LEMMA AnswerIs ==
    ASSUME NEW r \in Requests, LoadedFor(r).outcome = "ok", FittedFor(r).outcome = "ok"
    PROVE  /\ IsDecomposition(AnswerFor(r))
           /\ FittedFor(r).regime.current \in 1 .. 3
<1>1. IsPortfolio(r.portfolio)
  BY RequestIs
<1>2. /\ IsModelOf(FittedFor(r), Holdings(r.portfolio))
      /\ FittedFor(r).tickers = r.portfolio.tickers
      /\ FittedFor(r).regime.current \in States
  BY FitTyped DEF IsRegime
<1> QED
  BY <1>1, <1>2, EulerSums, StatesAre DEF AnswerFor

LEMMA RunInvEuler == RunInv => EulerAddsUp
<1>1. SUFFICES ASSUME RunInv, stage = "ran", Kind = "RiskDecomposition"
               PROVE  /\ Total(trace.answer.byStock) = trace.answer.variance
                      /\ Total(trace.answer.byFactor) + trace.answer.specific = trace.answer.variance
  BY DEF EulerAddsUp
<1>2. Traced /\ trace.kind = Kind /\ Attests(trace)
  BY <1>1 DEF Traced, RunInv, TraceHeld
<1>3. /\ trace.inputs \in Requests /\ LoadedFor(trace.inputs).outcome = "ok"
      /\ FittedFor(trace.inputs).outcome = "ok" /\ trace.answer = AnswerFor(trace.inputs)
  BY <1>1, <1>2 DEF Attests
<1> QED
  BY <1>3, AnswerIs DEF IsDecomposition

(* The contributions of the holdings, and those of the factors with the    *)
(* specific part, both add up to the variance of the portfolio.            *)
THEOREM EulerAlways == Spec => []EulerAddsUp
BY RunInvAlways, RunInvEuler, PTL

\* The difference of two maps with all the factors.
LEMMA DeltaIs ==
    ASSUME NEW a \in Vector, NEW b \in Vector
    PROVE  DeltaMap(a, b) = [k \in Factors |-> b[k] - a[k]]
BY DEF DeltaMap, Vector

LEMMA RanksAre == \A k \in Factors : NameRank[k] \in 1 .. 5
BY FactorsAre DEF NameRank

\* A key among those, and so one with the value they are chosen for.
LEMMA LastOfIn ==
    ASSUME NEW keys \in SUBSET Factors, keys # {} PROVE LastOf(keys, NameRank) \in keys
<1> DEFINE ranks == {NameRank[k] : k \in keys}
<1>1. ranks \in SUBSET (1 .. 5) /\ ranks # {}
  BY RanksAre
<1>2. IsFiniteSet(ranks) /\ ranks \in SUBSET Int
  <2>1. IsFiniteSet(1 .. 5)
    BY FactorsAre
  <2> HIDE DEF ranks
  <2>2. IsFiniteSet(ranks)
    BY <1>1, <2>1, FS_Subset
  <2>3. ranks \in SUBSET Int
    BY <1>1
  <2> QED
    BY <2>2, <2>3
<1>3. PICK m \in ranks : \A x \in ranks : x <= m
  <2> HIDE DEF ranks
  <2> QED
    BY <1>1, <1>2, GreatestNumber
<1>4. PICK k \in keys : NameRank[k] = m
  BY <1>3
<1>5. \A j \in keys : NameRank[j] <= NameRank[k]
  BY <1>3, <1>4
<1> HIDE DEF ranks
<1> QED
  BY <1>4, <1>5 DEF LastOf

LEMMA LeastNumberOf ==
    ASSUME NEW S \in SUBSET (1 .. 5), S # {}
    PROVE  \E m \in S : \A x \in S : x >= m
<1> DEFINE T == {n \in -5 .. 0 : -n \in S}
<1>1. PICK s \in S : TRUE
  OBVIOUS
<1>2. -s \in T
  OBVIOUS
<1>3. IsFiniteSet(T) /\ T \in SUBSET Int
  <2>1. IsFiniteSet(-5 .. 0)
    <3>1. -5 \in Int /\ 0 \in Int
      OBVIOUS
    <3> QED
      BY <3>1, FS_Interval, Zenon
  <2> QED
    BY <2>1, FS_Subset
<1>4. PICK m \in T : \A x \in T : x <= m
  <2> HIDE DEF T
  <2> QED
    BY <1>2, <1>3, GreatestNumber
<1>5. \A x \in S : -x \in T
  OBVIOUS
<1>6. -m \in S /\ m \in Int
  BY <1>3, <1>4
<1>7. ASSUME NEW x \in S PROVE x >= -m
  <2>1. -x <= m /\ x \in Int
    BY <1>4, <1>5
  <2> QED
    BY <2>1, <1>6
<1> QED
  BY <1>6, <1>7

LEMMA FirstOfIn ==
    ASSUME NEW keys \in SUBSET Factors, keys # {} PROVE FirstOf(keys, NameRank) \in keys
<1> DEFINE ranks == {NameRank[k] : k \in keys}
<1>1. ranks \in SUBSET (1 .. 5) /\ ranks # {}
  BY RanksAre
<1>2. PICK m \in ranks : \A x \in ranks : x >= m
  <2> HIDE DEF ranks
  <2> QED
    BY <1>1, LeastNumberOf
<1>3. PICK k \in keys : NameRank[k] = m
  BY <1>2
<1>4. \A j \in keys : NameRank[j] >= NameRank[k]
  BY <1>2, <1>3
<1> HIDE DEF ranks
<1> QED
  BY <1>3, <1>4 DEF FirstOf

LEMMA ValuesFinite ==
    ASSUME NEW u \in Vector PROVE IsFiniteSet({u[k] : k \in Factors})
<1> DEFINE own == {u[k] : k \in Factors}
<1>1. own = {u[1], u[2], u[3], u[4], u[5]}
  BY FactorsAre DEF Vector
<1>2. IsFiniteSet({}) /\ IsFiniteSet({} \cup {u[1]})
  BY FS_EmptySet, FS_AddElement
<1>3. IsFiniteSet(({} \cup {u[1]}) \cup {u[2]})
  BY <1>2, FS_AddElement
<1>4. IsFiniteSet((({} \cup {u[1]}) \cup {u[2]}) \cup {u[3]})
  BY <1>3, FS_AddElement
<1>5. IsFiniteSet(((({} \cup {u[1]}) \cup {u[2]}) \cup {u[3]}) \cup {u[4]})
  BY <1>4, FS_AddElement
<1>6. IsFiniteSet((((({} \cup {u[1]}) \cup {u[2]}) \cup {u[3]}) \cup {u[4]}) \cup {u[5]})
  BY <1>5, FS_AddElement
<1>7. ((((({} \cup {u[1]}) \cup {u[2]}) \cup {u[3]}) \cup {u[4]}) \cup {u[5]}) = own
  BY <1>1
<1> QED
  BY <1>6, <1>7

LEMMA VectorDifference ==
    ASSUME NEW a \in Vector, NEW b \in Vector
    PROVE  Total([k \in Factors |-> b[k] - a[k]]) = Total(b) - Total(a)
<1> DEFINE minus == [k \in Factors |-> (-1) * a[k]]
<1>1. /\ a \in [Factors -> Int] /\ b \in [Factors -> Int] /\ minus \in [Factors -> Int]
      /\ IsFiniteSet(Factors)
  BY FactorsAre DEF Vector
<1>2. Total(minus) = (-1) * Total(a)
  <2>1. -1 \in Int
    OBVIOUS
  <2> QED
    BY <1>1, <2>1, TotalTimes, Zenon
<1>3. \A k \in Factors : minus[k] = -a[k]
  BY <1>1
<1> HIDE DEF minus
<1>4. Total([k \in Factors |-> b[k] + minus[k]]) = Total(b) + Total(minus)
  BY <1>1, TotalPlus
<1>5. [k \in Factors |-> b[k] - a[k]] = [k \in Factors |-> b[k] + minus[k]]
  BY <1>1, <1>3
<1>6. Total(a) \in Int /\ Total(b) \in Int
  BY <1>1, TotalInt
<1>7. Total(minus) = -Total(a)
  BY <1>2, <1>6
<1>8. Total([k \in Factors |-> b[k] - a[k]]) = Total(b) + Total(minus)
  BY <1>4, <1>5
<1> DEFINE ta == Total(a)
           tb == Total(b)
           tm == Total(minus)
<1> HIDE DEF ta, tb, tm
<1>9. tb + tm = tb - ta
  BY <1>6, <1>7 DEF ta, tb, tm
<1> QED
  BY <1>8, <1>9 DEF ta, tb, tm

\* A vector has a greatest value and a least one.
LEMMA ExtremeKeys ==
    ASSUME NEW v \in Vector
    PROVE  \A k \in Factors : v[k] \in v[SmallestKey(v)] .. v[LargestKey(v)]
<1> DEFINE values == {v[k] : k \in Factors}
           tops == {k \in DOMAIN v : \A j \in DOMAIN v : v[j] <= v[k]}
           lows == {k \in DOMAIN v : \A j \in DOMAIN v : v[j] >= v[k]}
<1>1. DOMAIN v = Factors /\ \A k \in Factors : v[k] \in Int
  BY DEF Vector
<1>2. ASSUME NEW u \in Vector PROVE \E k \in Factors : \A j \in Factors : u[j] <= u[k]
  <2> DEFINE own == {u[k] : k \in Factors}
  <2>1. own = {u[1], u[2], u[3], u[4], u[5]} /\ own \in SUBSET Int /\ own # {}
    BY FactorsAre DEF Vector
  <2>2. IsFiniteSet(own)
    BY ValuesFinite
  <2>3. PICK m \in own : \A x \in own : x <= m
    <3> HIDE DEF own
    <3> QED
      BY <2>1, <2>2, GreatestNumber
  <2>4. PICK k \in Factors : u[k] = m
    BY <2>3
  <2> QED
    BY <2>3, <2>4
<1>3. tops # {} /\ tops \in SUBSET Factors
  BY <1>1, <1>2
<1>4. lows # {} /\ lows \in SUBSET Factors
  <2> DEFINE u == [k \in Factors |-> -v[k]]
  <2>1. u \in Vector
    BY <1>1 DEF Vector
  <2> HIDE DEF u
  <2>2. PICK k \in Factors : \A j \in Factors : u[j] <= u[k]
    BY <1>2, <2>1
  <2>3. ASSUME NEW j \in Factors PROVE v[j] >= v[k]
    <3>1. u[j] = -v[j] /\ u[k] = -v[k] /\ u[j] <= u[k]
      BY <2>2 DEF u
    <3> QED
      BY <1>1, <3>1
  <2> QED
    BY <1>1, <2>3
<1>5. LargestKey(v) \in tops
  <2> HIDE DEF tops
  <2> QED
    BY <1>3, LastOfIn DEF LargestKey, tops
<1>6. SmallestKey(v) \in lows
  <2> HIDE DEF lows
  <2> QED
    BY <1>4, FirstOfIn DEF SmallestKey, lows
<1> QED
  BY <1>1, <1>5, <1>6

LEMMA FactorCount == Cardinality(Factors) = 5
<1>1. Cardinality(1 .. 5) = 5
  <2>1. 1 \in Int /\ 5 \in Int
    OBVIOUS
  <2>2. Cardinality(1 .. 5) = IF 1 > 5 THEN 0 ELSE 5 - 1 + 1
    BY <2>1, FS_Interval, Zenon
  <2> QED
    BY <2>2
<1> QED
  BY <1>1, FactorsAre

\* A whole number has a root that is rounded down, and so has a hundred-fold.
LEMMA RootIs ==
    ASSUME NEW x \in Nat
    PROVE  Root(x) \in Nat /\ Root(x) * Root(x) <= x /\ x < (Root(x) + 1) * (Root(x) + 1)
<1> DEFINE below == {r \in 0 .. x : r * r <= x}
<1>1. 0 \in below
  OBVIOUS
<1>2. IsFiniteSet(below) /\ below \in SUBSET Int
  <2>1. 0 \in Int /\ x \in Int
    OBVIOUS
  <2>2. IsFiniteSet(0 .. x)
    BY <2>1, FS_Interval, Zenon
  <2> QED
    BY <2>2, FS_Subset
<1>3. PICK r \in below : \A q \in below : q <= r
  <2> HIDE DEF below
  <2> QED
    BY <1>1, <1>2, GreatestNumber
<1>4. r \in 0 .. x /\ r * r <= x
  BY <1>3
<1>5. x < (r + 1) * (r + 1)
  <2>1. r + 1 \notin below
    BY <1>3, <1>4
  <2>2. CASE r + 1 \in 0 .. x
    BY <1>4, <2>1, <2>2
  <2>3. CASE r + 1 \notin 0 .. x
    <3>1. r = x
      BY <1>4, <2>3
    <3>2. x < (x + 1) * (x + 1)
      <4>1. (x + 1) * (x + 1) = x * x + 2 * x + 1 /\ x * x >= 0
        OBVIOUS
      <4> QED
        BY <4>1
    <3> QED
      BY <3>1, <3>2
  <2> QED
    BY <2>2, <2>3
<1>6. \E q \in 0 .. x : q * q <= x /\ x < (q + 1) * (q + 1)
  BY <1>4, <1>5
<1>7. /\ Root(x) \in 0 .. x /\ Root(x) * Root(x) <= x
      /\ x < (Root(x) + 1) * (Root(x) + 1)
  BY <1>6, Zenon DEF Root
<1> QED
  BY <1>7

LEMMA RootInHundredthsIs ==
    ASSUME NEW x \in Nat
    PROVE  /\ RootInHundredths(x) \in Nat
           /\ RootInHundredths(x) * RootInHundredths(x) <= 10000 * x
           /\ 10000 * x < (RootInHundredths(x) + 1) * (RootInHundredths(x) + 1)
           /\ x > 0 => RootInHundredths(x) > 0
<1> DEFINE r == Root(x)
           low == 100 * r
           below == {h \in low .. low + 99 : h * h <= 10000 * x}
<1>1. r \in Nat /\ r * r <= x /\ x < (r + 1) * (r + 1)
  BY RootIs
<1> HIDE DEF r
<1>2. low \in Nat /\ low * low = 10000 * (r * r)
  BY <1>1
<1>3. (low + 100) * (low + 100) = 10000 * ((r + 1) * (r + 1))
  BY <1>1
<1>4. low * low <= 10000 * x /\ 10000 * x < (low + 100) * (low + 100)
  <2>1. (r + 1) * (r + 1) \in Int /\ r * r \in Int
    BY <1>1
  <2> QED
    BY <1>1, <1>2, <1>3, <2>1
<1> HIDE DEF low
<1>5. low \in below
  BY <1>2, <1>4
<1>6. IsFiniteSet(below) /\ below \in SUBSET Int
  <2>1. low \in Int /\ low + 99 \in Int
    BY <1>2
  <2>2. IsFiniteSet(low .. low + 99)
    BY <2>1, FS_Interval, Zenon
  <2>3. below \in SUBSET (low .. low + 99)
    OBVIOUS
  <2>4. below \in SUBSET Int
    BY <2>1
  <2> HIDE DEF below
  <2> QED
    BY <2>2, <2>3, <2>4, FS_Subset
<1>7. PICK h \in below : \A q \in below : q <= h
  <2> HIDE DEF below
  <2> QED
    BY <1>5, <1>6, GreatestNumber
<1>8. h \in low .. low + 99 /\ h * h <= 10000 * x
  BY <1>7
<1>9. 10000 * x < (h + 1) * (h + 1)
  <2>1. h + 1 \notin below
    BY <1>2, <1>7, <1>8
  <2>2. CASE h + 1 \in low .. low + 99
    BY <1>2, <1>8, <2>1, <2>2
  <2>3. CASE h + 1 \notin low .. low + 99
    <3>1. h + 1 = low + 100
      BY <1>2, <1>8, <2>3
    <3> QED
      BY <1>4, <3>1
  <2> QED
    BY <2>2, <2>3
<1> DEFINE root == RootInHundredths(x)
<1>10. \E q \in low .. low + 99 : q * q <= 10000 * x /\ 10000 * x < (q + 1) * (q + 1)
  BY <1>8, <1>9
<1>11. root \in low .. low + 99 /\ root * root <= 10000 * x /\ 10000 * x < (root + 1) * (root + 1)
  <2>1. low = 100 * Root(x)
    BY DEF low, r
  <2>2. root = CHOOSE q \in low .. low + 99 : q * q <= 10000 * x /\ 10000 * x < (q + 1) * (q + 1)
    BY <2>1 DEF RootInHundredths
  <2> HIDE DEF root
  <2> QED
    BY <1>10, <2>2
<1> HIDE DEF root
<1>12. root \in Nat
  BY <1>2, <1>11
<1>13. x > 0 => root > 0
  BY <1>11, <1>12
<1> QED
  BY <1>11, <1>12, <1>13 DEF root

\* The contributions of a decomposition, the specific one with them, add up to
\* its volatility but for what is rounded off.
Unrounded(d) == Total(Contributions(d)) + SpecificPart(d) - Volatility(d)

LEMMA RoundingIs ==
    ASSUME NEW d, IsDecomposition(d)
    PROVE  /\ Contributions(d) \in Vector
           /\ Volatility(d) \in Int /\ SpecificPart(d) \in Int
           /\ Unrounded(d) \in -5 .. 2
<1> DEFINE V == d.variance
           v == Volatility(d)
           C == Contributions(d)
           S == SpecificPart(d)
<1>0. /\ V \in Int /\ d.specific \in Int /\ d.byFactor \in Vector
      /\ Total(d.byFactor) + d.specific = V
      /\ DOMAIN d.byFactor = Factors /\ \A k \in Factors : d.byFactor[k] \in Int
  BY DEF IsDecomposition, Vector
<1>1. CASE V <= 0
  <2>1. C = [k \in Factors |-> 0] /\ S = 0
    BY <1>0, <1>1 DEF Contributions, SpecificPart, PartOfVolatility
  <2>2. v = RootInHundredths(0)
    BY <1>0, <1>1 DEF Volatility, AtLeast
  <2>3. v = 0
    <3>1. RootInHundredths(0) \in Nat /\ RootInHundredths(0) * RootInHundredths(0) <= 10000 * 0
      BY RootInHundredthsIs
    <3> QED
      BY <2>2, <3>1
  <2>4. Total(C) = 0
    BY <2>1, FactorsAre, TotalZero
  <2>5. C \in Vector
    BY <2>1 DEF Vector
  <2> HIDE DEF C, S, v
  <2>6. Total(C) + S - v = 0
    BY <2>1, <2>3, <2>4
  <2>7. 0 \in -5 .. 2
    OBVIOUS
  <2> QED
    BY <2>1, <2>3, <2>5, <2>6, <2>7 DEF Unrounded, C, S, v
<1>2. CASE V > 0
  <2>1. v = RootInHundredths(V)
    BY <1>0, <1>2 DEF Volatility, AtLeast
  <2>2. v \in Nat /\ v > 0 /\ v * v <= 10000 * V /\ 10000 * V < (v + 1) * (v + 1)
    BY <1>0, <1>2, <2>1, RootInHundredthsIs
  <2>3. /\ C = [k \in Factors |-> (10000 * d.byFactor[k]) \div v]
        /\ S = (10000 * d.specific) \div v
    BY <1>0, <1>2 DEF Contributions, SpecificPart, PartOfVolatility
  <2> HIDE DEF v, C, S
  <2> DEFINE part == [k \in Factors |-> 10000 * d.byFactor[k]]
             held == [k \in Factors |-> v * C[k]]
             over == [k \in Factors |-> held[k] + (v - 1)]
             fives == [k \in Factors |-> v - 1]
  <2>4. \A k \in Factors : /\ C[k] \in Int
                           /\ v * C[k] <= 10000 * d.byFactor[k]
                           /\ 10000 * d.byFactor[k] <= v * C[k] + (v - 1)
    <3> TAKE k \in Factors
    <3> DEFINE a == 10000 * d.byFactor[k]
    <3>1. a \in Int /\ C[k] = a \div v
      BY <1>0, <2>3
    <3> HIDE DEF a
    <3>2. a \div v \in Int /\ v * (a \div v) <= a /\ a < v * (a \div v) + v
      BY <2>2, <3>1, QuotientBounds
    <3>3. a <= v * (a \div v) + (v - 1)
      BY <2>2, <3>1, <3>2
    <3> QED
      BY <3>1, <3>2, <3>3 DEF a
  <2>5. S \in Int /\ v * S <= 10000 * d.specific /\ 10000 * d.specific < v * S + v
    <3> DEFINE a == 10000 * d.specific
    <3>1. a \in Int /\ S = a \div v
      BY <1>0, <2>3
    <3> HIDE DEF a
    <3>2. a \div v \in Int /\ v * (a \div v) <= a /\ a < v * (a \div v) + v
      BY <2>2, <3>1, QuotientBounds
    <3> QED
      BY <3>1, <3>2 DEF a
  <2>6. C \in Vector /\ C \in [Factors -> Int]
    BY <2>3, <2>4 DEF Vector
  <2>7. /\ part \in [Factors -> Int] /\ held \in [Factors -> Int]
        /\ over \in [Factors -> Int] /\ fives \in [Factors -> Int]
    BY <1>0, <2>2, <2>4
  <2>8. Total(part) = 10000 * Total(d.byFactor)
    <3> DEFINE own == d.byFactor
    <3>1. own \in [Factors -> Int] /\ 10000 \in Int
      BY <1>0 DEF Vector
    <3> HIDE DEF own
    <3>2. Total([k \in Factors |-> 10000 * own[k]]) = 10000 * Total(own)
      BY <3>1, FactorsAre, TotalTimes
    <3> QED
      BY <3>2 DEF own
  <2>9. Total(held) = v * Total(C)
    <3>1. v \in Int
      BY <2>2
    <3> QED
      BY <2>6, <3>1, FactorsAre, TotalTimes, Zenon
  <2>10. Total(over) = Total(held) + Total(fives)
    <3>1. over = [k \in Factors |-> held[k] + fives[k]]
      OBVIOUS
    <3> HIDE DEF over, held, fives
    <3> QED
      BY <2>7, <3>1, FactorsAre, TotalPlus
  <2>11. Total(fives) = 5 * (v - 1)
    <3>1. v - 1 \in Int /\ Cardinality(Factors) = 5
      BY <2>2, FactorsAre, FactorCount
    <3>2. Total(fives) = Cardinality(Factors) * (v - 1)
      BY <3>1, FactorsAre, TotalConstant
    <3> QED
      BY <3>1, <3>2
  <2>12. Total(held) <= Total(part) /\ Total(part) <= Total(over)
    <3>1. \A k \in Factors : held[k] <= part[k] /\ part[k] <= over[k]
      BY <2>4
    <3> HIDE DEF held, part, over
    <3> QED
      BY <2>7, <3>1, FactorsAre, TotalBelow
  <2> DEFINE T == Total(C)
             B == Total(d.byFactor)
             X == T + S
  <2>13. T \in Int /\ B \in Int
    BY <1>0, <2>6, FactorsAre, TotalInt DEF Vector
  <2>14. v * T <= 10000 * B /\ 10000 * B <= v * T + 5 * (v - 1)
    BY <2>8, <2>9, <2>10, <2>11, <2>12
  <2> HIDE DEF T, B
  <2>15. B + d.specific = V
    BY <1>0 DEF B
  <2>16. X \in Int /\ v * X = v * T + v * S
    BY <2>2, <2>5, <2>13
  <2> DEFINE vX == v * X
             vT == v * T
             vS == v * S
             vv == v * v
  <2>17. (v + 1) * (v + 1) = vv + 2 * v + 1 /\ vX \in Int /\ vT \in Int /\ vS \in Int /\ vv \in Int
    BY <2>2, <2>5, <2>13, <2>16
  <2>18. vX <= 10000 * V /\ 10000 * V < vX + 6 * v
    <3>1. /\ vT <= 10000 * B /\ 10000 * B <= vT + 5 * (v - 1)
          /\ vS <= 10000 * d.specific /\ 10000 * d.specific < vS + v
          /\ vX = vT + vS
      BY <2>5, <2>14, <2>16
    <3> HIDE DEF vX, vT, vS, vv, X
    <3> QED
      BY <1>0, <2>2, <2>13, <2>15, <2>17, <3>1
  <2>19. vX < vv + 2 * v + 1 /\ vv < vX + 6 * v
    <3>1. vv <= 10000 * V /\ 10000 * V < vv + 2 * v + 1
      BY <2>2, <2>17
    <3> HIDE DEF vX, vT, vS, vv, X
    <3> QED
      BY <1>0, <2>2, <2>17, <2>18, <3>1
  <2>20. X < v + 3
    <3>1. SUFFICES ASSUME X >= v + 3 PROVE FALSE
      BY <2>2, <2>16
    <3>2. v * X >= v * (v + 3)
      <4> HIDE DEF X
      <4> QED
        BY <2>2, <2>16, <3>1
    <3>3. v * (v + 3) = vv + 3 * v
      BY <2>2
    <3> HIDE DEF X
    <3> QED
      BY <2>2, <2>16, <2>17, <2>19, <3>2, <3>3
  <2>21. X > v - 6
    <3>1. SUFFICES ASSUME X <= v - 6 PROVE FALSE
      BY <2>2, <2>16
    <3>2. v * X <= v * (v - 6)
      <4> HIDE DEF X
      <4> QED
        BY <2>2, <2>16, <3>1
    <3>3. v * (v - 6) = vv - 6 * v
      BY <2>2
    <3> HIDE DEF X
    <3> QED
      BY <2>2, <2>16, <2>17, <2>19, <3>2, <3>3
  <2>22. Unrounded(d) = X - v
    <3>1. Total(Contributions(d)) = T /\ SpecificPart(d) = S /\ Volatility(d) = v
      BY DEF T, C, S, v
    <3> QED
      BY <2>2, <2>5, <2>13, <3>1 DEF Unrounded
  <2>23. X - v \in -5 .. 2
    <3> HIDE DEF X
    <3> QED
      BY <2>2, <2>16, <2>20, <2>21
  <2> QED
    BY <2>2, <2>5, <2>6, <2>22, <2>23 DEF v, C, S
<1> QED
  BY <1>0, <1>1, <1>2

\* A share is a number, and so is the largest one.
LEMMA ShareInt ==
    ASSUME NEW d, IsDecomposition(d), NEW part \in Int PROVE Share(d, part) \in Int
<1> DEFINE a == 100 * part
           b == d.variance
<1>1. a \in Int /\ b \in Int
  BY DEF IsDecomposition
<1>2. CASE b <= 0
  BY <1>2 DEF Share
<1>3. CASE ~(b <= 0)
  <2>1. a \div b \in Int
    <3> HIDE DEF a, b
    <3>1. b > 0
      BY <1>1, <1>3
    <3> QED
      BY <1>1, <3>1, QuotientBounds
  <2> QED
    BY <1>3, <2>1 DEF Share
<1> QED
  BY <1>2, <1>3

LEMMA MaxShareInt ==
    ASSUME NEW d, IsDecomposition(d) PROVE MaxShare(d) \in Int
<1> DEFINE shares == [k \in Factors |-> Share(d, d.byFactor[k])]
           own == {shares[k] : k \in Factors}
<1>1. DOMAIN d.byFactor = Factors /\ \A k \in Factors : d.byFactor[k] \in Int
  BY DEF IsDecomposition, Vector
<1>2. shares \in Vector
  BY <1>1, ShareInt DEF Vector
<1>3. {Share(d, d.byFactor[k]) : k \in DOMAIN d.byFactor} = own
  BY <1>1
<1> HIDE DEF shares
<1>4. own \in SUBSET Int /\ own # {}
  BY <1>2, FactorsAre DEF Vector
<1>5. IsFiniteSet(own)
  BY <1>2, ValuesFinite
<1>6. Max(own) \in own
  <2> HIDE DEF own
  <2> QED
    BY <1>4, <1>5, MaxIs
<1> HIDE DEF own
<1> QED
  BY <1>3, <1>4, <1>6 DEF MaxShare

LEMMA RunInvDrift == RunInv => DriftIsDifference
<1> DEFINE i == trace.answer.parent
           base == stored[i]
           before == base.answer
           result == AnswerFor(Request)
           drift == trace.answer
           regime == FittedFor(Request).regime
           delta == drift.byFactorAdded
           same == base.inputs.market = Request.market /\ base.inputs.window = Request.window
                     /\ FrequencyOf(base.inputs) = FrequencyOf(Request)
<1>1. SUFFICES ASSUME RunInv, stage = "ran", Kind = "RiskDrift"
               PROVE  /\ base.kind = "RiskDecomposition" /\ base.portfolio = Portfolio
                      /\ drift.after = RunRiskDecomposition(data, model, Portfolio)
                      /\ \A k \in Factors :
                            delta[k] \in delta[drift.shrinking] .. delta[drift.growing]
                      /\ drift.volatilityAdded - Total(delta)
                            - (SpecificPart(drift.after) - SpecificPart(before))
                               \in -RoundingOff .. RoundingOff
                      /\ drift.worsened => drift.changed
                      /\ same => /\ \A k \in Factors : 0 = delta[k] /\ 0 = drift.betasAdded[k]
                                 /\ drift.volatilityAdded = 0 /\ drift.specificShareAdded = 0
                                 /\ ~drift.changed /\ ~drift.increased /\ ~drift.concentrated
  BY DEF DriftIsDifference
<1>2. /\ data = LoadedFor(Request) /\ model = FittedFor(Request)
      /\ LoadedFor(Request).outcome = "ok" /\ FittedFor(Request).outcome = "ok"
      /\ Request \in Requests /\ Request.portfolio = Portfolio
  <2>1. Loaded /\ Modelled
    BY <1>1 DEF Loaded, Modelled, WithModel
  <2> QED
    BY <1>1, <2>1, RequestIn DEF RunInv, DataHeld, ModelHeld, Portfolio
<1>3. PICK b \in Baseline : drift = ComputeRiskDrift(b, stored[b], result, regime)
  BY <1>1 DEF RunInv, DriftHeld
<1>4. drift.outcome = "ok"
  BY <1>1 DEF RunInv, DriftHeld
<1> HIDE DEF result, regime, drift
<1>5. /\ stored[b].kind = "RiskDecomposition"
      /\ drift = [outcome |-> "ok",
              parent  |-> b,
              after   |-> result,
              volatilityAdded  |-> Volatility(result) - Volatility(stored[b].answer),
              byFactorAdded    |-> DeltaMap(Contributions(stored[b].answer), Contributions(result)),
              betasAdded       |-> DeltaMap(stored[b].answer.betas, result.betas),
              correlationAdded |-> DeltaMap(stored[b].answer.correlation, result.correlation),
              specificShareAdded |-> Share(result, result.specific)
                                        - Share(stored[b].answer, stored[b].answer.specific),
              growing   |-> LargestKey(DeltaMap(Contributions(stored[b].answer), Contributions(result))),
              shrinking |-> SmallestKey(DeltaMap(Contributions(stored[b].answer), Contributions(result))),
              moved     |-> LargestByAbs(DeltaMap(stored[b].answer.correlation, result.correlation)),
              changed   |-> stored[b].regime.regime.current # regime.current,
              worsened  |-> regime.current > stored[b].regime.regime.current,
              increased |-> AtLeast(result.variance, 0) > AtLeast(stored[b].answer.variance, 0),
              concentrated |-> MaxShare(result) - MaxShare(stored[b].answer) > ConcentrationStep]
  <2>1. Failed("error").outcome # "ok"
    BY DEF Failed
  <2> QED
    BY <1>3, <1>4, <2>1 DEF ComputeRiskDrift
<1>6. b = i
  BY <1>5 DEF drift
<1> HIDE DEF i
<1>7. i \in DOMAIN stored /\ base.portfolio = Portfolio /\ Attests(base)
  BY <1>1, <1>6 DEF Baseline, OfPortfolio, RunInv, StoredHeld
<1>8. /\ base.kind = "RiskDecomposition"
      /\ base.inputs \in Requests /\ base.portfolio = base.inputs.portfolio
      /\ LoadedFor(base.inputs).outcome = "ok" /\ FittedFor(base.inputs).outcome = "ok"
      /\ before = AnswerFor(base.inputs) /\ base.regime = RegimeFor(base.inputs)
  BY <1>5, <1>6, <1>7 DEF Attests
<1>9. /\ IsDecomposition(result) /\ regime.current \in 1 .. 3
      /\ IsDecomposition(before) /\ base.regime.regime.current \in 1 .. 3
  <2>1. base.regime.regime = FittedFor(base.inputs).regime
    BY <1>8 DEF RegimeFor
  <2> HIDE DEF base
  <2> QED
    BY <1>2, <1>8, <2>1, AnswerIs DEF result, regime
<1>10. /\ drift.after = result
       /\ drift.volatilityAdded = Volatility(result) - Volatility(before)
       /\ delta = DeltaMap(Contributions(before), Contributions(result))
       /\ drift.betasAdded = DeltaMap(before.betas, result.betas)
       /\ drift.specificShareAdded = Share(result, result.specific) - Share(before, before.specific)
       /\ drift.growing = LargestKey(delta)
       /\ drift.shrinking = SmallestKey(delta)
       /\ drift.changed = (base.regime.regime.current # regime.current)
       /\ drift.worsened = (regime.current > base.regime.regime.current)
       /\ drift.increased = (AtLeast(result.variance, 0) > AtLeast(before.variance, 0))
       /\ drift.concentrated = (MaxShare(result) - MaxShare(before) > ConcentrationStep)
  BY <1>5, <1>6
<1> HIDE DEF base, before, delta
<1> DEFINE now  == Contributions(result)
           then == Contributions(before)
           added == [k \in Factors |-> now[k] - then[k]]
<1>11. /\ result.variance \in Int /\ result.specific \in Int
       /\ result.betas \in Vector /\ before.betas \in Vector
       /\ now \in Vector /\ then \in Vector
       /\ Volatility(result) \in Int /\ Volatility(before) \in Int
       /\ SpecificPart(result) \in Int /\ SpecificPart(before) \in Int
       /\ Unrounded(result) \in -5 .. 2 /\ Unrounded(before) \in -5 .. 2
  BY <1>9, RoundingIs DEF IsDecomposition
<1> HIDE DEF now, then
<1>12. /\ delta = added /\ added \in Vector
       /\ drift.betasAdded = [k \in Factors |-> result.betas[k] - before.betas[k]]
  <2>1. DeltaMap(then, now) = added
    BY <1>11, DeltaIs
  <2>2. DeltaMap(before.betas, result.betas) = [k \in Factors |-> result.betas[k] - before.betas[k]]
    BY <1>11, DeltaIs
  <2>3. added \in Vector
    BY <1>11 DEF Vector
  <2> HIDE DEF added
  <2> QED
    BY <1>10, <2>1, <2>2, <2>3 DEF now, then
<1>13. Total(added) = Total(now) - Total(then)
  BY <1>11, VectorDifference
<1>14. Total(now) \in Int /\ Total(then) \in Int
  BY <1>11, FactorsAre, TotalInt DEF Vector
<1>15. drift.volatilityAdded - Total(delta) - (SpecificPart(drift.after) - SpecificPart(before))
          \in -RoundingOff .. RoundingOff
  <2> DEFINE tn == Total(now)
             tt == Total(then)
             sn == SpecificPart(result)
             st == SpecificPart(before)
             vn == Volatility(result)
             vt == Volatility(before)
  <2> HIDE DEF added
  <2>1. /\ Unrounded(result) = tn + sn - vn /\ Unrounded(before) = tt + st - vt
    BY DEF Unrounded, now, then
  <2>2. /\ drift.volatilityAdded = vn - vt /\ Total(delta) = tn - tt
        /\ drift.after = result
    BY <1>10, <1>12, <1>13
  <2>3. /\ tn \in Int /\ tt \in Int /\ sn \in Int /\ st \in Int /\ vn \in Int /\ vt \in Int
    BY <1>11, <1>14
  <2>4. /\ tn + sn - vn \in -5 .. 2 /\ tt + st - vt \in -5 .. 2
    BY <1>11, <2>1
  <2> HIDE DEF tn, tt, sn, st, vn, vt
  <2>5. (vn - vt) - (tn - tt) - (sn - st) \in -7 .. 7
    BY <2>3, <2>4
  <2> QED
    BY <2>2, <2>5 DEF sn, st, RoundingOff
<1>16. \A k \in Factors : delta[k] \in delta[drift.shrinking] .. delta[drift.growing]
  <2> HIDE DEF added
  <2> QED
    BY <1>10, <1>12, ExtremeKeys
<1>17. drift.worsened => drift.changed
  <2>1. regime.current > base.regime.regime.current
          => base.regime.regime.current # regime.current
    BY <1>9
  <2> QED
    BY <1>10, <2>1, Zenon
<1>18. ASSUME same
       PROVE  /\ \A k \in Factors : 0 = delta[k] /\ 0 = drift.betasAdded[k]
              /\ drift.volatilityAdded = 0 /\ drift.specificShareAdded = 0
              /\ ~drift.changed /\ ~drift.increased /\ ~drift.concentrated
  <2>1. /\ LoadedFor(base.inputs) = LoadedFor(Request)
        /\ FittedFor(base.inputs) = FittedFor(Request)
        /\ base.inputs.portfolio = Request.portfolio
    BY <1>2, <1>7, <1>8, <1>18 DEF LoadedFor, FittedFor
  <2>2. before = result /\ base.regime.regime = regime
    BY <1>8, <2>1 DEF AnswerFor, RegimeFor, result, regime
  <2>3. /\ MaxShare(result) \in Int /\ ConcentrationStep \in Nat
        /\ Share(result, result.specific) \in Int
    BY <1>9, <1>11, MaxShareInt, ShareInt, DriftAssumption
  <2>4. \A k \in Factors : 0 = delta[k] /\ 0 = drift.betasAdded[k]
    BY <1>11, <1>12, <2>2 DEF Vector, now, then
  <2>5. /\ ~(MaxShare(result) - MaxShare(before) > ConcentrationStep)
        /\ ~(AtLeast(result.variance, 0) > AtLeast(before.variance, 0))
        /\ ~(base.regime.regime.current # regime.current)
    BY <1>11, <2>2, <2>3 DEF AtLeast
  <2>6. ~drift.changed /\ ~drift.increased /\ ~drift.concentrated
    BY <1>10, <2>5, Zenon
  <2>7. drift.volatilityAdded = 0 /\ drift.specificShareAdded = 0
    BY <1>10, <1>11, <2>2, <2>3
  <2> QED
    BY <2>4, <2>6, <2>7
<1> QED
  BY <1>2, <1>7, <1>8, <1>10, <1>15, <1>16, <1>17, <1>18 DEF result, AnswerFor

(* A reported drift is what today's decomposition has more than the one it *)
(* names, which is a decomposition of the same portfolio: the deltas and   *)
(* what the specific part gained add up to what the volatility gained, up  *)
(* to the rounding, though each day divides by a volatility of its own; no *)
(* delta is beyond the factors named as growing and shrinking; and between *)
(* two runs of the same request nothing moved.                             *)
THEOREM DriftAlways == Spec => []DriftIsDifference
BY RunInvAlways, RunInvDrift, PTL

(***************************************************************************)
(* A loss that is out of reach                                             *)
(***************************************************************************)
\* A conversion lies on or above the line through nothing.
LEMMA SimpleAbove ==
    ASSUME NEW r \in Int
    PROVE  LogToSimple(r) \in Int /\ Slope * r <= LogToSimple(r)
<1>1. /\ Unit \in Nat /\ Slope \in Int /\ Slope <= Unit /\ Unit <= Slope + (Unit \div 2)
      /\ 0 < Unit
  BY StressAssumption, ExperimentAssumption
<1>2. \A k \in Nat : 0 <= k \div 2 /\ 2 * (k \div 2) <= k /\ k \div 2 \in Int
  OBVIOUS
<1>3. 0 <= Slope /\ Unit <= 2 * Slope
  BY <1>1, <1>2
<1>4. CASE r >= 0
  <2>1. r \in Nat /\ 2 ^ r \in Nat /\ r + 1 <= 2 ^ r
    BY <1>4, PowerNat, PowerAbove
  <2>2. LogToSimple(r) = Unit * (2 ^ r - 1)
    BY <1>4 DEF LogToSimple
  <2> DEFINE p == 2 ^ r
  <2> HIDE DEF p
  <2>3. p \in Nat /\ r \in Nat /\ r <= p - 1 /\ LogToSimple(r) = Unit * (p - 1)
    BY <2>1, <2>2 DEF p
  <2>4. \A a, b, c, d \in Nat : (a <= b /\ c <= d) => a * c <= b * d
    <3>1. \A a, b, c \in Nat : a <= b => a * c <= b * c
      OBVIOUS
    <3>2. \A b, c, d \in Nat : c <= d => b * c <= b * d
      OBVIOUS
    <3>3. \A a, b \in Nat : a * b \in Nat
      OBVIOUS
    <3>4. SUFFICES ASSUME NEW a \in Nat, NEW b \in Nat, NEW c \in Nat, NEW d \in Nat,
                          a <= b, c <= d
                   PROVE  a * c <= b * d
      OBVIOUS
    <3>5. a * c <= b * c /\ b * c <= b * d /\ a * c \in Nat /\ b * c \in Nat /\ b * d \in Nat
      BY <3>1, <3>2, <3>3, <3>4
    <3> QED
      BY <3>5
  <2>5. Slope \in Nat /\ p - 1 \in Nat
    BY <1>1, <1>3, <2>3
  <2>6. Slope * r <= Unit * (p - 1)
    BY <1>1, <2>3, <2>4, <2>5
  <2>7. Unit * (p - 1) \in Int
    BY <1>1, <2>5
  <2> QED
    BY <2>3, <2>6, <2>7
<1>5. CASE r < 0
  <2> DEFINE n == -r
             p == 2 ^ n
  <2>1. n \in Nat /\ 1 <= n /\ r = -n
    BY <1>5
  <2>2. LogToSimple(r) = (Unit \div p) - Unit
    BY <1>5 DEF LogToSimple
  <2>3. p \in Nat /\ n + 1 <= p
    <3> HIDE DEF n
    <3> QED
      BY <2>1, PowerNat, PowerAbove
  <2>4. n = 1 => p = 2
    <3>1. 2 ^ 1 = 2
      OBVIOUS
    <3> HIDE DEF n
    <3> QED
      BY <3>1
  <2> HIDE DEF n, p
  <2>5. Unit \div p \in Nat
    BY <1>1, <2>1, <2>3
  <2>6. CASE n = 1
    BY <1>1, <2>1, <2>2, <2>4, <2>5, <2>6
  <2>7. CASE n >= 2
    <3>1. \A a, b \in Nat : b >= 2 => 2 * a <= a * b
      OBVIOUS
    <3>2. Slope \in Nat
      BY <1>1, <1>3
    <3>3. 2 * Slope <= Slope * n
      BY <2>1, <2>7, <3>1, <3>2
    <3>4. Slope * r = -(Slope * n) /\ Slope * n \in Int
      BY <2>1, <3>2
    <3> QED
      BY <1>1, <1>3, <2>2, <2>5, <3>3, <3>4
  <2> QED
    BY <2>1, <2>2, <2>5, <2>6, <2>7
<1> QED
  BY <1>4, <1>5

\* What a shock moves a holding by, and the portfolio by its exposure.
Moved(m, s, i) == Total([k \in Factors |-> m.betas[i][k] * s[k]])
Tilt(m, p, s) == Total([k \in Factors |-> Exposure(m, p)[k] * s[k]])

LEMMA ExposureToSum ==
    ASSUME NEW p, IsPortfolio(p), NEW m, IsModelOf(m, Holdings(p)), NEW s \in Vector
    PROVE  /\ \A i \in Holdings(p) : Moved(m, s, i) \in Int
           /\ Tilt(m, p, s) \in Int
           /\ Tilt(m, p, s) = Total([i \in Holdings(p) |-> p.weights[i] * Moved(m, s, i)])
<1> DEFINE H == Holdings(p)
           w == p.weights
           b == m.betas
           x == Exposure(m, p)
<1>1. /\ IsFiniteSet(H) /\ IsFiniteSet(Factors) /\ w \in [H -> Int]
      /\ b \in [H -> [Factors -> Int]] /\ s \in [Factors -> Int] /\ x \in [Factors -> Int]
      /\ x = [k \in Factors |-> Total([i \in H |-> w[i] * b[i][k]])]
  <2>1. x \in Vector /\ x = [k \in Factors |-> Total([i \in H |-> w[i] * b[i][k]])]
    BY ExposureIs
  <2> HIDE DEF x
  <2> QED
    BY <2>1, FactorsAre DEF IsPortfolio, IsModelOf, Vector
<1> HIDE DEF H, w, b, x
<1>2. ASSUME NEW i \in H PROVE Total([k \in Factors |-> b[i][k] * s[k]]) \in Int
  <2> DEFINE row == b[i]
  <2>1. row \in [Factors -> Int]
    BY <1>1
  <2> HIDE DEF row
  <2>2. Total([k \in Factors |-> row[k] * s[k]]) \in Int
    BY <1>1, <2>1, SumsInt
  <2> QED
    BY <2>2 DEF row
<1>3. Total([k \in Factors |-> x[k] * s[k]]) \in Int
  <2>1. IsFiniteSet(Factors) /\ x \in [Factors -> Int] /\ s \in [Factors -> Int]
    BY <1>1
  <2> QED
    BY <2>1, SumsInt
<1>4. TimesRows(w, b, s, H, Factors) = TimesColumns(w, b, s, H, Factors)
  BY <1>1, TotalBilinear
<1>5. [k \in Factors |-> s[k] * Total([i \in H |-> w[i] * b[i][k]])]
        = [k \in Factors |-> x[k] * s[k]]
  <2>1. \A y, z \in Int : y * z = z * y
    OBVIOUS
  <2>2. ASSUME NEW k \in Factors
        PROVE  s[k] * Total([i \in H |-> w[i] * b[i][k]]) = x[k] * s[k]
    <3>1. x[k] = Total([i \in H |-> w[i] * b[i][k]]) /\ x[k] \in Int /\ s[k] \in Int
      BY <1>1
    <3> QED
      BY <2>1, <3>1
  <2> QED
    BY <2>2
<1> QED
  BY <1>2, <1>3, <1>4, <1>5 DEF TimesRows, TimesColumns, Moved, Tilt, H, w, b, x

\* The linear measure never loses less than the shock itself.
LEMMA LinearIsWorse ==
    ASSUME NEW p, IsPortfolio(p), p.weights \in [Holdings(p) -> Nat], p.value \in Nat,
           NEW m, IsModelOf(m, Holdings(p)), NEW s \in Vector
    PROVE  /\ LinearPnl(m, p, s) \in Int /\ NonlinearPnl(m, p, s) \in Int
           /\ LinearPnl(m, p, s) <= NonlinearPnl(m, p, s)
<1> DEFINE H == Holdings(p)
           w == p.weights
           V == p.value
           moved == [i \in H |-> Moved(m, s, i)]
           line == [i \in H |-> w[i] * moved[i]]
           low  == [i \in H |-> (Slope * V) * line[i]]
           high == [i \in H |-> (w[i] * V) * LogToSimple(moved[i])]
<1>1. IsFiniteSet(H) /\ w \in [H -> Nat] /\ V \in Nat
  BY DEF IsPortfolio
<1>2. moved \in [H -> Int]
  <2>1. \A i \in Holdings(p) : Moved(m, s, i) \in Int
    BY ExposureToSum
  <2> QED
    BY <2>1
<1>3. Tilt(m, p, s) = Total(line)
  <2>1. [i \in H |-> w[i] * Moved(m, s, i)] = line
    OBVIOUS
  <2> HIDE DEF line
  <2> QED
    BY <2>1, ExposureToSum
<1>4. NonlinearPnl(m, p, s) = Total(high)
  <2>1. [i \in H |-> ValueOf(p, i) * LogToSimple(Moved(m, s, i))] = high
    BY DEF ValueOf
  <2> HIDE DEF high
  <2> QED
    BY <2>1 DEF NonlinearPnl, Moved
<1>5. LinearPnl(m, p, s) = (Slope * V) * Total(line)
  <2> HIDE DEF line
  <2> QED
    BY <1>3 DEF LinearPnl, Tilt
<1>6. Slope \in Nat
  <2>1. \A k \in Nat : k \div 2 \in Int /\ 2 * (k \div 2) <= k
    OBVIOUS
  <2> QED
    BY <2>1, StressAssumption, ExperimentAssumption
<1> HIDE DEF H, w, V, moved
<1>7. line \in [H -> Int] /\ low \in [H -> Int]
  <2>1. \A a \in Nat, c \in Int : a * c \in Int
    OBVIOUS
  <2>2. line \in [H -> Int]
    BY <1>1, <1>2, <2>1
  <2>3. Slope * V \in Nat
    BY <1>1, <1>6
  <2> HIDE DEF line
  <2> QED
    BY <2>1, <2>2, <2>3
<1>8. ASSUME NEW i \in H PROVE high[i] \in Int /\ low[i] <= high[i]
  <2> DEFINE r == moved[i]
             e == LogToSimple(r)
             a == w[i]
  <2>1. r \in Int /\ a \in Nat
    BY <1>1, <1>2
  <2>2. e \in Int /\ Slope * r <= e
    <3> HIDE DEF r
    <3> QED
      BY <2>1, SimpleAbove
  <2>3. low[i] = (Slope * V) * (a * r) /\ high[i] = (a * V) * e
    OBVIOUS
  <2> HIDE DEF r, e, a, low, high
  <2>4. \A c, d \in Nat, x, y \in Int : (c * d) * (x * y) = (x * d) * (c * y)
    OBVIOUS
  <2>5. \A c \in Nat, x, y \in Int : x <= y => c * x <= c * y
    OBVIOUS
  <2>6. a * V \in Nat /\ Slope * r \in Int /\ (a * V) * e \in Int
    BY <1>1, <1>6, <2>1, <2>2
  <2>7. (Slope * V) * (a * r) = (a * V) * (Slope * r)
    BY <1>1, <1>6, <2>1, <2>4
  <2>8. (a * V) * (Slope * r) <= (a * V) * e
    BY <2>2, <2>5, <2>6
  <2> QED
    BY <2>3, <2>6, <2>7, <2>8
<1>9. high \in [H -> Int]
  <2>1. high = [i \in H |-> high[i]]
    OBVIOUS
  <2> HIDE DEF high
  <2> QED
    BY <1>8, <2>1
<1>10. Total(low) = (Slope * V) * Total(line)
  <2>1. Slope * V \in Int
    BY <1>1, <1>6
  <2> HIDE DEF line
  <2> QED
    BY <1>1, <1>7, <2>1, TotalTimes, Zenon
<1>11. Total(low) <= Total(high) /\ Total(low) \in Int /\ Total(high) \in Int
  <2> HIDE DEF low, high
  <2> QED
    BY <1>1, <1>7, <1>8, <1>9, TotalBelow, TotalInt
<1> HIDE DEF low, high, line
<1> QED
  BY <1>4, <1>5, <1>10, <1>11

AreBounds(bounds) ==
    bounds \in [Factors -> {bounds[k] : k \in Factors}]
      /\ \A k \in Factors : bounds[k].lower \in Int /\ bounds[k].upper \in Int

\* A bound with a whole logarithm has one of the numbers tried.
LEMMA LogInt == ASSUME NEW x, HasLog(x) PROVE SimpleToLog(x) \in Int
<1>1. \E r \in -6 .. 6 : LogToSimple(r) = x
  BY DEF HasLog
<1>2. SimpleToLog(x) \in -6 .. 6
  BY <1>1, Zenon DEF SimpleToLog
<1> QED
  BY <1>2

\* All is lost at -Unit, and no bound with a logarithm is beyond it.
LEMMA NotBeyond == ASSUME NEW x, HasLog(x) PROVE x \in Int /\ ~(x < -Unit)
<1>1. PICK r \in -6 .. 6 : LogToSimple(r) = x
  BY DEF HasLog
<1>2. Unit \in Nat /\ Unit > 0
  BY ExperimentAssumption
<1>3. LogToSimple(r) \in Int
  BY SimpleAbove
<1>4. CASE r >= 0
  <2> DEFINE p == 2 ^ r
  <2>1. p \in Nat /\ r + 1 <= p
    BY <1>4, PowerNat, PowerAbove
  <2>2. x = Unit * (p - 1)
    BY <1>1, <1>4 DEF LogToSimple
  <2> HIDE DEF p
  <2>3. \A a, c \in Nat : a * c >= 0
    OBVIOUS
  <2>4. p - 1 \in Nat
    BY <1>4, <2>1
  <2>5. x >= 0
    BY <1>2, <2>2, <2>3, <2>4
  <2> QED
    BY <1>1, <1>2, <1>3, <2>5
<1>5. CASE r < 0
  <2> DEFINE n == -r
             p == 2 ^ n
  <2>1. n \in Nat
    BY <1>5
  <2>2. p \in Nat /\ n + 1 <= p
    <3> HIDE DEF n
    <3> QED
      BY <2>1, PowerNat, PowerAbove
  <2>3. x = (Unit \div p) - Unit
    BY <1>1, <1>5 DEF LogToSimple
  <2> HIDE DEF n, p
  <2>4. Unit \div p \in Nat
    BY <1>2, <2>1, <2>2
  <2> QED
    BY <1>2, <2>3, <2>4
<1> QED
  BY <1>4, <1>5

UsedBounds(given) ==
    [k \in Factors |-> IF k \in DOMAIN given THEN given[k] ELSE DefaultBounds[k]]
UsedLogs(given) ==
    [k \in Factors |-> [lower |-> ToLog(UsedBounds(given)[k].lower),
                        upper |-> ToLog(UsedBounds(given)[k].upper)]]

LEMMA UsedAre ==
    ASSUME NEW given
    PROVE  BoundsUsed(given) = UsedBounds(given) /\ LogBounds(BoundsUsed(given)) = UsedLogs(given)
<1> DEFINE S == {UsedBounds(given)[k] : k \in Factors}
           T == {UsedLogs(given)[k] : k \in Factors}
<1>1. UsedBounds(given) \in [Factors -> S] /\ UsedLogs(given) \in [Factors -> T]
  BY DEF UsedBounds, UsedLogs
<1>2. BoundsUsed(given) = UsedBounds(given)
  <2>1. BoundsUsed(given) = ByFactor(UsedBounds(given))
    BY DEF BoundsUsed, UsedBounds
  <2> QED
    BY <1>1, <2>1, TupleIs
<1>3. LogBounds(UsedBounds(given)) = UsedLogs(given)
  <2>1. LogBounds(UsedBounds(given)) = ByFactor(UsedLogs(given))
    BY DEF LogBounds, UsedLogs
  <2> QED
    BY <1>1, <2>1, TupleIs
<1> QED
  BY <1>2, <1>3

\* A bound that is converted is a number, unless it is beyond the loss of all.
LEMMA ToLogIs ==
    ASSUME NEW x, IsBound(x) PROVE x \in Int /\ (ToLog(x) \in Int \/ x < -Unit)
<1>1. CASE HasLog(x)
  BY <1>1, NotBeyond, LogInt DEF ToLog
<1>2. CASE ~HasLog(x)
  BY <1>2 DEF IsBound
<1> QED
  BY <1>1, <1>2

LEMMA BoundsUsedAre ==
    ASSUME NEW given, \A k \in DOMAIN given : IsBound(given[k].lower) /\ IsBound(given[k].upper),
           ~Unclampable(LogBounds(BoundsUsed(given)))
    PROVE  AreBounds(LogBounds(BoundsUsed(given)))
<1> DEFINE b == UsedBounds(given)
           l == UsedLogs(given)
<1>1. \A k \in Factors : IsBound(b[k].lower) /\ IsBound(b[k].upper)
  <2>1. \A k \in Factors : IsBound(DefaultBounds[k].lower) /\ IsBound(DefaultBounds[k].upper)
    BY StressAssumption DEF IsBound
  <2> QED
    BY <2>1 DEF UsedBounds
<1>2. \A k \in Factors : l[k].lower = ToLog(b[k].lower) /\ l[k].upper = ToLog(b[k].upper)
  BY DEF UsedLogs
<1>3. \A k \in Factors : l[k].lower # NaN /\ l[k].upper # NaN
  BY UsedAre DEF Unclampable
<1>4. ASSUME NEW x, IsBound(x), ToLog(x) # NaN PROVE ToLog(x) \in Int
  BY <1>4, ToLogIs DEF ToLog
<1>5. l \in [Factors -> {l[k] : k \in Factors}]
  BY DEF UsedLogs
<1> HIDE DEF b, l
<1>6. \A k \in Factors : l[k].lower \in Int /\ l[k].upper \in Int
  BY <1>1, <1>2, <1>3, <1>4
<1>7. LogBounds(BoundsUsed(given)) = l
  BY UsedAre DEF l
<1> QED
  BY <1>5, <1>6, <1>7 DEF AreBounds

\* A reverse stress panics only for a bound beyond the loss of everything.
LEMMA StressPanics ==
    ASSUME NEW m, NEW p, NEW input, NEW stopped,
           \A k \in DOMAIN input.bounds :
               IsBound(input.bounds[k].lower) /\ IsBound(input.bounds[k].upper),
           RunReverseStress(m, p, input, stopped).outcome = "panic"
    PROVE  \E k \in DOMAIN input.bounds : input.bounds[k].lower < -Unit
<1> DEFINE given == input.bounds
           b == UsedBounds(given)
           l == UsedLogs(given)
<1>1. /\ Unclampable(LogBounds(BoundsUsed(given)))
      /\ \A k \in Factors : ~(BoundsUsed(given)[k].lower > BoundsUsed(given)[k].upper)
  BY DEF RunReverseStress, StressReport, Failed
<1>2. /\ Unclampable(l)
      /\ \A k \in Factors : ~(b[k].lower > b[k].upper)
  BY <1>1, UsedAre
<1>3. PICK k \in Factors : l[k].lower = NaN \/ l[k].upper = NaN
  BY <1>2 DEF Unclampable
<1>4. l[k].lower = ToLog(b[k].lower) /\ l[k].upper = ToLog(b[k].upper)
  BY DEF UsedLogs
<1>5. b[k] = IF k \in DOMAIN given THEN given[k] ELSE DefaultBounds[k]
  BY DEF UsedBounds
<1>6. IsBound(b[k].lower) /\ IsBound(b[k].upper)
  BY <1>5, StressAssumption DEF IsBound
<1>7. NaN \notin Int /\ Unit \in Nat
  BY StressAssumption, ExperimentAssumption
<1>8. b[k].lower < -Unit
  <2>1. /\ b[k].lower \in Int /\ b[k].upper \in Int /\ ~(b[k].lower > b[k].upper)
        /\ ToLog(b[k].lower) \in Int \/ b[k].lower < -Unit
        /\ ToLog(b[k].upper) \in Int \/ b[k].upper < -Unit
    BY <1>2, <1>6, ToLogIs
  <2> DEFINE low == b[k].lower
             high == b[k].upper
  <2>2. low < -Unit \/ high < -Unit
    BY <1>3, <1>4, <1>7, <2>1
  <2>3. low \in Int /\ high \in Int /\ ~(low > high)
    BY <2>1
  <2> HIDE DEF low, high
  <2>4. low < -Unit
    BY <1>7, <2>2, <2>3
  <2> QED
    BY <2>4 DEF low
<1>9. k \in DOMAIN given
  <2>1. ASSUME k \notin DOMAIN given PROVE FALSE
    <3>1. HasLog(b[k].lower)
      BY <1>5, <2>1, StressAssumption
    <3> QED
      BY <1>8, <3>1, NotBeyond
  <2> QED
    BY <2>1
<1> QED
  BY <1>5, <1>8, <1>9

\* No shock within the bounds has a smaller linear measure than the corner.
LEMMA CornerIsWorst ==
    ASSUME NEW p, IsPortfolio(p), p.value \in Nat, NEW m, IsModelOf(m, Holdings(p)),
           NEW bounds, AreBounds(bounds), NEW s \in Box(bounds), ~Unclampable(bounds)
    PROVE  /\ s \in Vector /\ LinearPnl(m, p, WorstCorner(m, p, bounds)) \in Int
           /\ LinearPnl(m, p, WorstCorner(m, p, bounds)) <= LinearPnl(m, p, s)
<1> DEFINE x == Exposure(m, p)
           c == [k \in Factors |-> IF x[k] >= 0 THEN bounds[k].lower ELSE bounds[k].upper]
           low  == [k \in Factors |-> x[k] * c[k]]
           high == [k \in Factors |-> x[k] * s[k]]
<1>1. x \in [Factors -> Int] /\ IsFiniteSet(Factors)
  BY ExposureIs, FactorsAre DEF Vector
<1>2. /\ \A k \in Factors : bounds[k].lower \in Int /\ bounds[k].upper \in Int
      /\ \A k \in Factors : s[k] \in bounds[k].lower .. bounds[k].upper
      /\ DOMAIN s = Factors /\ s = [k \in Factors |-> s[k]]
  BY DEF AreBounds, Box
<1>3. \A k \in Factors : s[k] \in Int /\ bounds[k].lower <= s[k] /\ s[k] <= bounds[k].upper
  BY <1>2
<1>4. s \in [Factors -> Int]
  BY <1>2, <1>3
<1> HIDE DEF x
<1>5. c \in [Factors -> Int]
  BY <1>1, <1>2
<1>6. WorstCorner(m, p, bounds) = c
  <2>1. WorstCorner(m, p, bounds) = ByFactor(c)
    BY DEF WorstCorner, x
  <2>2. c \in Vector
    BY <1>5 DEF Vector
  <2> HIDE DEF c
  <2> QED
    BY <2>1, <2>2, ByFactorIs
<1>7. ASSUME NEW k \in Factors
      PROVE  low[k] \in Int /\ high[k] \in Int /\ low[k] <= high[k]
  <2>1. \A y, a, b \in Int : (y >= 0 /\ a <= b) => y * a <= y * b
    OBVIOUS
  <2>2. \A y, a, b \in Int : (y < 0 /\ a <= b) => y * b <= y * a
    OBVIOUS
  <2>3. \A a, b \in Int : a * b \in Int
    OBVIOUS
  <2>4. /\ x[k] \in Int /\ c[k] \in Int /\ s[k] \in Int
        /\ x[k] >= 0 => c[k] <= s[k]
        /\ x[k] < 0 => s[k] <= c[k]
    BY <1>1, <1>3, <1>5
  <2>5. low[k] = x[k] * c[k] /\ high[k] = x[k] * s[k]
    OBVIOUS
  <2> HIDE DEF c, low, high
  <2>6. x[k] * c[k] <= x[k] * s[k]
    <3>1. CASE x[k] >= 0
      BY <2>1, <2>4, <3>1
    <3>2. CASE x[k] < 0
      BY <2>2, <2>4, <3>2
    <3> QED
      BY <2>4, <3>1, <3>2
  <2> QED
    BY <2>3, <2>4, <2>5, <2>6
<1>8. low \in [Factors -> Int] /\ high \in [Factors -> Int]
  <2>1. low = [k \in Factors |-> low[k]] /\ high = [k \in Factors |-> high[k]]
    OBVIOUS
  <2> HIDE DEF low, high
  <2> QED
    BY <1>7, <2>1
<1>9. Total(low) <= Total(high) /\ Total(low) \in Int /\ Total(high) \in Int
  <2> HIDE DEF low, high
  <2> QED
    BY <1>1, <1>7, <1>8, TotalBelow, TotalInt
<1>10. /\ LinearPnl(m, p, WorstCorner(m, p, bounds)) = (Slope * p.value) * Total(low)
       /\ LinearPnl(m, p, s) = (Slope * p.value) * Total(high)
  BY <1>6 DEF LinearPnl, x
<1>11. Slope * p.value \in Nat
  <2>1. \A k \in Nat : k \div 2 \in Int /\ 2 * (k \div 2) <= k
    OBVIOUS
  <2>2. Slope \in Nat
    BY <2>1, StressAssumption, ExperimentAssumption
  <2>3. \A a, b \in Nat : a * b \in Nat
    OBVIOUS
  <2> QED
    BY <2>2, <2>3
<1>12. \A y \in Nat, a, b \in Int : y * a \in Int /\ (a <= b => y * a <= y * b)
  OBVIOUS
<1> HIDE DEF low, high
<1>13. /\ (Slope * p.value) * Total(low) \in Int
       /\ (Slope * p.value) * Total(low) <= (Slope * p.value) * Total(high)
  BY <1>9, <1>11, <1>12
<1> QED
  BY <1>4, <1>10, <1>13 DEF Vector

(***************************************************************************)
(* Where a request is refused                                              *)
(***************************************************************************)
RefusedHeld ==
    stage = "refused" =>
        /\ Kind = "ReverseStress"
        /\ LoadedFor(Request).outcome = "ok"
        /\ model = FittedFor(Request) /\ model.outcome = "ok"
        /\ Refused(model, Portfolio, LogBounds(BoundsUsed(Request.input.bounds)),
                   Request.input.loss)

LEMMA RefusedRuns ==
    ASSUME NEW m, NEW p, NEW input, NEW stopped,
           RunReverseStress(m, p, input, stopped).outcome = "refused"
    PROVE  Refused(m, p, LogBounds(BoundsUsed(input.bounds)), input.loss)
BY DEF RunReverseStress, StressReport, Failed

\* Only a reverse stress ends a request so.
LEMMA RefusedKeeps == RunInv /\ RefusedHeld /\ [Next]_vars => RefusedHeld'
<1>1. SUFFICES ASSUME RunInv, RefusedHeld, [Next]_vars, stage' = "refused" PROVE RefusedHeld'
  BY DEF RefusedHeld
<1>2. "refused" \notin Faults \cup {"ok"}
  BY DEF Faults
<1>3. CASE RefuseRequest
  BY <1>1, <1>3 DEF RefuseRequest, End
<1>4. CASE LoadData
  BY <1>1, <1>2, <1>4, LoadEnds DEF LoadData, End
<1>5. CASE FitModel
  BY <1>1, <1>2, <1>5, FitEnds DEF FitModel, End, Fitted
<1>6. CASE BuildDataWindow
  BY <1>1, <1>6 DEF BuildDataWindow, End
<1>7. CASE FactorShock
  BY <1>1, <1>2, <1>7, ShockEnds DEF FactorShock, FromModel, Answered, End
<1>8. CASE RiskDecomposition
  BY <1>1, <1>2, <1>8, DecompositionEnds DEF RiskDecomposition, FromModel, Answered, End
<1>9. CASE RiskDrift
  <2> DEFINE result == RunRiskDecomposition(data, model, Portfolio)
             answer(i) == IF result.outcome # "ok" THEN result
                          ELSE ComputeRiskDrift(i, stored[i], result, model.regime)
  <2>1. PICK i \in Baseline : FromModel(answer(i))
    BY <1>9 DEF RiskDrift
  <2>2. answer(i).outcome \in Faults \cup {"ok"}
    <3>1. /\ result.outcome \in Faults \cup {"ok"}
          /\ ComputeRiskDrift(i, stored[i], result, model.regime).outcome \in Faults \cup {"ok"}
      BY DecompositionEnds, DriftEnds
    <3> HIDE DEF result
    <3> QED
      BY <3>1
  <2> HIDE DEF answer
  <2> QED
    BY <1>1, <1>2, <2>1, <2>2 DEF FromModel, Answered, End
<1>10. CASE ReverseStressed
  <2>1. stage = "windowed" /\ Kind = "ReverseStress"
    BY <1>10 DEF ReverseStressed
  <2>2. PICK stopped : FromModel(RunReverseStress(model, Portfolio, Request.input, stopped))
    BY <1>10 DEF ReverseStressed
  <2>3. /\ RunReverseStress(model, Portfolio, Request.input, stopped).outcome = "refused"
        /\ session' = session /\ data' = data /\ model' = model
    BY <1>1, <2>2 DEF FromModel, Answered, End
  <2>4. Refused(model, Portfolio, LogBounds(BoundsUsed(Request.input.bounds)), Request.input.loss)
    BY <2>3, RefusedRuns
  <2>5. Loaded /\ Modelled
    BY <2>1 DEF Loaded, Modelled, WithModel
  <2>6. Request' = Request /\ Kind' = Kind /\ Portfolio' = Portfolio
    BY <2>3 DEF Request, Kind, Portfolio
  <2> QED
    BY <1>1, <2>1, <2>3, <2>4, <2>5, <2>6 DEF RunInv, DataHeld, ModelHeld, RefusedHeld
<1>11. CASE PolicyCheck
  BY <1>1, <1>2, <1>11, CheckEnds DEF PolicyCheck, FromModel, Answered, End
<1>12. CASE PortfolioPerformance
  <2> DEFINE answer == RunPortfolioPerformance(data, Portfolio, Window, World.hmm)
  <2>1. PICK regime : Answered(answer, regime, trace)
    BY <1>12 DEF PortfolioPerformance
  <2>2. answer.outcome \in Faults \cup {"ok"}
    BY PerformanceEnds
  <2> HIDE DEF answer
  <2> QED
    BY <1>1, <1>2, <2>1, <2>2 DEF Answered, End
<1>13. CASE CvarRebalanced
  <2> DEFINE answer == RunCvarRebalance(data, Request.input, World.hmm, World.estimates)
  <2>1. PICK regime, window : Answered(answer, regime, window)
    BY <1>13 DEF CvarRebalanced
  <2>2. answer.outcome \in Faults \cup {"ok"}
    BY RebalanceEnds
  <2> HIDE DEF answer
  <2> QED
    BY <1>1, <1>2, <2>1, <2>2 DEF Answered, End
<1>14. CASE AttachPolicy
  BY <1>1, <1>14 DEF AttachPolicy, End
<1>15. CASE AttachHistory
  BY <1>1, <1>15 DEF AttachHistory
<1>16. CASE NextRequest
  BY <1>1, <1>16 DEF NextRequest
<1>17. CASE Idle \/ UNCHANGED vars
  BY <1>1, <1>17 DEF Idle, vars, RefusedHeld, Kind, Portfolio, Request
<1> QED
  BY <1>1, <1>3, <1>4, <1>5, <1>6, <1>7, <1>8, <1>9, <1>10, <1>11, <1>12, <1>13,
     <1>14, <1>15, <1>16, <1>17 DEF Next

LEMMA RefusedIsSound == RunInv /\ RefusedHeld => RefusalIsSound
<1> DEFINE bounds == LogBounds(BoundsUsed(Request.input.bounds))
           loss == Request.input.loss
<1>1. SUFFICES ASSUME RunInv, RefusedHeld, stage = "refused", NEW s \in Box(bounds)
               PROVE  NonlinearPnl(model, Portfolio, s) > -loss
  BY DEF RefusalIsSound
<1>2. /\ Request \in Requests /\ Kind = "ReverseStress"
      /\ model = FittedFor(Request) /\ LoadedFor(Request).outcome = "ok" /\ model.outcome = "ok"
      /\ Refused(model, Portfolio, bounds, loss)
  BY <1>1, RequestIn DEF RunInv, RefusedHeld
<1>3. /\ Portfolio.value \in Nat /\ loss \in Int
      /\ \A k \in DOMAIN Request.input.bounds :
            IsBound(Request.input.bounds[k].lower) /\ IsBound(Request.input.bounds[k].upper)
  BY <1>2, SessionsAssumption DEF IsRequest, Kind, Portfolio
<1>4. /\ IsPortfolio(Portfolio) /\ Portfolio.weights \in [Holdings(Portfolio) -> Nat]
      /\ IsModelOf(model, Holdings(Portfolio))
  BY <1>2, RequestIs, FitTyped DEF Portfolio
<1>5. AreBounds(bounds) /\ ~Unclampable(bounds)
  <2>1. ~Unclampable(bounds)
    BY <1>1 DEF Box
  <2> QED
    BY <1>3, <2>1, BoundsUsedAre
<1> HIDE DEF bounds
<1>6. /\ s \in Vector /\ LinearPnl(model, Portfolio, WorstCorner(model, Portfolio, bounds)) \in Int
      /\ LinearPnl(model, Portfolio, WorstCorner(model, Portfolio, bounds))
           <= LinearPnl(model, Portfolio, s)
  BY <1>3, <1>4, <1>5, CornerIsWorst
<1>7. /\ LinearPnl(model, Portfolio, s) \in Int /\ NonlinearPnl(model, Portfolio, s) \in Int
      /\ LinearPnl(model, Portfolio, s) <= NonlinearPnl(model, Portfolio, s)
  BY <1>3, <1>4, <1>6, LinearIsWorse
<1>8. LinearPnl(model, Portfolio, WorstCorner(model, Portfolio, bounds)) > -loss
  BY <1>2 DEF Refused
<1> QED
  BY <1>3, <1>6, <1>7, <1>8

(* A loss that is called out of reach cannot be made anywhere within the   *)
(* bounds, although the test is made on the linear measure.                *)
THEOREM RefusalAlways == Spec => []RefusalIsSound
<1>1. Init => RefusedHeld
  BY DEF Init, RefusedHeld
<1> QED
  BY <1>1, RefusedKeeps, RefusedIsSound, RunInvAlways, PTL DEF Spec

(***************************************************************************)
(* A power of the transition, step by step                                 *)
(***************************************************************************)

LEMMA VecMatMulIs ==
    ASSUME NEW v \in Weights, NEW m \in Square
    PROVE  VecMatMul(v, m) = [j \in States |-> v[1] * m[1][j] + v[2] * m[2][j] + v[3] * m[3][j]]
<1> DEFINE f == [j \in States |-> v[1] * m[1][j] + v[2] * m[2][j] + v[3] * m[3][j]]
<1>1. VecMatMul(v, m) = ByState(f)
  BY DEF VecMatMul
<1>2. f \in [States -> {f[j] : j \in States}]
  OBVIOUS
<1> HIDE DEF f
<1>3. ByState(f) = f
  BY <1>2, ByStateIs
<1> QED
  BY <1>1, <1>3 DEF f

LEMMA MatMulIs ==
    ASSUME NEW a \in Square, NEW b \in Square
    PROVE  MatMul(a, b) \in Square /\ MatMul(a, b) = [i \in States |-> VecMatMul(a[i], b)]
<1> DEFINE f == [i \in States |-> VecMatMul(a[i], b)]
<1>1. ASSUME NEW i \in States PROVE VecMatMul(a[i], b) \in Weights
  <2>1. a[i] \in Weights /\ b \in [States -> Weights]
    BY DEF Square
  <2> QED
    BY <2>1, VecMatMulIn
<1>2. f \in [States -> Weights]
  BY <1>1
<1>3. MatMul(a, b) = ByState(f)
  BY DEF MatMul
<1>4. ByState(f) = f
  <2> HIDE DEF f
  <2> QED
    BY <1>2, ByStateIs
<1> QED
  BY <1>2, <1>3, <1>4 DEF Square

\* v (a b) = (v a) b
LEMMA MatMulAssociates ==
    ASSUME NEW v \in Weights, NEW a \in Square, NEW b \in Square
    PROVE  VecMatMul(v, MatMul(a, b)) = VecMatMul(VecMatMul(v, a), b)
<1> DEFINE c == MatMul(a, b)
           u == VecMatMul(v, a)
<1>1. c \in Square /\ \A i \in States : c[i] = VecMatMul(a[i], b)
  BY MatMulIs
<1>2. u \in Weights /\ u = [j \in States |-> v[1] * a[1][j] + v[2] * a[2][j] + v[3] * a[3][j]]
  BY VecMatMulIs, VecMatMulIn DEF Square
<1>3. \A i \in States : c[i] = [j \in States |-> a[i][1] * b[1][j] + a[i][2] * b[2][j] + a[i][3] * b[3][j]]
  <2>1. ASSUME NEW i \in States
        PROVE  c[i] = [j \in States |-> a[i][1] * b[1][j] + a[i][2] * b[2][j] + a[i][3] * b[3][j]]
    <3> DEFINE row == a[i]
    <3>1. row \in Weights
      BY DEF Square
    <3> HIDE DEF row
    <3>2. VecMatMul(row, b) = [j \in States |-> row[1] * b[1][j] + row[2] * b[2][j] + row[3] * b[3][j]]
      BY <3>1, VecMatMulIs
    <3> QED
      BY <1>1, <3>2 DEF row
  <2> QED
    BY <2>1
<1> HIDE DEF c, u
<1>4. ASSUME NEW j \in States
      PROVE  v[1] * c[1][j] + v[2] * c[2][j] + v[3] * c[3][j]
               = u[1] * b[1][j] + u[2] * b[2][j] + u[3] * b[3][j]
  <2> DEFINE v1 == v[1]  v2 == v[2]  v3 == v[3]
             a11 == a[1][1]  a12 == a[1][2]  a13 == a[1][3]
             a21 == a[2][1]  a22 == a[2][2]  a23 == a[2][3]
             a31 == a[3][1]  a32 == a[3][2]  a33 == a[3][3]
             b1 == b[1][j]  b2 == b[2][j]  b3 == b[3][j]
  <2>1. /\ \A i \in States : v[i] \in Nat /\ b[i][j] \in Nat
        /\ \A i, k \in States : a[i][k] \in Nat
        /\ 1 \in States /\ 2 \in States /\ 3 \in States
    BY StatesAre DEF Square, Weights
  <2>2. /\ v1 \in Nat /\ v2 \in Nat /\ v3 \in Nat
        /\ a11 \in Nat /\ a12 \in Nat /\ a13 \in Nat
        /\ a21 \in Nat /\ a22 \in Nat /\ a23 \in Nat
        /\ a31 \in Nat /\ a32 \in Nat /\ a33 \in Nat
        /\ b1 \in Nat /\ b2 \in Nat /\ b3 \in Nat
    BY <2>1
  <2>3. /\ c[1][j] = a11 * b1 + a12 * b2 + a13 * b3
        /\ c[2][j] = a21 * b1 + a22 * b2 + a23 * b3
        /\ c[3][j] = a31 * b1 + a32 * b2 + a33 * b3
    BY <1>3, <2>1
  <2>4. /\ u[1] = v1 * a11 + v2 * a21 + v3 * a31
        /\ u[2] = v1 * a12 + v2 * a22 + v3 * a32
        /\ u[3] = v1 * a13 + v2 * a23 + v3 * a33
    BY <1>2, <2>1
  <2> HIDE DEF v1, v2, v3, a11, a12, a13, a21, a22, a23, a31, a32, a33, b1, b2, b3
  <2>5. v1 * (a11 * b1 + a12 * b2 + a13 * b3) + v2 * (a21 * b1 + a22 * b2 + a23 * b3)
            + v3 * (a31 * b1 + a32 * b2 + a33 * b3)
          = (v1 * a11 + v2 * a21 + v3 * a31) * b1 + (v1 * a12 + v2 * a22 + v3 * a32) * b2
              + (v1 * a13 + v2 * a23 + v3 * a33) * b3
    BY <2>2
  <2> QED
    BY <2>3, <2>4, <2>5 DEF v1, v2, v3, b1, b2, b3
<1>5. /\ VecMatMul(v, c) = [j \in States |-> v[1] * c[1][j] + v[2] * c[2][j] + v[3] * c[3][j]]
      /\ VecMatMul(u, b) = [j \in States |-> u[1] * b[1][j] + u[2] * b[2][j] + u[3] * b[3][j]]
  BY <1>1, <1>2, VecMatMulIs
<1> QED
  BY <1>4, <1>5 DEF c, u

\* A vector taken n steps by a matrix.
IsWalk(w, v, m, n) ==
    /\ w \in [0 .. n -> Weights] /\ w[0] = v
    /\ \A i \in 1 .. n : w[i] = VecMatMul(w[i - 1], m)

Leads(v, m, n, to) == \E w : IsWalk(w, v, m, n) /\ w[n] = to

\* Twice as many steps by a matrix are as many by its square.
LEMMA WalkSquared ==
    ASSUME NEW v \in Weights, NEW m \in Square, NEW n \in Nat, NEW to,
           Leads(v, m, n + n, to)
    PROVE  Leads(v, MatMul(m, m), n, to)
<1>1. PICK w : IsWalk(w, v, m, n + n) /\ w[n + n] = to
  BY DEF Leads
<1> DEFINE u == [i \in 0 .. n |-> w[i + i]]
<1>2. /\ w \in [0 .. n + n -> Weights] /\ w[0] = v
      /\ \A i \in 1 .. n + n : w[i] = VecMatMul(w[i - 1], m)
  BY <1>1 DEF IsWalk
<1>3. \A i \in 0 .. n : i + i \in 0 .. n + n
  OBVIOUS
<1>4. u \in [0 .. n -> Weights]
  BY <1>2, <1>3
<1>5. ASSUME NEW i \in 1 .. n PROVE u[i] = VecMatMul(u[i - 1], MatMul(m, m))
  <2>1. /\ i + i \in 1 .. n + n /\ (i + i) - 1 \in 1 .. n + n /\ i - 1 \in 0 .. n /\ i \in 0 .. n
        /\ ((i + i) - 1) - 1 = (i - 1) + (i - 1) /\ (i - 1) + (i - 1) \in 0 .. n + n
    OBVIOUS
  <2> DEFINE z == (i - 1) + (i - 1)
             y == (i + i) - 1
  <2>2. w[i + i] = VecMatMul(w[y], m) /\ w[y] = VecMatMul(w[z], m) /\ w[z] \in Weights
    <3>1. w[i + i] = VecMatMul(w[(i + i) - 1], m)
      BY <1>2, <2>1
    <3>2. w[(i + i) - 1] = VecMatMul(w[((i + i) - 1) - 1], m)
      BY <1>2, <2>1
    <3>3. w[(i - 1) + (i - 1)] \in Weights
      BY <1>2, <2>1
    <3> QED
      BY <2>1, <3>1, <3>2, <3>3
  <2>3. u[i] = w[i + i] /\ u[i - 1] = w[z]
    BY <2>1
  <2> HIDE DEF u, z, y
  <2>4. VecMatMul(w[z], MatMul(m, m)) = VecMatMul(VecMatMul(w[z], m), m)
    BY <2>2, MatMulAssociates
  <2> QED
    BY <2>2, <2>3, <2>4
<1>6. u[0] = v /\ u[n] = to
  BY <1>1, <1>2
<1> HIDE DEF u
<1>7. IsWalk(u, v, MatMul(m, m), n)
  BY <1>4, <1>5, <1>6 DEF IsWalk
<1> QED
  BY <1>6, <1>7 DEF Leads

\* The first step taken apart.
LEMMA WalkFirst ==
    ASSUME NEW v \in Weights, NEW m \in Square, NEW n \in Nat, NEW to,
           Leads(v, m, n + 1, to)
    PROVE  Leads(VecMatMul(v, m), m, n, to)
<1>1. PICK w : IsWalk(w, v, m, n + 1) /\ w[n + 1] = to
  BY DEF Leads
<1> DEFINE u == [i \in 0 .. n |-> w[i + 1]]
<1>2. /\ w \in [0 .. n + 1 -> Weights] /\ w[0] = v
      /\ \A i \in 1 .. n + 1 : w[i] = VecMatMul(w[i - 1], m)
  BY <1>1 DEF IsWalk
<1>3. u \in [0 .. n -> Weights]
  BY <1>2
<1>4. ASSUME NEW i \in 1 .. n PROVE u[i] = VecMatMul(u[i - 1], m)
  <2>1. i + 1 \in 1 .. n + 1 /\ (i + 1) - 1 = i /\ (i - 1) + 1 = i /\ i - 1 \in 0 .. n /\ i \in 0 .. n
    OBVIOUS
  <2>2. w[i + 1] = VecMatMul(w[i], m)
    BY <1>2, <2>1
  <2>3. u[i] = w[i + 1] /\ u[i - 1] = w[i]
    BY <2>1
  <2> QED
    BY <2>2, <2>3
<1>5. u[0] = VecMatMul(v, m) /\ u[n] = to
  <2>1. 1 \in 1 .. n + 1 /\ 1 - 1 = 0 /\ 0 + 1 = 1 /\ 0 \in 0 .. n /\ n \in 0 .. n
    OBVIOUS
  <2>2. w[1] = VecMatMul(w[0], m)
    BY <1>2, <2>1
  <2> QED
    BY <1>1, <1>2, <2>1, <2>2
<1> HIDE DEF u
<1>6. IsWalk(u, VecMatMul(v, m), m, n)
  BY <1>3, <1>4, <1>5 DEF IsWalk
<1> QED
  BY <1>5, <1>6 DEF Leads

LEMMA IdentityIs ==
    Identity \in Square /\ \A v \in Weights : VecMatMul(v, Identity) = v
<1> DEFINE row(i) == [j \in States |-> IF i = j THEN 1 ELSE 0]
           one == [i \in States |-> ByState(row(i))]
<1>1. ASSUME NEW i \in States PROVE ByState(row(i)) = row(i)
  <2>1. row(i) \in [States -> Nat]
    OBVIOUS
  <2> HIDE DEF row
  <2> QED
    BY <2>1, ByStateIs
<1>2. one \in [States -> [States -> Nat]] /\ one = [i \in States |-> row(i)]
  BY <1>1
<1>3. Identity = ByState(one)
  BY DEF Identity
<1>4. ByState(one) = one
  <2> HIDE DEF one, row
  <2> QED
    BY <1>2, ByStateIs
<1>5. Identity \in Square /\ Identity = [i \in States |-> row(i)]
  <2> HIDE DEF row, one
  <2> QED
    BY <1>2, <1>3, <1>4 DEF Square, Weights
<1>6. ASSUME NEW v \in Weights PROVE VecMatMul(v, Identity) = v
  <2>1. VecMatMul(v, Identity)
          = [j \in States |-> v[1] * Identity[1][j] + v[2] * Identity[2][j] + v[3] * Identity[3][j]]
    BY <1>5, VecMatMulIs
  <2>2. /\ v[1] \in Nat /\ v[2] \in Nat /\ v[3] \in Nat /\ v = [j \in States |-> v[j]]
        /\ 1 \in States /\ 2 \in States /\ 3 \in States /\ 1 # 2 /\ 1 # 3 /\ 2 # 3
    BY StatesAre DEF Weights
  <2>3. /\ Identity[1][1] = 1 /\ Identity[1][2] = 0 /\ Identity[1][3] = 0
        /\ Identity[2][1] = 0 /\ Identity[2][2] = 1 /\ Identity[2][3] = 0
        /\ Identity[3][1] = 0 /\ Identity[3][2] = 0 /\ Identity[3][3] = 1
    BY <1>5, <2>2
  <2>4. \A x \in Nat : x * 0 = 0 /\ x * 1 = x
    OBVIOUS
  <2>5. ASSUME NEW j \in States
        PROVE  v[1] * Identity[1][j] + v[2] * Identity[2][j] + v[3] * Identity[3][j] = v[j]
    <3>1. j = 1 \/ j = 2 \/ j = 3
      BY StatesAre
    <3> QED
      BY <2>2, <2>3, <2>4, <3>1
  <2> QED
    BY <2>1, <2>2, <2>5
<1> QED
  BY <1>5, <1>6

\* A round of matrix_power.
PowerBody(r) ==
    IF r.exp = 0 THEN r
    ELSE [result |-> IF r.exp % 2 = 1 THEN MatMul(r.result, r.base) ELSE r.result,
          base   |-> IF r.exp > 1 THEN MatMul(r.base, r.base) ELSE r.base,
          exp    |-> r.exp \div 2]

PowerRounds(a, h, round) ==
    round = [k \in 0 .. h |-> IF k = 0 THEN [result |-> Identity, base |-> a, exp |-> h]
                              ELSE PowerBody(round[k - 1])]

LEMMA PowerIsWalk ==
    ASSUME NEW a, NEW h
    PROVE  MatrixPower(a, h) = (CHOOSE round : PowerRounds(a, h, round))[h].result
  BY DEF MatrixPower, PowerRounds, PowerBody

\* What the loop holds: the result and as many steps as are left lead from
\* the vector to where it is to be led.
Holding(v, to) ==
    {r \in [result : Square, base : Square, exp : Nat] :
        Leads(VecMatMul(v, r.result), r.base, r.exp, to)}

\* A walk of no step needs no matrix.
LEMMA WalkOfNone ==
    ASSUME NEW v, NEW m, NEW to
    PROVE  /\ Leads(v, m, 0, to) => v = to
           /\ \A n : Leads(v, m, 0, to) => Leads(v, n, 0, to)
  BY DEF Leads, IsWalk

LEMMA PowerBodyHolds ==
    ASSUME NEW v \in Weights, NEW to, NEW r \in Holding(v, to)
    PROVE  PowerBody(r) \in Holding(v, to)
           /\ PowerBody(r).exp = r.exp \div 2
<1> DEFINE s == r.result
           m == r.base
           n == r.exp
           half == n \div 2
           x == VecMatMul(v, s)
           q == PowerBody(r)
<1>1. /\ s \in Square /\ m \in Square /\ n \in Nat /\ r = [result |-> s, base |-> m, exp |-> n]
      /\ Leads(x, m, n, to)
  BY DEF Holding
<1>2. CASE n = 0
  <2>1. q = r /\ 0 \div 2 = 0
    BY <1>2 DEF PowerBody
  <2> QED
    BY <1>2, <2>1
<1>3. CASE n # 0
  <2>1. /\ q.result = IF n % 2 = 1 THEN MatMul(s, m) ELSE s
        /\ q.base = IF n > 1 THEN MatMul(m, m) ELSE m
        /\ q.exp = half
        /\ q = [result |-> q.result, base |-> q.base, exp |-> q.exp]
    BY <1>3 DEF PowerBody
  <2>2. /\ half \in Nat
        /\ n % 2 = 1 => n = (half + half) + 1
        /\ n % 2 # 1 => n = half + half
        /\ ~(n > 1) => half = 0
    <3>1. \A k \in Nat : /\ k \div 2 \in Nat
                         /\ k % 2 = 1 => k = ((k \div 2) + (k \div 2)) + 1
                         /\ k % 2 # 1 => k = (k \div 2) + (k \div 2)
                         /\ ~(k > 1) => k \div 2 = 0
      OBVIOUS
    <3> QED
      BY <1>1, <1>3, <3>1
  <2>3. MatMul(s, m) \in Square /\ MatMul(m, m) \in Square /\ x \in Weights
    BY <1>1, MatMulIs, VecMatMulIn DEF Square
  <2>4. q.result \in Square /\ q.base \in Square /\ q.exp \in Nat
    <3> HIDE DEF q, s, m, n, half
    <3> QED
      BY <1>1, <2>1, <2>2, <2>3
  <2> DEFINE y == VecMatMul(v, q.result)
  <2> HIDE DEF q, s, m, n, half
  <2>5. y \in Weights
    BY <2>4, VecMatMulIn DEF Square
  <2>6. Leads(y, m, half + half, to)
    <3>1. CASE n % 2 = 1
      <4>1. q.result = MatMul(s, m) /\ n = (half + half) + 1
        BY <2>1, <2>2, <3>1
      <4>2. y = VecMatMul(x, m)
        BY <1>1, <4>1, MatMulAssociates
      <4>3. half + half \in Nat /\ Leads(x, m, (half + half) + 1, to)
        BY <1>1, <2>2, <4>1
      <4> HIDE DEF x, y
      <4>4. Leads(VecMatMul(x, m), m, half + half, to)
        BY <1>1, <2>3, <4>3, WalkFirst
      <4> QED
        BY <4>2, <4>4
    <3>2. CASE n % 2 # 1
      BY <1>1, <2>1, <2>2, <3>2
    <3> QED
      BY <3>1, <3>2
  <2>7. Leads(y, q.base, half, to)
    <3> HIDE DEF y
    <3>1. CASE n > 1
      <4>1. q.base = MatMul(m, m)
        BY <2>1, <3>1
      <4>2. Leads(y, MatMul(m, m), half, to)
        BY <1>1, <2>2, <2>5, <2>6, WalkSquared
      <4> QED
        BY <4>1, <4>2
    <3>2. CASE ~(n > 1)
      <4>1. q.base = m /\ half = 0 /\ half + half = half
        BY <2>1, <2>2, <3>2
      <4> QED
        BY <2>6, <4>1
    <3> QED
      BY <3>1, <3>2
  <2>8. q \in [result : Square, base : Square, exp : Nat]
    BY <2>1, <2>4
  <2> QED
    BY <2>1, <2>7, <2>8 DEF Holding, q, half, n
<1> QED
  BY <1>2, <1>3

\* matrix_power is that many steps.
LEMMA PowerLeads ==
    ASSUME NEW v \in Weights, NEW a \in Square, NEW h \in Nat, NEW to, Leads(v, a, h, to)
    PROVE  VecMatMul(v, MatrixPower(a, h)) = to
<1> DEFINE V == Holding(v, to)
           start == [result |-> Identity, base |-> a, exp |-> h]
           step == [p \in (1 .. h) \X V |-> PowerBody(p[2])]
           chosen == CHOOSE round : PowerRounds(a, h, round)
<1>1. start \in V
  <2>1. VecMatMul(v, Identity) = v /\ Identity \in Square
    BY IdentityIs
  <2>2. start.result = Identity /\ start.base = a /\ start.exp = h
    OBVIOUS
  <2>3. start \in [result : Square, base : Square, exp : Nat]
    BY <2>1
  <2> HIDE DEF start
  <2> QED
    BY <2>1, <2>2, <2>3 DEF Holding
<1>2. \A r \in V : PowerBody(r) \in V /\ PowerBody(r).exp = r.exp \div 2
  BY PowerBodyHolds
<1>3. /\ step \in [(1 .. h) \X V -> V]
      /\ \A i \in 1 .. h : \A r \in V : step[<<i, r>>] = PowerBody(r)
  <2> HIDE DEF V
  <2> QED
    BY <1>2
<1> HIDE DEF V, start, step
<1>4. PICK w \in [0 .. h -> V] : IsLoop(w, h, start, step)
  BY <1>1, <1>3, LoopExists
<1>5. PowerRounds(a, h, w)
  <2> DEFINE body(k) == IF k = 0 THEN start ELSE PowerBody(w[k - 1])
  <2>1. ASSUME NEW k \in 0 .. h PROVE w[k] = body(k)
    <3>1. CASE k = 0
      BY <1>4, <3>1 DEF IsLoop
    <3>2. CASE k # 0
      <4>1. k \in 1 .. h /\ k - 1 \in 0 .. h
        BY <3>2
      <4>2. w[k] = step[<<k, w[k - 1]>>] /\ w[k - 1] \in V
        BY <1>4, <4>1 DEF IsLoop
      <4> QED
        BY <1>3, <3>2, <4>1, <4>2
    <3> QED
      BY <3>1, <3>2
  <2>2. w = [k \in 0 .. h |-> w[k]]
    BY <1>4
  <2>3. w = [k \in 0 .. h |-> body(k)]
    <3> HIDE DEF body
    <3> QED
      BY <2>1, <2>2
  <2> QED
    BY <2>3 DEF PowerRounds, start
<1>6. PowerRounds(a, h, chosen)
  BY <1>5
<1> HIDE DEF chosen
<1>7. chosen[0] = start /\ \A k \in 1 .. h : chosen[k] = PowerBody(chosen[k - 1])
  BY <1>6 DEF PowerRounds, start
<1>8. \A k \in 0 .. h : chosen[k] \in V
  <2>1. GoesRound(chosen, h, V, step)
    BY <1>3, <1>7 DEF GoesRound
  <2> QED
    BY <1>1, <1>3, <1>7, <2>1, LoopHolds
<1>9. ASSUME NEW r \in V PROVE r.exp \in Nat
  BY DEF V, Holding
<1>10. chosen[h].exp = 0
  <2> DEFINE C == {k \in Nat : k <= h => chosen[k].exp <= h - k}
  <2>1. 0 \in C
    <3>1. start.exp = h
      BY DEF start
    <3> QED
      BY <1>7, <3>1
  <2>2. ASSUME NEW k \in Nat, k \in C PROVE k + 1 \in C
    <3>1. SUFFICES ASSUME k + 1 <= h PROVE chosen[k + 1].exp <= h - (k + 1)
      OBVIOUS
    <3>2. k \in 0 .. h /\ k + 1 \in 1 .. h /\ (k + 1) - 1 = k
      BY <3>1
    <3>3. chosen[k].exp <= h - k /\ chosen[k] \in V /\ chosen[k + 1] = PowerBody(chosen[k])
      BY <1>7, <1>8, <2>2, <3>2
    <3>4. chosen[k].exp \in Nat /\ chosen[k + 1].exp = chosen[k].exp \div 2
      BY <1>2, <1>9, <3>3
    <3>5. \A n \in Nat : n \div 2 \in Nat /\ (n # 0 => n \div 2 <= n - 1) /\ (n = 0 => n \div 2 = 0)
      OBVIOUS
    <3> QED
      BY <3>1, <3>3, <3>4, <3>5
  <2>3. Nat \subseteq C
    <3>1. \A k \in Nat : k \in C => k + 1 \in C
      BY <2>2
    <3> HIDE DEF C
    <3> QED
      BY <2>1, <3>1, NumberInduction
  <2>4. h \in C /\ chosen[h] \in V
    BY <1>8, <2>3
  <2> QED
    BY <1>9, <2>4
<1>11. Leads(VecMatMul(v, chosen[h].result), chosen[h].base, chosen[h].exp, to)
  <2>1. chosen[h] \in V
    BY <1>8
  <2> QED
    BY <2>1 DEF V, Holding
<1>12. VecMatMul(v, chosen[h].result) = to
  BY <1>10, <1>11, WalkOfNone
<1> QED
  BY <1>12, PowerIsWalk DEF chosen

\* The steps one by one.
WalkOf(v, m, h, walk) ==
    walk = [n \in 0 .. h |-> IF n = 0 THEN v ELSE VecMatMul(walk[n - 1], m)]

LEMMA WalkIs ==
    ASSUME NEW v \in Weights, NEW m \in Square, NEW h \in Nat
    PROVE  IsWalk(CHOOSE walk : WalkOf(v, m, h, walk), v, m, h)
<1> DEFINE step == [p \in (1 .. h) \X Weights |-> VecMatMul(p[2], m)]
           chosen == CHOOSE walk : WalkOf(v, m, h, walk)
<1>1. \A u \in Weights : VecMatMul(u, m) \in Weights
  BY VecMatMulIn DEF Square
<1>2. /\ step \in [(1 .. h) \X Weights -> Weights]
      /\ \A i \in 1 .. h : \A u \in Weights : step[<<i, u>>] = VecMatMul(u, m)
  BY <1>1
<1> HIDE DEF step
<1>3. PICK w \in [0 .. h -> Weights] : IsLoop(w, h, v, step)
  BY <1>2, LoopExists
<1>4. WalkOf(v, m, h, w)
  <2> DEFINE body(n) == IF n = 0 THEN v ELSE VecMatMul(w[n - 1], m)
  <2>1. ASSUME NEW n \in 0 .. h PROVE w[n] = body(n)
    <3>1. CASE n = 0
      BY <1>3, <3>1 DEF IsLoop
    <3>2. CASE n # 0
      <4>1. n \in 1 .. h /\ n - 1 \in 0 .. h
        BY <3>2
      <4>2. w[n] = step[<<n, w[n - 1]>>] /\ w[n - 1] \in Weights
        BY <1>3, <4>1 DEF IsLoop
      <4> QED
        BY <1>2, <3>2, <4>1, <4>2
    <3> QED
      BY <3>1, <3>2
  <2>2. w = [n \in 0 .. h |-> w[n]]
    BY <1>3
  <2>3. w = [n \in 0 .. h |-> body(n)]
    <3> HIDE DEF body
    <3> QED
      BY <2>1, <2>2
  <2> QED
    BY <2>3 DEF WalkOf
<1>5. WalkOf(v, m, h, chosen)
  BY <1>4
<1> HIDE DEF chosen
<1>6. /\ chosen[0] = v /\ \A n \in 1 .. h : chosen[n] = VecMatMul(chosen[n - 1], m)
      /\ chosen = [n \in 0 .. h |-> chosen[n]]
  BY <1>5 DEF WalkOf
<1>7. \A n \in 0 .. h : chosen[n] \in Weights
  <2>1. GoesRound(chosen, h, Weights, step)
    BY <1>2, <1>6 DEF GoesRound
  <2>2. chosen[0] = v
    BY <1>6
  <2> QED
    BY <1>2, <2>1, <2>2, LoopHolds
<1>8. IsWalk(chosen, v, m, h)
  BY <1>6, <1>7 DEF IsWalk
<1> QED
  BY <1>8 DEF chosen

\* What a sum leaves out.
\* A sum over the three states.
LEMMA TotalOfStates ==
    ASSUME NEW f \in Weights
    PROVE  Total(f) = f[1] + f[2] + f[3]
<1>1. /\ IsFiniteSet(States) /\ f \in [States -> Int] /\ 1 \in States /\ 2 \in States
      /\ 3 \in States /\ States = {1, 2, 3}
  BY StatesAre DEF Weights
<1> DEFINE g == Restrict(f, States \ {1})
<1>2. /\ Total(f) = f[1] + Total(g)
      /\ g \in [States \ {1} -> Int] /\ g[2] = f[2] /\ 2 \in States \ {1}
      /\ IsFiniteSet(States \ {1})
  <2>1. Total(f) = f[1] + Total(Restrict(f, States \ {1}))
    BY <1>1, TotalTake
  <2>2. IsFiniteSet(States \ {1})
    BY <1>1, FS_Subset
  <2>3. 2 \in States \ {1}
    BY <1>1
  <2>4. g \in [States \ {1} -> Int] /\ g[2] = f[2]
    BY <1>1, <2>3 DEF Restrict
  <2> QED
    BY <2>1, <2>2, <2>3, <2>4
<1>3. Total(g) = g[2] + Total(Restrict(g, (States \ {1}) \ {2}))
  <2> HIDE DEF g
  <2> QED
    BY <1>2, TotalTake
<1>4. Restrict(g, (States \ {1}) \ {2}) = [k \in {3} |-> f[k]]
  <2>1. (States \ {1}) \ {2} = {3}
    BY <1>1
  <2> QED
    BY <1>1, <2>1 DEF Restrict
<1>5. Total([k \in {3} |-> f[k]]) = f[3]
  <2> DEFINE e == [k \in {3} |-> f[k]]
  <2>1. e \in [{3} -> Int] /\ e[3] = f[3] /\ IsFiniteSet({3}) /\ \A y \in {3} : y # 3 => e[y] = 0
    BY <1>1, FS_Singleton
  <2> HIDE DEF e
  <2>2. Total(e) = e[3]
    BY <2>1, TotalOne
  <2> QED
    BY <2>1, <2>2 DEF e
<1>6. f[1] \in Int /\ f[2] \in Int /\ f[3] \in Int
  BY <1>1
<1> QED
  BY <1>2, <1>3, <1>4, <1>5, <1>6

LEMMA SumButOne ==
    ASSUME NEW f \in Weights, NEW x \in States
    PROVE  f[1] + f[2] + f[3] - f[x] = Total([k \in States \ {x} |-> f[k]])
<1>1. /\ IsFiniteSet(States) /\ f \in [States -> Int] /\ 1 \in States /\ 2 \in States
      /\ 3 \in States /\ States = {1, 2, 3}
  BY StatesAre DEF Weights
<1>2. Total(f) = f[1] + f[2] + f[3]
  BY TotalOfStates
<1>3. Total(f) = f[x] + Total(Restrict(f, States \ {x}))
  BY <1>1, TotalTake
<1>4. Restrict(f, States \ {x}) = [k \in States \ {x} |-> f[k]]
  BY <1>1 DEF Restrict
<1>5. Total([k \in States \ {x} |-> f[k]]) \in Int
  <2> DEFINE e == [k \in States \ {x} |-> f[k]]
  <2>1. e \in [States \ {x} -> Int] /\ IsFiniteSet(States \ {x})
    BY <1>1, FS_Subset
  <2> HIDE DEF e
  <2>2. Total(e) \in Int
    BY <2>1, TotalInt
  <2> QED
    BY <2>2 DEF e
<1>6. f[1] \in Int /\ f[2] \in Int /\ f[3] \in Int /\ f[x] \in Int
  BY <1>1
<1> QED
  BY <1>2, <1>3, <1>4, <1>5, <1>6

LEMMA ForecastIs ==
    ASSUME NEW s, IsRegime(s), NEW h \in ForecastDays, NEW walk,
           IsWalk(walk, s.smoothed, s.transition, h)
    PROVE  /\ s.forecast[h].probability = walk[h]
           /\ \A k \in States : walk[h][k] <= walk[h][s.forecast[h].mostLikely]
           /\ s.forecast[h].change = Total([k \in States \ {s.current} |-> walk[h][k]])
<1> DEFINE v == s.smoothed
           m == s.transition
           c == s.current
           ahead == VecMatMul(v, MatrixPower(m, h))
           told == s.forecast[h]
<1>1. v \in Weights /\ m \in Square /\ c \in States /\ h \in Nat
  BY RegimeAssumption DEF IsRegime
<1>2. told = [probability |-> ahead, mostLikely |-> LastHighest(ahead),
              change |-> ahead[1] + ahead[2] + ahead[3] - ahead[c]]
  <2>1. s.forecast = RegimeForecast(v, m, c)
    BY DEF IsRegime
  <2> HIDE DEF v, m, c
  <2> QED
    BY <2>1 DEF RegimeForecast
<1> HIDE DEF v, m, c, told
<1>3. Leads(v, m, h, walk[h])
  BY DEF Leads, v, m
<1>4. ahead = walk[h]
  BY <1>1, <1>3, PowerLeads
<1>5. walk[h] \in Weights
  BY <1>1 DEF IsWalk
<1> HIDE DEF ahead
<1>6. \A k \in States : walk[h][k] <= walk[h][LastHighest(walk[h])]
  <2> DEFINE u == walk[h]
  <2>1. u \in [States -> Int]
    BY <1>5 DEF Weights
  <2> HIDE DEF u
  <2>2. \A k \in States : u[k] <= u[LastHighest(u)]
    BY <2>1, LastHighestIn
  <2> QED
    BY <2>2 DEF u
<1>7. walk[h][1] + walk[h][2] + walk[h][3] - walk[h][c] = Total([k \in States \ {c} |-> walk[h][k]])
  BY <1>1, <1>5, SumButOne
<1>8. told.probability = ahead /\ told.mostLikely = LastHighest(ahead)
      /\ told.change = ahead[1] + ahead[2] + ahead[3] - ahead[c]
  BY <1>2
<1> QED
  BY <1>4, <1>6, <1>7, <1>8 DEF told, c

LEMMA RunInvForecast == RunInv => ForecastIsStepwise
<1>1. SUFFICES ASSUME RunInv, stage = "fitted", NEW h \in ForecastDays
               PROVE  LET walk == CHOOSE w : WalkOf(model.regime.smoothed,
                                                    model.regime.transition, h, w)
                          told == model.regime.forecast[h]
                      IN  /\ told.probability = walk[h]
                          /\ \A k \in States : walk[h][k] <= walk[h][told.mostLikely]
                          /\ told.change = Total([k \in States \ {model.regime.current} |->
                                                     walk[h][k]])
  BY DEF ForecastIsStepwise, WalkOf
<1>2. Loaded /\ Modelled
  BY <1>1 DEF Loaded, Modelled
<1>3. IsRegime(model.regime)
  <2>1. /\ Request \in Requests /\ LoadedFor(Request).outcome = "ok"
        /\ model = FittedFor(Request) /\ FittedFor(Request).outcome = "ok"
    BY <1>1, <1>2, RequestIn DEF RunInv, DataHeld, ModelHeld
  <2> QED
    BY <2>1, FitTyped
<1> DEFINE s == model.regime
           walk == CHOOSE w : WalkOf(s.smoothed, s.transition, h, w)
<1>4. IsRegime(s)
  BY <1>3
<1> HIDE DEF s
<1>5. IsWalk(walk, s.smoothed, s.transition, h)
  <2>1. s.smoothed \in Weights /\ s.transition \in Square /\ h \in Nat
    BY <1>4, RegimeAssumption DEF IsRegime
  <2> QED
    BY <2>1, WalkIs
<1> HIDE DEF walk
<1>6. /\ s.forecast[h].probability = walk[h]
      /\ \A k \in States : walk[h][k] <= walk[h][s.forecast[h].mostLikely]
      /\ s.forecast[h].change = Total([k \in States \ {s.current} |-> walk[h][k]])
  BY <1>4, <1>5, ForecastIs
<1> QED
  BY <1>6 DEF walk, s

(* A forecast is that many single steps of the transition from today, and  *)
(* the likeliest regime and the chance of a change are read off it.        *)
THEOREM ForecastAlways == Spec => []ForecastIsStepwise
BY RunInvAlways, RunInvForecast, PTL

(***************************************************************************)
(* The dates of the returns: align_to_calendar, the trim and the weeks     *)
(***************************************************************************)

\* The days up to a slot on which a series has a close.
Seen(calendar, series, i) == {j \in 1 .. i : calendar[j] \in DOMAIN series}

LEMMA SeenIs ==
    ASSUME NEW calendar, NEW series, NEW i \in Nat
    PROVE  /\ Seen(calendar, series, i) # {} =>
                 /\ Max(Seen(calendar, series, i)) \in Seen(calendar, series, i)
                 /\ Max(Seen(calendar, series, i)) \in 1 .. i
                 /\ i - Max(Seen(calendar, series, i)) \in Nat
           /\ calendar[i + 1] \in DOMAIN series =>
                 /\ Seen(calendar, series, i + 1) # {}
                 /\ Max(Seen(calendar, series, i + 1)) = i + 1
           /\ calendar[i + 1] \notin DOMAIN series =>
                 Seen(calendar, series, i + 1) = Seen(calendar, series, i)
<1>1. ASSUME NEW k \in Nat
      PROVE  Seen(calendar, series, k) \in SUBSET Int /\ IsFiniteSet(Seen(calendar, series, k))
  <2>1. IsFiniteSet(1 .. k)
    <3>1. 1 \in Int /\ k \in Int
      OBVIOUS
    <3> QED
      BY <3>1, FS_Interval, Zenon
  <2>2. Seen(calendar, series, k) \in SUBSET (1 .. k)
    BY DEF Seen
  <2> QED
    BY <2>1, <2>2, FS_Subset
<1>2. ASSUME Seen(calendar, series, i) # {}
      PROVE  /\ Max(Seen(calendar, series, i)) \in Seen(calendar, series, i)
             /\ Max(Seen(calendar, series, i)) \in 1 .. i
             /\ i - Max(Seen(calendar, series, i)) \in Nat
  <2>1. Max(Seen(calendar, series, i)) \in Seen(calendar, series, i)
    BY <1>1, <1>2, MaxIs
  <2>2. Max(Seen(calendar, series, i)) \in 1 .. i
    BY <2>1 DEF Seen
  <2> QED
    BY <2>1, <2>2
<1>3. ASSUME calendar[i + 1] \in DOMAIN series
      PROVE  Seen(calendar, series, i + 1) # {} /\ Max(Seen(calendar, series, i + 1)) = i + 1
  <2>1. i + 1 \in Seen(calendar, series, i + 1)
    BY <1>3 DEF Seen
  <2>2. i + 1 \in Nat
    OBVIOUS
  <2>3. /\ Max(Seen(calendar, series, i + 1)) \in Seen(calendar, series, i + 1)
        /\ i + 1 <= Max(Seen(calendar, series, i + 1))
    BY <1>1, <2>1, <2>2, MaxIs
  <2>4. Max(Seen(calendar, series, i + 1)) \in 1 .. i + 1
    BY <2>3 DEF Seen
  <2> QED
    BY <2>1, <2>3, <2>4
<1>4. ASSUME calendar[i + 1] \notin DOMAIN series
      PROVE  Seen(calendar, series, i + 1) = Seen(calendar, series, i)
  <2>1. \A j \in 1 .. i + 1 : j \in 1 .. i \/ j = i + 1
    OBVIOUS
  <2>2. \A j \in 1 .. i : j \in 1 .. i + 1
    OBVIOUS
  <2> QED
    BY <1>4, <2>1, <2>2 DEF Seen
<1> QED
  BY <1>2, <1>3, <1>4

\* What the loop of align_to_calendar holds: the latest close and how old it is.
LEMMA AlignIsCloseAt ==
    ASSUME NEW series, IsSeries(series), NEW calendar, Len(calendar) \in Nat
    PROVE  AlignToCalendar(series, calendar)
           = [i \in 1 .. Len(calendar) |-> CloseAt(calendar, series, i)]
<1> DEFINE n == Len(calendar)
           seen(i) == Seen(calendar, series, i)
<1>1. PICK walk : /\ \A i \in 1 .. n : walk[i] = AlignBody(series, calendar, i, walk[i - 1])
                  /\ walk[0] = AlignStart
                  /\ AlignToCalendar(series, calendar) = [i \in 1 .. n |-> walk[i].close]
  BY Aligned
<1> DEFINE Good(i) == /\ seen(i) = {} => walk[i].last = None /\ walk[i].gap = i
                      /\ seen(i) # {} => /\ walk[i].last = series[calendar[Max(seen(i))]]
                                         /\ walk[i].gap = i - Max(seen(i))
           C == {i \in Nat : i <= n => Good(i)}
<1>2. 0 \in C
  <2>1. seen(0) = {}
    BY DEF Seen
  <2>2. walk[0].last = None /\ walk[0].gap = 0
    BY <1>1 DEF AlignStart
  <2> QED
    BY <2>1, <2>2
<1>3. \A i \in Nat : i \in C => i + 1 \in C
  <2>1. SUFFICES ASSUME NEW i \in Nat, i + 1 <= n, Good(i) PROVE Good(i + 1)
    <3>1. \A i \in Nat : i + 1 <= n => i <= n
      OBVIOUS
    <3> QED
      BY <3>1
  <2>2. i + 1 \in 1 .. n /\ (i + 1) - 1 = i
    BY <2>1
  <2>3. walk[i + 1] = AlignBody(series, calendar, i + 1, walk[i])
    BY <1>1, <2>2
  <2>4. CASE calendar[i + 1] \in DOMAIN series
    <3>1. seen(i + 1) # {} /\ Max(seen(i + 1)) = i + 1
      BY <2>4, SeenIs
    <3>2. walk[i + 1].last = series[calendar[i + 1]] /\ walk[i + 1].gap = 0
      BY <2>3, <2>4 DEF AlignBody
    <3>3. (i + 1) - (i + 1) = 0
      OBVIOUS
    <3> QED
      BY <3>1, <3>2, <3>3
  <2>5. CASE calendar[i + 1] \notin DOMAIN series
    <3>1. seen(i + 1) = seen(i)
      BY <2>5, SeenIs
    <3>2. walk[i + 1].last = walk[i].last /\ walk[i + 1].gap = walk[i].gap + 1
      BY <2>3, <2>5 DEF AlignBody
    <3>3. CASE seen(i) = {}
      BY <2>1, <3>1, <3>2, <3>3
    <3>4. CASE seen(i) # {}
      <4>1. Max(seen(i)) \in 1 .. i
        BY <3>4, SeenIs
      <4>2. (i - Max(seen(i))) + 1 = (i + 1) - Max(seen(i))
        <5> HIDE DEF seen
        <5> QED
          BY <4>1
      <4> QED
        BY <2>1, <3>1, <3>2, <3>4, <4>2
    <3> QED
      BY <3>3, <3>4
  <2> QED
    BY <2>4, <2>5
<1>4. Nat \subseteq C
  <2> HIDE DEF C
  <2> QED
    BY <1>2, <1>3, NumberInduction
<1>5. ASSUME NEW i \in 1 .. n PROVE walk[i].close = CloseAt(calendar, series, i)
  <2>1. i \in Nat /\ i - 1 \in Nat /\ (i - 1) + 1 = i /\ i <= n /\ i - 1 <= n
    OBVIOUS
  <2>2. Good(i) /\ Good(i - 1)
    BY <1>4, <2>1
  <2>7. /\ calendar[i] \in DOMAIN series => seen(i) # {} /\ Max(seen(i)) = i
        /\ calendar[i] \notin DOMAIN series => seen(i) = seen(i - 1)
    <3> DEFINE j == i - 1
    <3>1. j \in Nat /\ j + 1 = i
      BY <2>1
    <3> HIDE DEF j
    <3>2. /\ calendar[j + 1] \in DOMAIN series =>
                seen(j + 1) # {} /\ Max(seen(j + 1)) = j + 1
          /\ calendar[j + 1] \notin DOMAIN series => seen(j + 1) = seen(j)
      BY <3>1, SeenIs
    <3> QED
      BY <3>1, <3>2 DEF j
  <2>3. walk[i] = AlignBody(series, calendar, i, walk[i - 1])
    BY <1>1
  <2>4. CloseAt(calendar, series, i)
        = IF seen(i) = {} \/ i - Max(seen(i)) > MaxForwardFill THEN None
          ELSE series[calendar[Max(seen(i))]]
    BY DEF CloseAt, Seen
  <2>5. CASE calendar[i] \in DOMAIN series
    <3>1. seen(i) # {} /\ Max(seen(i)) = i
      BY <2>5, <2>7
    <3>2. walk[i].close = series[calendar[i]]
      BY <2>3, <2>5 DEF AlignBody
    <3>3. ~(i - i > MaxForwardFill)
      BY AlignmentAssumption
    <3> QED
      BY <2>4, <3>1, <3>2, <3>3
  <2>6. CASE calendar[i] \notin DOMAIN series
    <3>1. seen(i) = seen(i - 1)
      BY <2>6, <2>7
    <3>2. walk[i].close = IF walk[i - 1].gap + 1 <= MaxForwardFill
                          THEN walk[i - 1].last ELSE None
      BY <2>3, <2>6 DEF AlignBody
    <3>3. CASE seen(i) = {}
      BY <2>2, <2>4, <3>1, <3>2, <3>3
    <3>4. CASE seen(i) # {}
      <4>1. Max(seen(i - 1)) \in 1 .. i - 1
        BY <2>1, <3>1, <3>4, SeenIs
      <4>2. /\ walk[i - 1].gap = (i - 1) - Max(seen(i))
            /\ walk[i - 1].last = series[calendar[Max(seen(i))]]
        BY <2>2, <3>1, <3>4
      <4>3. /\ walk[i - 1].gap + 1 = i - Max(seen(i))
            /\ i - Max(seen(i)) \in Int
        <5> HIDE DEF seen
        <5> QED
          BY <3>1, <4>1, <4>2
      <4>4. (i - Max(seen(i)) > MaxForwardFill) <=> ~(i - Max(seen(i)) <= MaxForwardFill)
        <5> HIDE DEF seen
        <5> QED
          BY <4>3, AlignmentAssumption
      <4> HIDE DEF seen
      <4> QED
        BY <2>4, <3>2, <3>4, <4>2, <4>3, <4>4
    <3> QED
      BY <3>3, <3>4
  <2> QED
    BY <2>5, <2>6
<1> QED
  BY <1>1, <1>5

Less(S, n) == {m \in S : m < n}

\* The place of a number in a set settles which one it is.
LEMMA AscendingAt ==
    ASSUME NEW S \in SUBSET Int, IsFiniteSet(S)
    PROVE  /\ \A i, j \in 1 .. Cardinality(S) : i < j => Ascending(S)[i] < Ascending(S)[j]
           /\ \A n \in S : /\ Cardinality(Less(S, n)) + 1 \in 1 .. Cardinality(S)
                           /\ Ascending(S)[Cardinality(Less(S, n)) + 1] = n
<1> DEFINE c == Cardinality(S)
           a == Ascending(S)
<1>1. /\ c \in Nat
      /\ a \in [1 .. c -> S]
      /\ \A i \in 1 .. c : Cardinality(Less(S, a[i])) = i - 1
  <2>1. \A i \in 1 .. c : Less(S, a[i]) = {m \in S : m < a[i]}
    BY DEF Less
  <2> HIDE DEF a
  <2> QED
    BY <2>1, AscendingIn DEF a
<1> HIDE DEF a
<1>2. ASSUME NEW n \in S
      PROVE  IsFiniteSet(Less(S, n)) /\ Cardinality(Less(S, n)) \in Nat
             /\ Less(S, n) \in SUBSET S
  <2>1. Less(S, n) \in SUBSET S
    BY DEF Less
  <2> QED
    BY <2>1, FS_Subset, FS_CardinalityType
\* A smaller number has fewer below it.
<1>3. ASSUME NEW n \in S, NEW o \in S, n < o
      PROVE  Cardinality(Less(S, n)) < Cardinality(Less(S, o))
  <2>1. Less(S, n) \cup {n} \in SUBSET Less(S, o) /\ n \notin Less(S, n)
    <3>1. n \in Int /\ o \in Int /\ n \notin Less(S, n) /\ n \in Less(S, o)
      BY <1>3 DEF Less
    <3>2. \A m \in S : m < n => m < o
      BY <1>3, <3>1
    <3>3. Less(S, n) \in SUBSET Less(S, o)
      BY <3>2 DEF Less
    <3> QED
      BY <3>1, <3>3
  <2>2. Cardinality(Less(S, n) \cup {n}) = Cardinality(Less(S, n)) + 1
    BY <1>2, <2>1, FS_AddElement
  <2>3. Cardinality(Less(S, n) \cup {n}) <= Cardinality(Less(S, o))
    BY <1>2, <2>1, FS_Subset
  <2>4. Cardinality(Less(S, n)) \in Nat /\ Cardinality(Less(S, o)) \in Nat
    BY <1>2
  <2> QED
    BY <2>2, <2>3, <2>4
<1>4. ASSUME NEW i \in 1 .. c, NEW j \in 1 .. c, i < j PROVE a[i] < a[j]
  <2>1. a[i] \in S /\ a[j] \in S /\ a[i] \in Int /\ a[j] \in Int
    BY <1>1
  <2>2. CASE a[i] < a[j]
    BY <2>2
  <2>3. CASE a[i] = a[j]
    BY <1>1, <1>4, <2>3
  <2>4. CASE a[j] < a[i]
    <3>1. Cardinality(Less(S, a[j])) < Cardinality(Less(S, a[i]))
      BY <1>3, <2>1, <2>4
    <3>2. Cardinality(Less(S, a[j])) = j - 1 /\ Cardinality(Less(S, a[i])) = i - 1
      BY <1>1
    <3> QED
      BY <1>4, <3>1, <3>2
  <2> QED
    BY <2>1, <2>2, <2>3, <2>4
<1>5. ASSUME NEW n \in S
      PROVE  Cardinality(Less(S, n)) + 1 \in 1 .. c /\ a[Cardinality(Less(S, n)) + 1] = n
  <2> DEFINE k == Cardinality(Less(S, n))
  <2>1. k \in Nat
    BY <1>2
  <2>2. k + 1 <= c
    <3>1. Less(S, n) \cup {n} \in SUBSET S /\ n \notin Less(S, n)
      BY <1>2 DEF Less
    <3>2. Cardinality(Less(S, n) \cup {n}) = k + 1
      BY <1>2, <3>1, FS_AddElement
    <3> QED
      BY <3>1, <3>2, FS_Subset
  <2>3. k + 1 \in 1 .. c /\ a[k + 1] \in S /\ Cardinality(Less(S, a[k + 1])) = k
    <3> HIDE DEF k
    <3>1. k + 1 \in 1 .. c /\ (k + 1) - 1 = k
      BY <1>1, <2>1, <2>2
    <3> QED
      BY <1>1, <3>1
  <2>4. a[k + 1] \in Int /\ n \in Int
    BY <2>3
  <2>5. CASE a[k + 1] = n
    BY <2>3, <2>5
  <2>6. CASE a[k + 1] < n
    <3>1. k < k
      BY <1>3, <2>3, <2>6
    <3> QED
      BY <2>1, <3>1
  <2>7. CASE n < a[k + 1]
    <3>1. k < k
      BY <1>3, <2>3, <2>7
    <3> QED
      BY <2>1, <3>1
  <2> HIDE DEF k
  <2> QED
    BY <2>4, <2>5, <2>6, <2>7 DEF k
<1> QED
  BY <1>4, <1>5 DEF a

LEMMA DisjointUnion ==
    ASSUME NEW S, NEW T, IsFiniteSet(S), IsFiniteSet(T), S \cap T = {}
    PROVE  Cardinality(S \cup T) = Cardinality(S) + Cardinality(T)
<1>1. /\ Cardinality(S \cup T) = Cardinality(S) + Cardinality(T) - Cardinality(S \cap T)
  BY FS_Union, Zenon
<1>2. Cardinality(S \cap T) = 0 /\ Cardinality(S) \in Nat /\ Cardinality(T) \in Nat
  BY FS_EmptySet, FS_CardinalityType
<1> QED
  BY <1>1, <1>2

\* The upper part of a set comes last in its order.
LEMMA AscendingTail ==
    ASSUME NEW S \in SUBSET Int, IsFiniteSet(S), NEW T \in SUBSET S,
           \A t \in T : \A u \in S \ T : u < t
    PROVE  /\ Cardinality(S) \in Nat /\ Cardinality(T) \in 0 .. Cardinality(S)
           /\ Len(Ascending(T)) = Cardinality(T) /\ DOMAIN Ascending(T) = 1 .. Cardinality(T)
           /\ \A k \in 1 .. Cardinality(T) :
                 Ascending(T)[k] = Ascending(S)[(Cardinality(S) - Cardinality(T)) + k]
           /\ \A k \in 1 .. Cardinality(S) - Cardinality(T) : Ascending(S)[k] \in S \ T
<1> DEFINE n == Cardinality(S)
           c == Cardinality(T)
           R == S \ T
<1>1. IsFiniteSet(T) /\ IsFiniteSet(R) /\ c \in Nat /\ n \in Nat /\ c <= n
      /\ T \in SUBSET Int /\ R \in SUBSET S
  <2>1. R \in SUBSET S
    OBVIOUS
  <2>2. IsFiniteSet(T) /\ IsFiniteSet(R) /\ c <= n
    <3> HIDE DEF R
    <3> QED
      BY <2>1, FS_Subset
  <2> QED
    BY <2>1, <2>2, FS_CardinalityType
<1>2. Cardinality(R) = n - c
  <2>1. T \cap R = {} /\ T \cup R = S
    OBVIOUS
  <2>2. Cardinality(T \cup R) = c + Cardinality(R)
    <3>1. IsFiniteSet(T) /\ IsFiniteSet(R)
      BY <1>1
    <3> HIDE DEF R
    <3> QED
      BY <2>1, <3>1, DisjointUnion
  <2>3. Cardinality(R) \in Nat
    BY <1>1, FS_CardinalityType
  <2> HIDE DEF R
  <2> QED
    BY <1>1, <2>1, <2>2, <2>3
<1>3. /\ Ascending(T) \in [1 .. c -> T]
      /\ \A k \in 1 .. c : Cardinality({m \in T : m < Ascending(T)[k]}) = k - 1
  BY <1>1, AscendingIn
<1>4. ASSUME NEW k \in 1 .. c
      PROVE  /\ Ascending(T)[k] = Ascending(S)[(n - c) + k]
             /\ Ascending(T)[k] \in T
  <2> DEFINE x == Ascending(T)[k]
  <2>1. x \in T /\ Cardinality(Less(T, x)) = k - 1
    BY <1>3 DEF Less
  <2>2. Less(S, x) = R \cup Less(T, x) /\ R \cap Less(T, x) = {} /\ Less(T, x) \in SUBSET T
    <3> HIDE DEF x
    <3> QED
      BY <2>1 DEF Less
  <2>3. Cardinality(Less(S, x)) = (n - c) + (k - 1)
    <3>1. IsFiniteSet(Less(T, x))
      BY <1>1, <2>2, FS_Subset
    <3>2. Cardinality(R \cup Less(T, x)) = Cardinality(R) + Cardinality(Less(T, x))
      <4> HIDE DEF R, x
      <4> QED
        BY <1>1, <2>2, <3>1, DisjointUnion
    <3> QED
      BY <1>2, <2>1, <2>2, <3>2
  <2>4. Cardinality(Less(S, x)) + 1 = (n - c) + k
    <3> HIDE DEF n, c, x
    <3> QED
      BY <1>1, <2>3
  <2>5. Ascending(S)[Cardinality(Less(S, x)) + 1] = x
    <3> HIDE DEF x
    <3> QED
      BY <2>1, AscendingAt
  <2> QED
    BY <2>1, <2>4, <2>5
<1>5. ASSUME NEW k \in 1 .. n - c PROVE Ascending(S)[k] \in R
  <2>1. Ascending(S) \in [1 .. n -> S] /\ k \in 1 .. n
    BY <1>1, AscendingIn
  <2>2. ASSUME Ascending(S)[k] \in T PROVE FALSE
    <3> DEFINE x == Ascending(S)[k]
               j == Cardinality(Less(T, x)) + 1
    <3>1. j \in 1 .. c /\ Ascending(T)[j] = x
      <4> HIDE DEF x
      <4> QED
        BY <1>1, <2>2, AscendingAt DEF x
    <3>2. Ascending(S)[(n - c) + j] = x
      BY <1>4, <3>1
    <3>3. (n - c) + j \in 1 .. n /\ k < (n - c) + j
      <4> HIDE DEF n, c, j
      <4> QED
        BY <1>1, <3>1
    <3>4. x < x
      <4> HIDE DEF j
      <4>1. Ascending(S)[k] < Ascending(S)[(n - c) + j]
        BY <2>1, <3>3, AscendingAt
      <4> QED
        BY <3>2, <4>1
    <3>5. x \in Int
      BY <2>1
    <3> HIDE DEF x
    <3> QED
      BY <3>4, <3>5
  <2> QED
    BY <2>1, <2>2
<1>6. DOMAIN Ascending(T) = 1 .. c /\ Len(Ascending(T)) = c
  <2>1. DOMAIN Ascending(T) = 1 .. c
    BY <1>3
  <2> QED
    BY <1>1, <2>1
<1> QED
  BY <1>1, <1>4, <1>5, <1>6

LEMMA TailIs ==
    ASSUME NEW V, NEW s \in Seq(V), NEW m \in 1 .. Len(s) + 1
    PROVE  /\ SubSeq(s, m, Len(s)) \in Seq(V)
           /\ Len(SubSeq(s, m, Len(s))) = (Len(s) - m) + 1
           /\ \A i \in 1 .. (Len(s) - m) + 1 : SubSeq(s, m, Len(s))[i] = s[(m - 1) + i]
<1>1. Len(s) \in Nat /\ m \in Nat /\ m >= 1 /\ m <= Len(s) + 1
  OBVIOUS
<1>2. CASE m = Len(s) + 1
  BY <1>1, <1>2
<1>3. CASE m <= Len(s)
  BY <1>1, <1>3
<1> QED
  BY <1>1, <1>2, <1>3

\* A slot has a close or has none.
LEMMA CloseAtIn ==
    ASSUME NEW series, IsSeries(series), NEW calendar, NEW i \in Nat
    PROVE  CloseAt(calendar, series, i) \in Int \cup {None}
<1> DEFINE seen == Seen(calendar, series, i)
<1>1. CloseAt(calendar, series, i)
      = IF seen = {} \/ i - Max(seen) > MaxForwardFill THEN None
        ELSE series[calendar[Max(seen)]]
  BY DEF CloseAt, Seen
<1>2. ASSUME seen # {} PROVE series[calendar[Max(seen)]] \in Int
  <2>1. calendar[Max(seen)] \in DOMAIN series
    <3>1. Max(seen) \in seen
      BY <1>2, SeenIs
    <3> QED
      BY <3>1 DEF Seen
  <2> QED
    BY <2>1 DEF IsSeries
<1> HIDE DEF seen
<1> QED
  BY <1>1, <1>2

\* The closes of a series, which ends where the calendar ends.
ByTheEnd(closes, calendar, series) ==
    /\ closes \in Seq(Int) /\ Len(closes) \in 1 .. Len(calendar)
    /\ \A i \in 1 .. Len(closes) :
          closes[i] = CloseAt(calendar, series, (Len(calendar) - Len(closes)) + i)

\* The slots of a series from one of them on.
From(calendar, series, start) ==
    SubSeq(AlignToCalendar(series, calendar), start, Len(calendar))

LEMMA FromIs ==
    ASSUME NEW series, IsSeries(series), NEW calendar, Len(calendar) \in Nat,
           NEW start \in 1 .. Len(calendar)
    PROVE  /\ From(calendar, series, start) \in Seq(Int \cup {None})
           /\ Len(From(calendar, series, start)) = (Len(calendar) - start) + 1
           /\ \A i \in 1 .. (Len(calendar) - start) + 1 :
                 From(calendar, series, start)[i] = CloseAt(calendar, series, (start - 1) + i)
<1> DEFINE n == Len(calendar)
           aligned == AlignToCalendar(series, calendar)
<1>1. aligned = [i \in 1 .. n |-> CloseAt(calendar, series, i)]
  BY AlignIsCloseAt
<1>2. \A i \in 1 .. n : CloseAt(calendar, series, i) \in Int \cup {None}
  BY CloseAtIn
<1> HIDE DEF aligned
<1>3. aligned \in Seq(Int \cup {None}) /\ Len(aligned) = n
  BY <1>1, <1>2
<1>4. start \in 1 .. Len(aligned) + 1
  BY <1>3
<1>5. /\ SubSeq(aligned, start, n) \in Seq(Int \cup {None})
      /\ Len(SubSeq(aligned, start, n)) = (n - start) + 1
      /\ \A i \in 1 .. (n - start) + 1 : SubSeq(aligned, start, n)[i] = aligned[(start - 1) + i]
  BY <1>3, <1>4, TailIs
<1>6. \A i \in 1 .. (n - start) + 1 : (start - 1) + i \in 1 .. n
  OBVIOUS
<1> QED
  BY <1>1, <1>5, <1>6 DEF From, aligned

\* What is left of a holding: what follows its last slot without a close.
LEMMA TrailingRunIs ==
    ASSUME NEW s \in Seq(Int \cup {None})
    PROVE  LET run == TrailingNonNoneRun(s)
               m   == Len(s) - Len(run)
           IN  /\ run \in Seq(Int) /\ m \in 0 .. Len(s)
               /\ \A i \in 1 .. Len(run) : run[i] = s[m + i]
               /\ m > 0 => s[m] = None
<1> DEFINE n == Len(s)
           lacking == {0} \cup Missing(s)
           m == Max(lacking)
           run == TrailingNonNoneRun(s)
<1>1. n \in Nat /\ DOMAIN s = 1 .. n /\ IsFiniteSet(0 .. n)
  <2>1. 0 \in Int /\ n \in Int
    OBVIOUS
  <2> HIDE DEF n
  <2>2. IsFiniteSet(0 .. n)
    BY <2>1, FS_Interval, Zenon
  <2> QED
    BY <2>2 DEF n
<1>2. lacking \in SUBSET Int /\ IsFiniteSet(lacking) /\ lacking # {} /\ lacking \in SUBSET (0 .. n)
  <2>1. lacking \in SUBSET (0 .. n)
    BY <1>1 DEF Missing
  <2>2. IsFiniteSet(lacking)
    <3> HIDE DEF lacking
    <3> QED
      BY <1>1, <2>1, FS_Subset
  <2> QED
    BY <2>1, <2>2
<1>3. m \in lacking /\ \A k \in lacking : k <= m
  <2> HIDE DEF lacking
  <2> QED
    BY <1>2, MaxIs
<1>4. m \in 0 .. n /\ (m > 0 => s[m] = None) /\ \A i \in 1 .. n : i > m => s[i] # None
  <2>1. m \in 0 .. n
    <3> HIDE DEF lacking, m
    <3> QED
      BY <1>2, <1>3
  <2>2. m > 0 => m \in Missing(s)
    <3> HIDE DEF m
    <3> QED
      BY <1>3
  <2>3. \A i \in 1 .. n : i > m => i \notin Missing(s)
    <3>1. \A i \in Missing(s) : i <= m
      BY <1>3
    <3> HIDE DEF m
    <3> QED
      BY <2>1, <3>1
  <2> HIDE DEF m
  <2> QED
    BY <1>1, <2>1, <2>2, <2>3 DEF Missing
<1>5. run = SubSeq(s, 1 + m, n)
  BY DEF TrailingNonNoneRun
<1> HIDE DEF m, run
<1>6. 1 + m \in 1 .. Len(s) + 1
  BY <1>1, <1>4
<1>7. /\ run \in Seq(Int \cup {None}) /\ Len(run) = (n - (1 + m)) + 1
      /\ \A i \in 1 .. (n - (1 + m)) + 1 : run[i] = s[((1 + m) - 1) + i]
  BY <1>5, <1>6, TailIs
<1>8. /\ Len(run) = n - m /\ n - Len(run) = m
      /\ \A i \in 1 .. n - m : run[i] = s[m + i] /\ m + i \in 1 .. n /\ m + i > m
  <2>1. n \in Int /\ m \in Int /\ m \in 0 .. n
    BY <1>1, <1>4
  <2> HIDE DEF n
  <2>2. (n - (1 + m)) + 1 = n - m /\ n - (n - m) = m
    BY <2>1
  <2>3. \A i \in 1 .. n - m : ((1 + m) - 1) + i = m + i /\ m + i \in 1 .. n /\ m + i > m
    BY <2>1
  <2>4. Len(run) = n - m
    BY <1>7, <2>2
  <2>5. \A i \in 1 .. n - m : run[i] = s[((1 + m) - 1) + i]
    BY <1>7, <2>2
  <2> QED
    BY <2>2, <2>3, <2>4, <2>5
<1>9. \A i \in 1 .. n - m : run[i] \in Int
  <2>1. \A i \in 1 .. n - m : run[i] # None
    BY <1>4, <1>8
  <2> QED
    BY <1>1, <1>4, <1>7, <1>8, <2>1
<1>10. run \in Seq(Int)
  <2>1. run \in Seq(Int \cup {None}) /\ \A i \in 1 .. Len(run) : run[i] \in Int
    BY <1>7, <1>8, <1>9
  <2> QED
    BY <2>1
<1> QED
  BY <1>1, <1>4, <1>8, <1>10 DEF run

Series(raw, tickers) == \A s \in tickers \cup FactorTickers : IsSeries(raw[s])

\* All factors have closes in a slot.
Known(calendar, raw, i) == \A f \in FactorTickers : CloseAt(calendar, raw[f], i) # None

Start(calendar, raw, tickers) ==
    StartIndex([s \in tickers \cup FactorTickers |-> AlignToCalendar(raw[s], calendar)],
               Len(calendar))

\* The first slot in which they do.
LEMMA StartIs ==
    ASSUME NEW raw, NEW tickers, Series(raw, tickers), NEW calendar, Len(calendar) \in Nat
    PROVE  /\ Start(calendar, raw, tickers) \in 1 .. Len(calendar) + 1
           /\ \A i \in 1 .. Len(calendar) :
                 Known(calendar, raw, i) => Start(calendar, raw, tickers) <= i
<1> DEFINE n == Len(calendar)
           aligned == [s \in tickers \cup FactorTickers |-> AlignToCalendar(raw[s], calendar)]
           complete == {i \in 1 .. n : \A f \in FactorTickers : aligned[f][i] # None}
           start == Start(calendar, raw, tickers)
<1>1. \A i \in 1 .. n : Known(calendar, raw, i) => i \in complete
  <2>1. SUFFICES ASSUME NEW i \in 1 .. n, Known(calendar, raw, i), NEW f \in FactorTickers
                 PROVE  aligned[f][i] # None
    OBVIOUS
  <2>2. AlignToCalendar(raw[f], calendar) = [j \in 1 .. n |-> CloseAt(calendar, raw[f], j)]
    <3>1. IsSeries(raw[f])
      BY DEF Series
    <3> QED
      BY <3>1, AlignIsCloseAt
  <2>3. aligned[f][i] = CloseAt(calendar, raw[f], i)
    <3>1. aligned[f] = AlignToCalendar(raw[f], calendar)
      OBVIOUS
    <3> HIDE DEF aligned
    <3> QED
      BY <2>2, <3>1
  <2> HIDE DEF aligned
  <2> QED
    BY <2>1, <2>3 DEF Known
<1>2. start = Min({n + 1} \cup complete)
  BY DEF Start, StartIndex
<1> HIDE DEF aligned, start
<1>3. complete \in SUBSET (1 .. n)
  OBVIOUS
<1> HIDE DEF complete
<1>4. {n + 1} \cup complete \in SUBSET Nat /\ {n + 1} \cup complete # {}
      /\ {n + 1} \cup complete \in SUBSET (1 .. n + 1)
  <2>1. n + 1 \in 1 .. n + 1 /\ \A i \in 1 .. n : i \in 1 .. n + 1
    OBVIOUS
  <2>2. \A i \in 1 .. n + 1 : i \in Nat
    OBVIOUS
  <2> HIDE DEF n
  <2> QED
    BY <1>3, <2>1, <2>2
<1>5. start \in {n + 1} \cup complete /\ \A k \in {n + 1} \cup complete : start <= k
  BY <1>2, <1>4, MinIs
<1> QED
  BY <1>1, <1>4, <1>5 DEF start

StocksFrom(calendar, raw, tickers, start) ==
    [t \in tickers |-> TrailingNonNoneRun(From(calendar, raw[t], start))]

\* The definition in these words.
LEMMA LoadAlignedIs ==
    ASSUME NEW raw, NEW tickers, NEW calendar, calendar = Calendar(raw["MARKET"]),
           NEW start, start = Start(calendar, raw, tickers)
    PROVE  LoadAlignedPrices(raw, tickers)
           = IF \E t \in tickers : StocksFrom(calendar, raw, tickers, start)[t] = <<>>
             THEN Failed("error")
             ELSE IF \/ \E f \in FactorTickers : Missing(From(calendar, raw[f], start)) # {}
                     \/ start > Len(calendar)
             THEN Failed("panic")
             ELSE [outcome |-> "ok",
                   dates   |-> SubSeq(calendar, start, Len(calendar)),
                   stocks  |-> StocksFrom(calendar, raw, tickers, start),
                   factors |-> [f \in FactorTickers |-> From(calendar, raw[f], start)]]
<1> DEFINE aligned == [s \in tickers \cup FactorTickers |-> AlignToCalendar(raw[s], calendar)]
           kept == [s \in DOMAIN aligned |-> SubSeq(aligned[s], start, Len(calendar))]
           stocks == [t \in tickers |-> TrailingNonNoneRun(kept[t])]
<1>1. start = StartIndex(aligned, Len(calendar))
  BY DEF Start
<1>2. LoadAlignedPrices(raw, tickers)
      = IF \E t \in tickers : stocks[t] = <<>> THEN Failed("error")
        ELSE IF \/ \E f \in FactorTickers : Missing(kept[f]) # {}
                \/ start > Len(calendar)
        THEN Failed("panic")
        ELSE [outcome |-> "ok",
              dates   |-> SubSeq(calendar, start, Len(calendar)),
              stocks  |-> stocks,
              factors |-> [f \in FactorTickers |-> kept[f]]]
  BY <1>1 DEF LoadAlignedPrices
<1>3. \A s \in tickers \cup FactorTickers : kept[s] = From(calendar, raw[s], start)
  BY DEF From
<1> HIDE DEF kept, aligned
<1>4. stocks = StocksFrom(calendar, raw, tickers, start)
  BY <1>3 DEF StocksFrom
<1>5. [f \in FactorTickers |-> kept[f]] = [f \in FactorTickers |-> From(calendar, raw[f], start)]
  BY <1>3
<1>6. (\E f \in FactorTickers : Missing(kept[f]) # {})
      <=> \E f \in FactorTickers : Missing(From(calendar, raw[f], start)) # {}
  BY <1>3
<1> HIDE DEF stocks
<1> QED
  BY <1>2, <1>4, <1>5, <1>6

\* What LoadAlignedPrices returns.
ArePrices(prices, calendar, raw, tickers, start) ==
    /\ start \in 1 .. Len(calendar)
    /\ prices.dates = SubSeq(calendar, start, Len(calendar))
    /\ DOMAIN prices.stocks = tickers /\ DOMAIN prices.factors = FactorTickers
    /\ \A i \in 1 .. Len(calendar) : Known(calendar, raw, i) => start <= i
    /\ \A t \in tickers :
          /\ ByTheEnd(prices.stocks[t], calendar, raw[t])
          /\ Len(prices.stocks[t]) <= (Len(calendar) - start) + 1
          /\ Len(prices.stocks[t]) < (Len(calendar) - start) + 1 =>
                CloseAt(calendar, raw[t], Len(calendar) - Len(prices.stocks[t])) = None
    /\ \A f \in FactorTickers :
          /\ ByTheEnd(prices.factors[f], calendar, raw[f])
          /\ Len(prices.factors[f]) = (Len(calendar) - start) + 1

LEMMA PricesAre ==
    ASSUME NEW raw, NEW tickers, Series(raw, tickers), NEW prices,
           prices = LoadAlignedPrices(raw, tickers), prices.outcome = "ok"
    PROVE  LET calendar == Calendar(raw["MARKET"])
           IN  ArePrices(prices, calendar, raw, tickers, Start(calendar, raw, tickers))
<1> DEFINE calendar == Calendar(raw["MARKET"])
           n == Len(calendar)
           start == Start(calendar, raw, tickers)
           stocks == StocksFrom(calendar, raw, tickers, start)
<1>1. calendar \in Seq(Nat) /\ n \in Nat
  <2>1. IsSeries(raw["MARKET"])
    BY DEF Series, FactorTickers
  <2> QED
    BY <2>1, CalendarIn
<1>2. start \in 1 .. n + 1 /\ \A i \in 1 .. n : Known(calendar, raw, i) => start <= i
  <2> HIDE DEF calendar
  <2> QED
    BY <1>1, StartIs
<1>3. /\ \A t \in tickers : stocks[t] # <<>>
      /\ \A f \in FactorTickers : Missing(From(calendar, raw[f], start)) = {}
      /\ start <= n
      /\ prices.dates = SubSeq(calendar, start, n)
      /\ prices.stocks = stocks
      /\ prices.factors = [f \in FactorTickers |-> From(calendar, raw[f], start)]
  <2> DEFINE dates == SubSeq(calendar, start, n)
             factors == [f \in FactorTickers |-> From(calendar, raw[f], start)]
             whole == [outcome |-> "ok", dates |-> dates, stocks |-> stocks, factors |-> factors]
             empty == \E t \in tickers : stocks[t] = <<>>
             gap == \E f \in FactorTickers : Missing(From(calendar, raw[f], start)) # {}
  <2>1. prices = IF empty THEN Failed("error")
                 ELSE IF gap \/ start > n THEN Failed("panic") ELSE whole
    BY LoadAlignedIs
  <2>2. Failed("error").outcome # "ok" /\ Failed("panic").outcome # "ok"
    BY DEF Failed
  <2>3. prices.dates = dates /\ prices.stocks = stocks /\ prices.factors = factors
        /\ ~empty /\ ~gap /\ ~(start > n)
    <3> HIDE DEF dates, stocks, factors, empty, gap, start, n
    <3> QED
      BY <2>1, <2>2
  <2>4. start <= n
    <3> HIDE DEF start, n
    <3> QED
      BY <1>1, <1>2, <2>3
  <2> HIDE DEF calendar, n, start, stocks
  <2> QED
    BY <2>3, <2>4
<1>4. start \in 1 .. n
  <2> HIDE DEF start, n
  <2> QED
    BY <1>1, <1>2, <1>3
<1> DEFINE w == (n - start) + 1
           slots(s) == From(calendar, raw[s], start)
<1>5. ASSUME NEW s \in tickers \cup FactorTickers
      PROVE  /\ slots(s) \in Seq(Int \cup {None}) /\ Len(slots(s)) = w
             /\ \A i \in 1 .. w : slots(s)[i] = CloseAt(calendar, raw[s], (start - 1) + i)
  <2>1. IsSeries(raw[s])
    BY DEF Series
  <2> HIDE DEF calendar, start
  <2> QED
    BY <1>1, <1>4, <2>1, FromIs
<1>6. w \in 1 .. n /\ start = (n - w) + 1 /\ start - 1 = n - w
  <2> HIDE DEF start, n
  <2> QED
    BY <1>1, <1>4
<1>7. ASSUME NEW t \in tickers
      PROVE  /\ ByTheEnd(stocks[t], calendar, raw[t])
             /\ Len(stocks[t]) <= w
             /\ Len(stocks[t]) < w => CloseAt(calendar, raw[t], n - Len(stocks[t])) = None
  <2> DEFINE run == stocks[t]
             l == Len(run)
             m == Len(slots(t)) - l
  <2>1. run = TrailingNonNoneRun(slots(t)) /\ run # <<>>
    <3>1. run # <<>>
      <4> HIDE DEF stocks
      <4> QED
        BY <1>3
    <3> QED
      BY <3>1 DEF StocksFrom
  <2>2. /\ run \in Seq(Int) /\ m \in 0 .. Len(slots(t))
        /\ \A i \in 1 .. l : run[i] = slots(t)[m + i]
        /\ m > 0 => slots(t)[m] = None
    <3> HIDE DEF slots, stocks
    <3>1. slots(t) \in Seq(Int \cup {None})
      BY <1>5
    <3> QED
      BY <2>1, <3>1, TrailingRunIs
  <2> HIDE DEF run
  <2>3. l \in Nat /\ l # 0
    BY <2>1, <2>2
  <2>4. Len(slots(t)) = w /\ m = w - l /\ m \in 0 .. w
    <3> HIDE DEF slots, l
    <3> QED
      BY <1>5, <2>2
  <2>5. /\ l \in 1 .. n /\ l <= w /\ n - l = (start - 1) + m
        /\ (l < w => m > 0 /\ m \in 1 .. w)
        /\ \A i \in 1 .. l : m + i \in 1 .. w /\ (start - 1) + (m + i) = (n - l) + i
    <3>1. w \in 1 .. n /\ start = (n - w) + 1 /\ n \in Nat /\ l \in Nat \ {0}
          /\ m = w - l /\ m \in 0 .. w
      BY <1>1, <1>6, <2>3, <2>4
    <3> HIDE DEF w, start, n, l, m
    <3>2. l \in 1 .. n /\ l <= w /\ n - l = (start - 1) + m /\ (l < w => m > 0 /\ m \in 1 .. w)
      BY <3>1
    <3>3. \A i \in 1 .. l : m + i \in 1 .. w /\ (start - 1) + (m + i) = (n - l) + i
      BY <3>1
    <3> QED
      BY <3>2, <3>3
  <2>6. \A i \in 1 .. l : run[i] = CloseAt(calendar, raw[t], (n - l) + i)
    <3> HIDE DEF slots, l, m, w, start, calendar, n
    <3> QED
      BY <1>5, <2>2, <2>5
  <2>7. l < w => CloseAt(calendar, raw[t], n - l) = None
    <3> HIDE DEF slots, l, m, w, start, calendar, n
    <3> QED
      BY <1>5, <2>2, <2>5
  <2> HIDE DEF w, start, calendar, n, m
  <2> QED
    BY <2>2, <2>5, <2>6, <2>7 DEF run, ByTheEnd, n
<1>8. ASSUME NEW f \in FactorTickers
      PROVE  ByTheEnd(slots(f), calendar, raw[f]) /\ Len(slots(f)) = w
  <2>1. /\ slots(f) \in Seq(Int \cup {None}) /\ Len(slots(f)) = w
        /\ \A i \in 1 .. w : slots(f)[i] = CloseAt(calendar, raw[f], (start - 1) + i)
    <3> HIDE DEF slots, w
    <3> QED
      BY <1>5
  <2>2. Missing(slots(f)) = {}
    BY <1>3
  <2> HIDE DEF slots, w, start, calendar, n
  <2>3. \A i \in 1 .. w : slots(f)[i] # None
    BY <2>1, <2>2 DEF Missing
  <2>4. slots(f) \in Seq(Int)
    BY <2>1, <2>3
  <2>5. \A i \in 1 .. w : slots(f)[i] = CloseAt(calendar, raw[f], (n - w) + i)
    BY <1>6, <2>1
  <2> QED
    BY <1>6, <2>1, <2>4, <2>5 DEF ByTheEnd, n
<1>9. DOMAIN stocks = tickers
  BY DEF StocksFrom
<1> HIDE DEF calendar, start, stocks
<1>10. \A f \in FactorTickers : prices.factors[f] = slots(f)
  BY <1>3
<1>11. DOMAIN prices.factors = FactorTickers
  BY <1>3
<1> HIDE DEF slots
<1>12. ArePrices(prices, calendar, raw, tickers, start)
  BY <1>2, <1>3, <1>4, <1>7, <1>8, <1>9, <1>10, <1>11 DEF ArePrices
<1> QED
  BY <1>12 DEF calendar, start

LEMMA IndicesFinite ==
    ASSUME NEW n \in Nat, NEW S \in SUBSET (1 .. n)
    PROVE  IsFiniteSet(S) /\ S \in SUBSET Int /\ Cardinality(S) \in Nat
<1>1. IsFiniteSet(1 .. n)
  <2>1. 1 \in Int /\ n \in Int
    OBVIOUS
  <2> QED
    BY <2>1, FS_Interval, Zenon
<1>2. IsFiniteSet(S)
  BY <1>1, FS_Subset
<1> QED
  BY <1>2, FS_CardinalityType

\* A series that starts late is read at its own slots.
LEMMA ResampleIs ==
    ASSUME NEW closes \in Seq(Int), NEW slots \in Nat, Len(closes) \in 1 .. slots,
           NEW indices \in SUBSET (1 .. slots), slots \in indices
    PROVE  LET res == Resample(closes, indices, slots)
               own == Ascending(indices)
               d   == Cardinality(indices) - Len(res)
               off == slots - Len(closes)
           IN  /\ res \in Seq(Int) /\ Len(res) \in 1 .. Cardinality(indices)
               /\ \A k \in 1 .. Len(res) : /\ own[d + k] \in off + 1 .. slots
                                           /\ res[k] = closes[own[d + k] - off]
               /\ \A k \in 1 .. d : own[k] \in 1 .. off
<1> DEFINE res == Resample(closes, indices, slots)
           l == Len(closes)
           off == slots - l
           T == indices \ 1 .. off
           own == Ascending(T)
           all == Ascending(indices)
           c == Cardinality(T)
           n == Cardinality(indices)
           d == n - c
<1>1. off \in Nat /\ off < slots /\ l \in Nat /\ off + l = slots
  <2>1. l \in 1 .. slots
    OBVIOUS
  <2> HIDE DEF l
  <2> QED
    BY <2>1
<1>2. T \in SUBSET indices /\ \A t \in T : \A u \in indices \ T : u < t
  <2>1. \A t \in T : t \in 1 .. slots /\ off < t
    <3> HIDE DEF off
    <3> QED
      BY <1>1
  <2>2. \A u \in indices \ T : u \in 1 .. off
    OBVIOUS
  <2> HIDE DEF T, off
  <2>3. \A t \in T : \A u \in indices \ T : u < t
    BY <1>1, <2>1, <2>2
  <2> QED
    BY <2>3 DEF T
<1>3. IsFiniteSet(indices) /\ indices \in SUBSET Int
  BY IndicesFinite
<1>4. /\ n \in Nat /\ c \in 0 .. n
      /\ Len(own) = c /\ DOMAIN own = 1 .. c
      /\ \A k \in 1 .. c : own[k] = all[d + k]
      /\ \A k \in 1 .. d : all[k] \in indices \ T
  <2> HIDE DEF T
  <2> QED
    BY <1>2, <1>3, AscendingTail
<1>5. slots \in T
  <2> HIDE DEF off
  <2> QED
    BY <1>1
<1>6. c # 0
  <2> HIDE DEF T
  <2>1. IsFiniteSet(T)
    BY <1>2, <1>3, FS_Subset
  <2> QED
    BY <1>5, <2>1, FS_EmptySet
<1>7. own \in [1 .. c -> T]
  <2>1. IsFiniteSet(T) /\ T \in SUBSET Int
    <3> HIDE DEF T
    <3> QED
      BY <1>2, <1>3, FS_Subset
  <2> HIDE DEF T
  <2> QED
    BY <2>1, AscendingIn
<1>8. \A k \in 1 .. c : own[k] \in off + 1 .. slots /\ own[k] - off \in 1 .. l
  <2>1. \A t \in T : t \in off + 1 .. slots /\ t - off \in 1 .. l
    <3>1. \A t \in T : t \in 1 .. slots /\ t \notin 1 .. off
      OBVIOUS
    <3> HIDE DEF T, off, l
    <3> QED
      BY <1>1, <3>1
  <2> HIDE DEF T, own, off, l, c
  <2> QED
    BY <1>7, <2>1
<1>9. res = [k \in 1 .. c |-> closes[own[k] - off]]
  <2>1. res = [k \in DOMAIN own |-> closes[own[k] - off]]
    BY DEF Resample
  <2> HIDE DEF res, own, off, c
  <2> QED
    BY <1>4, <2>1
<1>10. res \in Seq(Int) /\ Len(res) = c
  <2>1. \A k \in 1 .. c : closes[own[k] - off] \in Int
    <3> HIDE DEF own, off, c
    <3> QED
      BY <1>8 DEF l
  <2>2. c \in Nat
    <3> HIDE DEF c, n
    <3> QED
      BY <1>4
  <2> HIDE DEF res, own, off, c
  <2>3. res \in [1 .. c -> Int]
    BY <1>9, <2>1
  <2> QED
    BY <2>2, <2>3
<1>11. \A k \in 1 .. d : all[k] \in 1 .. off
  <2>1. indices \ T \subseteq 1 .. off
    OBVIOUS
  <2> HIDE DEF T, all, d, off
  <2> QED
    BY <1>4, <2>1
<1>12. \A k \in 1 .. c : all[d + k] \in off + 1 .. slots /\ res[k] = closes[all[d + k] - off]
  <2> HIDE DEF T, own, all, d, off, c, res
  <2> QED
    BY <1>4, <1>8, <1>9
<1>13. c \in 1 .. n
  <2> HIDE DEF c, n
  <2> QED
    BY <1>4, <1>6
<1> HIDE DEF c, T, own, all, off, res
<1> QED
  BY <1>10, <1>11, <1>12, <1>13 DEF all, off, res

\* The dates of the slots that are kept.
AreDates(dates, calendar, start, indices) ==
    /\ start \in 1 .. Len(calendar)
    /\ indices \in SUBSET (1 .. (Len(calendar) - start) + 1)
    /\ (Len(calendar) - start) + 1 \in indices
    /\ dates = [k \in DOMAIN Ascending(indices) |->
                   SubSeq(calendar, start, Len(calendar))[Ascending(indices)[k]]]

Distinct(calendar) ==
    /\ calendar \in Seq(Nat)
    /\ \A i, j \in 1 .. Len(calendar) : i < j => calendar[i] < calendar[j]

LEMMA DatesAre ==
    ASSUME NEW calendar, Distinct(calendar), NEW start, NEW indices, NEW dates,
           AreDates(dates, calendar, start, indices)
    PROVE  LET own == Ascending(indices)
           IN  /\ dates \in Seq(Nat)
               /\ Len(dates) = Cardinality(indices) /\ Cardinality(indices) \in Nat
               /\ \A k \in 1 .. Len(dates) :
                     /\ own[k] \in 1 .. (Len(calendar) - start) + 1
                     /\ (start - 1) + own[k] \in 1 .. Len(calendar)
                     /\ dates[k] = calendar[(start - 1) + own[k]]
                     /\ PositionOf(calendar, dates[k]) = (start - 1) + own[k]
<1> DEFINE n == Len(calendar)
           w == (n - start) + 1
           own == Ascending(indices)
           c == Cardinality(indices)
           kept == SubSeq(calendar, start, n)
<1>1. n \in Nat /\ start \in 1 .. n /\ w \in Nat /\ indices \in SUBSET (1 .. w)
      /\ DOMAIN calendar = 1 .. n
  BY DEF Distinct, AreDates
<1>2. IsFiniteSet(indices) /\ indices \in SUBSET Int /\ c \in Nat
  BY <1>1, IndicesFinite
<1>3. own \in [1 .. c -> indices]
  BY <1>2, AscendingIn
<1>4. \A i \in 1 .. w : kept[i] = calendar[(start - 1) + i] /\ (start - 1) + i \in 1 .. n
  <2>1. \A i \in 1 .. w : kept[i] = calendar[(start - 1) + i]
    <3>1. start \in 1 .. Len(calendar) + 1 /\ calendar \in Seq(Nat)
      BY <1>1 DEF Distinct
    <3> QED
      BY <3>1, TailIs
  <2>2. \A i \in 1 .. w : (start - 1) + i \in 1 .. n
    <3> HIDE DEF n
    <3> QED
      BY <1>1
  <2> QED
    BY <2>1, <2>2
<1>5. dates = [k \in 1 .. c |-> kept[own[k]]]
  <2>1. dates = [k \in DOMAIN own |-> kept[own[k]]]
    BY DEF AreDates
  <2>2. DOMAIN own = 1 .. c
    BY <1>3
  <2> QED
    BY <2>1, <2>2
<1> HIDE DEF own, kept, c, n, w
<1>6. ASSUME NEW k \in 1 .. c
      PROVE  /\ own[k] \in 1 .. w /\ (start - 1) + own[k] \in 1 .. n
             /\ dates[k] = calendar[(start - 1) + own[k]]
             /\ dates[k] \in Nat
             /\ PositionOf(calendar, dates[k]) = (start - 1) + own[k]
  <2> DEFINE i == (start - 1) + own[k]
  <2>1. own[k] \in 1 .. w
    BY <1>1, <1>3
  <2>2. i \in 1 .. n /\ dates[k] = calendar[i]
    BY <1>4, <1>5, <2>1
  <2> HIDE DEF i
  <2>3. \A j \in 1 .. n : calendar[j] = calendar[i] => j = i
    <3>1. SUFFICES ASSUME NEW j \in 1 .. n, calendar[j] = calendar[i], j # i PROVE FALSE
      OBVIOUS
    <3>2. calendar[i] \in Nat /\ calendar[j] \in Nat /\ (i < j \/ j < i)
      BY <1>1, <2>2, <3>1 DEF Distinct, n
    <3> QED
      BY <2>2, <3>1, <3>2 DEF Distinct, n
  <2>4. PositionOf(calendar, dates[k]) = i
    BY <1>1, <2>2, <2>3 DEF PositionOf
  <2>5. dates[k] \in Nat
    BY <2>2 DEF Distinct, n
  <2> QED
    BY <2>1, <2>2, <2>4, <2>5 DEF i
<1>7. dates \in Seq(Nat) /\ Len(dates) = c
  BY <1>2, <1>5, <1>6
<1> QED
  BY <1>2, <1>6, <1>7 DEF own, n, c, w

\* Resampled closes and their returns.
LEMMA LogReturnsAre ==
    ASSUME NEW closes \in Seq(Int), Len(closes) >= 1
    PROVE  /\ LogReturns(closes) \in Seq(Int)
           /\ Len(LogReturns(closes)) = Len(closes) - 1
           /\ DOMAIN LogReturns(closes) = 1 .. Len(closes) - 1
           /\ \A j \in 1 .. Len(closes) - 1 : LogReturns(closes)[j] = closes[j + 1] - closes[j]
<1>1. Len(closes) - 1 \in Nat
  OBVIOUS
<1>2. \A j \in 1 .. Len(closes) - 1 : closes[j + 1] - closes[j] \in Int
  OBVIOUS
<1> QED
  BY <1>1, <1>2 DEF LogReturns

\* A series that is put on the calendar gives returns of the dates they stand beside.
LEMMA SeriesDated ==
    ASSUME NEW calendar, Distinct(calendar), NEW start, NEW indices,
           AreDates(data.dates, calendar, start, indices),
           NEW series, NEW closes, ByTheEnd(closes, calendar, series),
           NEW slots, slots = (Len(calendar) - start) + 1,
           Len(closes) <= slots,
           Len(closes) < slots => CloseAt(calendar, series, Len(calendar) - Len(closes)) = None,
           NEW returns, returns = LogReturns(Resample(closes, indices, slots))
    PROVE  /\ returns \in Seq(Int) /\ Len(returns) < Len(data.dates)
           /\ DatedRight(calendar, returns, series)
           /\ CutForAReason(calendar, returns, series)
           /\ Len(closes) = slots => Len(returns) = Len(data.dates) - 1
<1> DEFINE n == Len(calendar)
           l == Len(closes)
           own == Ascending(indices)
           res == Resample(closes, indices, slots)
           K == Len(data.dates)
           c == Len(res)
           d == K - c
           off == slots - l
           at(k) == (start - 1) + own[k]
<1>1. /\ n \in Nat /\ start \in 1 .. n /\ slots \in Nat /\ indices \in SUBSET (1 .. slots)
      /\ slots \in indices /\ closes \in Seq(Int) /\ l \in 1 .. slots
      /\ \A i \in 1 .. l : closes[i] = CloseAt(calendar, series, (n - l) + i)
  <2>1. n \in Nat
    BY DEF Distinct
  <2>2. start \in 1 .. n /\ indices \in SUBSET (1 .. slots) /\ slots \in indices
    BY DEF AreDates
  <2>3. closes \in Seq(Int) /\ l \in Nat /\ l # 0
    BY DEF ByTheEnd
  <2>4. \A i \in 1 .. l : closes[i] = CloseAt(calendar, series, (n - l) + i)
    BY DEF ByTheEnd
  <2>5. slots \in Nat
    BY <2>1, <2>2
  <2>6. l \in 1 .. slots
    BY <2>3, <2>5
  <2> QED
    BY <2>1, <2>2, <2>3, <2>4, <2>5, <2>6
<1>2. /\ K = Cardinality(indices) /\ K \in Nat
      /\ \A k \in 1 .. K : own[k] \in 1 .. slots /\ PositionOf(calendar, data.dates[k]) = at(k)
  BY DatesAre
<1>3. /\ res \in Seq(Int) /\ c \in 1 .. K
      /\ \A k \in 1 .. c : own[d + k] \in off + 1 .. slots /\ res[k] = closes[own[d + k] - off]
      /\ \A k \in 1 .. d : own[k] \in 1 .. off
  <2> DEFINE e == Cardinality(indices) - c
  <2>1. slots \in Nat /\ Len(closes) \in 1 .. slots /\ closes \in Seq(Int)
        /\ indices \in SUBSET (1 .. slots) /\ slots \in indices
    BY <1>1
  <2>2. /\ res \in Seq(Int) /\ c \in 1 .. Cardinality(indices)
        /\ \A k \in 1 .. c : own[e + k] \in off + 1 .. slots /\ res[k] = closes[own[e + k] - off]
        /\ \A k \in 1 .. e : own[k] \in 1 .. off
    BY <2>1, ResampleIs
  <2>3. e = d
    BY <1>2
  <2> HIDE DEF e, d, c, off, own, res
  <2> QED
    BY <1>2, <2>2, <2>3
<1>4. /\ returns \in Seq(Int) /\ Len(returns) = c - 1 /\ DOMAIN returns = 1 .. c - 1
      /\ \A j \in 1 .. c - 1 : returns[j] = res[j + 1] - res[j]
  <2>1. c >= 1
    <3> HIDE DEF c, K
    <3> QED
      BY <1>2, <1>3
  <2> HIDE DEF res
  <2> QED
    BY <1>3, <2>1, LogReturnsAre DEF res
<1>5. /\ c \in Nat /\ d \in Nat /\ d + c = K /\ off \in Nat /\ off + l = slots
      /\ n - l = (start - 1) + off /\ l \in Nat
  <2>1. /\ c \in 1 .. K /\ K \in Nat /\ slots = (n - start) + 1 /\ n \in Nat /\ start \in Nat
        /\ l \in 1 .. slots
    BY <1>1, <1>2, <1>3
  <2> HIDE DEF c, K, n, l
  <2> QED
    BY <2>1
<1> HIDE DEF own, res, K, c, l, n
<1>6. ASSUME NEW k \in 1 .. c
      PROVE  /\ d + k \in 1 .. K
             /\ CloseAt(calendar, series, PositionOf(calendar, data.dates[d + k])) = res[k]
             /\ res[k] \in Int
  <2>1. d + k \in 1 .. K
    <3> HIDE DEF d
    <3> QED
      BY <1>5
  <2>2. own[d + k] \in off + 1 .. slots
    BY <1>3
  <2> DEFINE o == own[d + k]
  <2>3. o - off \in 1 .. l /\ (n - l) + (o - off) = (start - 1) + o
    <3>1. o \in off + 1 .. slots
      BY <2>2
    <3>2. start \in Int
      BY <1>1
    <3> HIDE DEF o, off
    <3> QED
      BY <1>5, <3>1, <3>2
  <2>4. closes[o - off] = CloseAt(calendar, series, at(d + k))
    <3> HIDE DEF off, d
    <3> QED
      BY <1>1, <2>3
  <2>5. PositionOf(calendar, data.dates[d + k]) = at(d + k)
    <3> HIDE DEF at, d
    <3> QED
      BY <1>2, <2>1
  <2>6. res[k] = closes[o - off]
    <3> HIDE DEF off, d
    <3> QED
      BY <1>3
  <2>7. res[k] \in Int
    <3> HIDE DEF d, off
    <3> QED
      BY <1>3 DEF c
  <2> HIDE DEF o, at, d, off
  <2> QED
    BY <2>1, <2>4, <2>5, <2>6, <2>7
<1>7. DatedRight(calendar, returns, series)
  <2>1. SUFFICES ASSUME NEW j \in DOMAIN returns, NEW k, k = K - Len(returns) + j
        PROVE  /\ None \notin {CloseAt(calendar, series, PositionOf(calendar, data.dates[k])),
                               CloseAt(calendar, series, PositionOf(calendar, data.dates[k - 1]))}
               /\ returns[j] = CloseAt(calendar, series, PositionOf(calendar, data.dates[k]))
                     - CloseAt(calendar, series, PositionOf(calendar, data.dates[k - 1]))
    BY DEF DatedRight, K
  <2>2. j \in 1 .. c /\ j + 1 \in 1 .. c /\ k = d + (j + 1) /\ k - 1 = d + j
    <3>1. j \in 1 .. c - 1 /\ k = K - (c - 1) + j
      BY <1>4, <2>1
    <3>2. c \in Nat /\ d \in Nat /\ d + c = K
      BY <1>5
    <3> HIDE DEF d
    <3>3. j \in 1 .. c /\ j + 1 \in 1 .. c
      BY <3>1, <3>2
    <3>4. k = d + (j + 1) /\ k - 1 = d + j
      BY <3>1, <3>2
    <3> QED
      BY <3>3, <3>4
  <2>3. /\ CloseAt(calendar, series, PositionOf(calendar, data.dates[k])) = res[j + 1]
        /\ CloseAt(calendar, series, PositionOf(calendar, data.dates[k - 1])) = res[j]
        /\ res[j] \in Int /\ res[j + 1] \in Int
    <3> HIDE DEF d
    <3> QED
      BY <1>6, <2>2
  <2>4. None \notin Int
    BY AlignmentAssumption
  <2>5. returns[j] = res[j + 1] - res[j]
    BY <1>4, <2>1
  <2> QED
    BY <2>3, <2>4, <2>5
<1>8. CutForAReason(calendar, returns, series)
  <2>1. SUFFICES ASSUME NEW first, first = K - Len(returns), first > 1
        PROVE  \E i \in PositionOf(calendar, data.dates[first - 1])
                          .. PositionOf(calendar, data.dates[first]) - 1 :
                  CloseAt(calendar, series, i) = None
    BY DEF CutForAReason, K
  <2>2. first = d + 1 /\ first - 1 = d /\ d \in 1 .. d /\ d \in 1 .. K /\ d + 1 \in 1 .. K
        /\ 1 \in 1 .. c
    <3>1. first = K - (c - 1) /\ first > 1 /\ c >= 1
      BY <1>3, <1>4, <2>1
    <3> HIDE DEF d
    <3> QED
      BY <1>5, <3>1
  <2>3. own[d] \in 1 .. off /\ own[d + 1] \in off + 1 .. slots
    <3> HIDE DEF d, off
    <3> QED
      BY <1>3, <2>2
  <2>4. /\ PositionOf(calendar, data.dates[first - 1]) = at(d)
        /\ PositionOf(calendar, data.dates[first]) = at(d + 1)
    <3> HIDE DEF d, at
    <3> QED
      BY <1>2, <2>2
  <2>5. n - l \in at(d) .. at(d + 1) - 1 /\ l < slots
    <3> DEFINE p == own[d]
               q == own[d + 1]
    <3>1. p \in 1 .. off /\ q \in off + 1 .. slots /\ start \in Int
      BY <1>1, <2>3
    <3> HIDE DEF p, q, off, d
    <3>2. n - l \in (start - 1) + p .. ((start - 1) + q) - 1 /\ l < slots
      BY <1>1, <1>5, <3>1
    <3> QED
      BY <3>2 DEF p, q
  <2>6. CloseAt(calendar, series, n - l) = None
    BY <2>5 DEF n, l
  <2> HIDE DEF at, d
  <2> QED
    BY <2>4, <2>5, <2>6
<1>9. Len(returns) < K
  <2> HIDE DEF d
  <2> QED
    BY <1>4, <1>5
<1>10. ASSUME l = slots PROVE Len(returns) = K - 1
  <2>1. off = 0
    BY <1>5, <1>10
  <2>2. d = 0
    <3>1. ASSUME d # 0 PROVE FALSE
      <4>1. d \in 1 .. d
        <5> HIDE DEF d
        <5> QED
          BY <1>5, <3>1
      <4>2. own[d] \in 1 .. off
        <5> HIDE DEF d, off
        <5> QED
          BY <1>3, <4>1
      <4> QED
        BY <2>1, <4>2
    <3> QED
      BY <3>1
  <2> HIDE DEF d
  <2> QED
    BY <1>4, <1>5, <2>2
<1> QED
  BY <1>4, <1>7, <1>8, <1>9, <1>10 DEF K, l

LEMMA CalendarDistinct ==
    ASSUME NEW series, IsSeries(series)
    PROVE  Distinct(Calendar(series))
<1> DEFINE S == DOMAIN series
           calendar == Ascending(S)
<1>1. S \in SUBSET Int /\ IsFiniteSet(S)
  BY DEF IsSeries
<1>2. calendar \in Seq(Nat) /\ Len(calendar) = Cardinality(S)
  <2>1. calendar \in Seq(S) /\ Len(calendar) = Cardinality(S)
    <3> HIDE DEF S
    <3> QED
      BY <1>1, AscendingSeq
  <2>2. calendar \in Seq(Nat)
    BY CalendarIn DEF Calendar
  <2> QED
    BY <2>1, <2>2
<1>3. \A i, j \in 1 .. Cardinality(S) : i < j => calendar[i] < calendar[j]
  <2> HIDE DEF S
  <2> QED
    BY <1>1, AscendingAt
<1> HIDE DEF S, calendar
<1> QED
  BY <1>2, <1>3 DEF Distinct, Calendar, S, calendar

Kept(prices, frequency) ==
    IF frequency = "weekly" THEN WeeklyResampleIndices(prices.dates) ELSE 1 .. Len(prices.dates)

ReturnsFrom(closes, prices, frequency) ==
    LogReturns(Resample(closes, Kept(prices, frequency), Len(prices.dates)))

\* The definition in these words.
LEMMA ToReturnsIs ==
    ASSUME NEW prices, NEW frequency
    PROVE  LET md == ToReturns(prices, frequency)
               own == Ascending(Kept(prices, frequency))
               market == ReturnsFrom(prices.factors["MARKET"], prices, frequency)
               bank == ReturnsFrom(prices.factors["BANK"], prices, frequency)
           IN  /\ md.dates = [k \in DOMAIN own |-> prices.dates[own[k]]]
               /\ md.stocks = [t \in DOMAIN prices.stocks |->
                                  ReturnsFrom(prices.stocks[t], prices, frequency)]
               /\ md.factors["RATES_PROXY"] = [i \in DOMAIN market |-> bank[i] - market[i]]
               /\ \A f \in FactorTickers \ {"BANK"} :
                     md.factors[f] = ReturnsFrom(prices.factors[f], prices, frequency)
<1> DEFINE md == ToReturns(prices, frequency)
           own == Ascending(Kept(prices, frequency))
           at(closes) == ReturnsFrom(closes, prices, frequency)
           market == at(prices.factors["MARKET"])
           bank == at(prices.factors["BANK"])
           names == {FactorNames[k] : k \in DOMAIN FactorNames}
           dates == [k \in DOMAIN own |-> prices.dates[own[k]]]
           stocks == [t \in DOMAIN prices.stocks |-> at(prices.stocks[t])]
           rates == [i \in DOMAIN market |-> bank[i] - market[i]]
           factors == [f \in names |-> IF f = "RATES_PROXY" THEN rates ELSE at(prices.factors[f])]
<1>1. md = [outcome |-> "ok", dates |-> dates, stocks |-> stocks, factors |-> factors]
  BY DEF ToReturns, ReturnsFrom, Kept
<1>2. /\ "RATES_PROXY" \in names
      /\ \A f \in FactorTickers \ {"BANK"} : f \in names /\ f # "RATES_PROXY"
  <2>1. /\ DOMAIN FactorNames = 1 .. 5
        /\ FactorNames[1] = "MARKET" /\ FactorNames[2] = "USDINR" /\ FactorNames[3] = "BRENT"
        /\ FactorNames[4] = "GOLD_USD" /\ FactorNames[5] = "RATES_PROXY"
    BY DEF FactorNames
  <2>2. 1 \in 1 .. 5 /\ 2 \in 1 .. 5 /\ 3 \in 1 .. 5 /\ 4 \in 1 .. 5 /\ 5 \in 1 .. 5
    OBVIOUS
  <2>3. {"MARKET", "USDINR", "BRENT", "GOLD_USD", "RATES_PROXY"} \subseteq names
    BY <2>1, <2>2
  <2>4. FactorTickers \ {"BANK"} = {"MARKET", "USDINR", "BRENT", "GOLD_USD"}
    BY DEF FactorTickers
  <2> HIDE DEF names
  <2> QED
    BY <2>3, <2>4
<1>3. md.dates = dates /\ md.stocks = stocks /\ md.factors = factors
  <2> HIDE DEF md, dates, stocks, factors
  <2> QED
    BY <1>1
<1>4. factors["RATES_PROXY"] = rates
      /\ \A f \in FactorTickers \ {"BANK"} : factors[f] = at(prices.factors[f])
  <2> HIDE DEF names, rates, at
  <2> QED
    BY <1>2
<1> HIDE DEF factors, md, names
<1> QED
  BY <1>3, <1>4 DEF md

\* What is loaded: dates in order, and for each series the returns of a tail of them.
IsTable(md, tickers) ==
    /\ md.dates \in Seq(Nat) /\ Len(md.dates) \in Nat \ {0}
    /\ \A i, j \in 1 .. Len(md.dates) : i < j => md.dates[i] < md.dates[j]
    /\ DOMAIN md.stocks = tickers
    /\ \A t \in tickers :
          md.stocks[t] \in Seq(Int) /\ Len(md.stocks[t]) < Len(md.dates)
    /\ \A f \in FactorTickers \ {"BANK"} :
          md.factors[f] \in Seq(Int) /\ Len(md.factors[f]) = Len(md.dates) - 1

\* The loaded returns, for any raw prices.
LEMMA LoadedIsAligned ==
    ASSUME NEW raw, Series(raw, TickersOf(Portfolio)),
           data = LoadMarketData(raw, TickersOf(Portfolio), FrequencyOf(Request)),
           data.outcome = "ok"
    PROVE  /\ AlignedRight(raw, Calendar(raw["MARKET"]))
           /\ IsTable(data, TickersOf(Portfolio))
<1> DEFINE tickers == TickersOf(Portfolio)
           frequency == FrequencyOf(Request)
           prices == LoadAlignedPrices(raw, tickers)
           calendar == Calendar(raw["MARKET"])
           n == Len(calendar)
           start == Start(calendar, raw, tickers)
           slots == Len(prices.dates)
           indices == Kept(prices, frequency)
           own == Ascending(indices)
           given == [i \in DOMAIN data.factors["MARKET"] |->
                       data.factors["RATES_PROXY"][i] + data.factors["MARKET"][i]]
<1>1. prices.outcome = "ok" /\ data = ToReturns(prices, frequency)
  <2> HIDE DEF prices
  <2> QED
    BY DEF LoadMarketData, prices
<1>2. Distinct(calendar) /\ calendar \in Seq(Nat) /\ n \in Nat
  <2>1. IsSeries(raw["MARKET"])
    BY DEF Series, FactorTickers
  <2> QED
    BY <2>1, CalendarDistinct DEF Distinct
<1>3. ArePrices(prices, calendar, raw, tickers, start)
  <2> HIDE DEF tickers
  <2> QED
    BY <1>1, PricesAre DEF tickers
<1>4. /\ data.dates = [k \in DOMAIN own |-> prices.dates[own[k]]]
      /\ data.stocks = [t \in DOMAIN prices.stocks |->
                           ReturnsFrom(prices.stocks[t], prices, frequency)]
      /\ \A f \in FactorTickers \ {"BANK"} :
            data.factors[f] = ReturnsFrom(prices.factors[f], prices, frequency)
      /\ data.factors["RATES_PROXY"]
         = [i \in DOMAIN ReturnsFrom(prices.factors["MARKET"], prices, frequency) |->
              ReturnsFrom(prices.factors["BANK"], prices, frequency)[i]
                - ReturnsFrom(prices.factors["MARKET"], prices, frequency)[i]]
  <2> HIDE DEF prices, frequency
  <2> QED
    BY <1>1, ToReturnsIs
<1> HIDE DEF prices, frequency, tickers, calendar, start
<1>5. /\ start \in 1 .. n
      /\ prices.dates \in Seq(Nat) /\ slots = (n - start) + 1 /\ slots \in Nat \ {0}
      /\ \A i \in 1 .. slots : prices.dates[i] = calendar[(start - 1) + i]
  <2>1. start \in 1 .. n /\ prices.dates = SubSeq(calendar, start, n) /\ start \in 1 .. n + 1
    BY <1>2, <1>3 DEF ArePrices
  <2>2. /\ SubSeq(calendar, start, n) \in Seq(Nat)
        /\ Len(SubSeq(calendar, start, n)) = (n - start) + 1
        /\ \A i \in 1 .. (n - start) + 1 : SubSeq(calendar, start, n)[i] = calendar[(start - 1) + i]
    BY <1>2, <2>1, TailIs
  <2> HIDE DEF n
  <2> QED
    BY <1>2, <2>1, <2>2
<1>6. /\ indices \in SUBSET (1 .. slots) /\ slots \in indices
      /\ \A i \in 1 .. slots : i \in indices <=>
            (frequency # "weekly" \/ i = slots
               \/ Week(prices.dates[i + 1]) # Week(prices.dates[i]))
  <2>1. DOMAIN prices.dates = 1 .. slots
    BY <1>5
  <2> HIDE DEF slots
  <2> QED
    BY <1>5, <2>1 DEF Kept, WeeklyResampleIndices, slots
<1> HIDE DEF indices
<1>7. AreDates(data.dates, calendar, start, indices)
  <2>1. prices.dates = SubSeq(calendar, start, n)
    BY <1>3 DEF ArePrices
  <2> QED
    BY <1>4, <1>5, <1>6, <2>1 DEF AreDates
\* Every series that was put on the calendar.
<1>8. ASSUME NEW closes, NEW series, ByTheEnd(closes, calendar, series), Len(closes) <= slots,
             Len(closes) < slots => CloseAt(calendar, series, n - Len(closes)) = None
      PROVE  LET returns == ReturnsFrom(closes, prices, frequency)
             IN  /\ returns \in Seq(Int) /\ Len(returns) < Len(data.dates)
                 /\ DatedRight(calendar, returns, series)
                 /\ CutForAReason(calendar, returns, series)
                 /\ Len(closes) = slots => Len(returns) = Len(data.dates) - 1
  <2> DEFINE returns == ReturnsFrom(closes, prices, frequency)
  <2>1. returns = LogReturns(Resample(closes, indices, slots))
    BY DEF ReturnsFrom, indices
  <2>2. Distinct(calendar) /\ slots = (Len(calendar) - start) + 1
    BY <1>2, <1>5
  <2>3. /\ ByTheEnd(closes, calendar, series) /\ Len(closes) <= slots
        /\ Len(closes) < slots => CloseAt(calendar, series, Len(calendar) - Len(closes)) = None
    BY <1>8
  <2> HIDE DEF slots, returns, n
  <2>4. /\ returns \in Seq(Int) /\ Len(returns) < Len(data.dates)
        /\ DatedRight(calendar, returns, series)
        /\ CutForAReason(calendar, returns, series)
        /\ Len(closes) = slots => Len(returns) = Len(data.dates) - 1
    BY <1>7, <2>1, <2>2, <2>3, SeriesDated
  <2> QED
    BY <2>4 DEF returns
<1>9. ASSUME NEW t \in DOMAIN data.stocks
      PROVE  /\ data.stocks[t] \in Seq(Int) /\ Len(data.stocks[t]) < Len(data.dates)
             /\ DatedRight(calendar, data.stocks[t], raw[t])
             /\ CutForAReason(calendar, data.stocks[t], raw[t])
  <2>1. DOMAIN prices.stocks = tickers /\ t \in tickers
        /\ data.stocks[t] = ReturnsFrom(prices.stocks[t], prices, frequency)
    BY <1>3, <1>4 DEF ArePrices
  <2>2. /\ ByTheEnd(prices.stocks[t], calendar, raw[t])
        /\ Len(prices.stocks[t]) <= slots
        /\ Len(prices.stocks[t]) < slots =>
              CloseAt(calendar, raw[t], n - Len(prices.stocks[t])) = None
    BY <1>3, <1>5, <2>1 DEF ArePrices
  <2> HIDE DEF slots, n
  <2> QED
    BY <1>8, <2>1, <2>2
<1>10. ASSUME NEW f \in FactorTickers
       PROVE  LET returns == ReturnsFrom(prices.factors[f], prices, frequency)
              IN  /\ returns \in Seq(Int)
                  /\ DatedRight(calendar, returns, raw[f])
                  /\ Len(returns) = Len(data.dates) - 1
  <2>1. ByTheEnd(prices.factors[f], calendar, raw[f]) /\ Len(prices.factors[f]) = slots
    BY <1>3, <1>5 DEF ArePrices
  <2>2. Len(prices.factors[f]) <= slots /\ ~(Len(prices.factors[f]) < slots)
    <3> HIDE DEF slots
    <3> QED
      BY <1>5, <2>1
  <2> HIDE DEF slots, n
  <2> QED
    BY <1>8, <2>1, <2>2
<1>11. /\ \A f \in FactorTickers \ {"BANK"} :
            /\ data.factors[f] \in Seq(Int) /\ Len(data.factors[f]) = Len(data.dates) - 1
            /\ DatedRight(calendar, data.factors[f], raw[f])
  BY <1>4, <1>10
<1>12. DatedRight(calendar, given, raw["BANK"])
  <2> DEFINE market == ReturnsFrom(prices.factors["MARKET"], prices, frequency)
             bank == ReturnsFrom(prices.factors["BANK"], prices, frequency)
  <2>1. "MARKET" \in FactorTickers \ {"BANK"} /\ "BANK" \in FactorTickers
        /\ "MARKET" \in FactorTickers
    BY DEF FactorTickers
  <2>2. /\ market \in Seq(Int) /\ bank \in Seq(Int) /\ Len(bank) = Len(market)
        /\ DatedRight(calendar, bank, raw["BANK"])
    <3>1. Len(market) = Len(data.dates) - 1 /\ Len(bank) = Len(data.dates) - 1
          /\ market \in Seq(Int) /\ bank \in Seq(Int)
          /\ DatedRight(calendar, bank, raw["BANK"])
      BY <1>10, <2>1
    <3> HIDE DEF market, bank
    <3> QED
      BY <3>1
  <2>3. data.factors["MARKET"] = market
        /\ data.factors["RATES_PROXY"] = [i \in DOMAIN market |-> bank[i] - market[i]]
    BY <1>4, <2>1
  <2> HIDE DEF market, bank
  <2>4. given = bank
    <3>1. DOMAIN market = 1 .. Len(market) /\ DOMAIN bank = DOMAIN market
      BY <2>2
    <3>2. \A i \in DOMAIN market : (bank[i] - market[i]) + market[i] = bank[i]
      BY <2>2, <3>1
    <3>3. given = [i \in DOMAIN market |-> bank[i]]
      BY <2>3, <3>2
    <3>4. bank = [i \in DOMAIN bank |-> bank[i]]
      BY <2>2
    <3> QED
      BY <3>1, <3>3, <3>4
  <2> HIDE DEF given
  <2> QED
    BY <2>2, <2>4
<1>13. ASSUME NEW i \in DOMAIN calendar, Known(calendar, raw, i),
              frequency = "daily" \/ i = n \/ Week(calendar[i + 1]) # Week(calendar[i])
       PROVE  \E k \in DOMAIN data.dates : data.dates[k] = calendar[i]
  <2> DEFINE j == i - (start - 1)
  <2>1. i \in 1 .. n /\ start <= i
    BY <1>2, <1>3, <1>13 DEF ArePrices
  <2>2. j \in 1 .. slots /\ (start - 1) + j = i /\ (i = n => j = slots)
        /\ (j # slots => j + 1 \in 1 .. slots /\ (start - 1) + (j + 1) = i + 1)
    <3>1. start \in Int /\ n \in Int /\ i \in Int
      BY <1>2, <1>5, <2>1
    <3> HIDE DEF slots, n
    <3> QED
      BY <1>5, <2>1, <3>1
  <2> HIDE DEF j
  <2>3. j \in indices
    <3>1. frequency = "daily" => frequency # "weekly"
      OBVIOUS
    <3>2. ASSUME j # slots, i # n, Week(calendar[i + 1]) # Week(calendar[i])
          PROVE  Week(prices.dates[j + 1]) # Week(prices.dates[j])
      BY <1>5, <2>2, <3>2
    <3> HIDE DEF slots, n
    <3> QED
      BY <1>6, <1>13, <2>2, <3>1, <3>2
  <2>4. IsFiniteSet(indices) /\ indices \in SUBSET Int
    <3> HIDE DEF slots
    <3> QED
      BY <1>5, <1>6, IndicesFinite
  <2>5. PICK k \in 1 .. Cardinality(indices) : own[k] = j
    BY <2>3, <2>4, AscendingAt
  <2>6. k \in DOMAIN own
    <3>1. own \in [1 .. Cardinality(indices) -> indices]
      BY <2>4, AscendingIn
    <3> QED
      BY <3>1
  <2>7. k \in DOMAIN data.dates /\ data.dates[k] = prices.dates[j]
    <3> HIDE DEF own
    <3> QED
      BY <1>4, <2>5, <2>6
  <2> QED
    BY <1>5, <2>2, <2>7
<1>14. IsTable(data, tickers)
  <2> DEFINE dates == data.dates
             c == Cardinality(indices)
  <2>1. /\ dates \in Seq(Nat) /\ Len(dates) = c
        /\ \A k \in 1 .. Len(dates) :
              /\ (start - 1) + own[k] \in 1 .. Len(calendar)
              /\ dates[k] = calendar[(start - 1) + own[k]]
    <3> HIDE DEF own
    <3> QED
      BY <1>2, <1>7, DatesAre DEF own
  <2>2. /\ IsFiniteSet(indices) /\ indices \in SUBSET Int /\ slots \in indices
        /\ own \in [1 .. c -> indices]
        /\ \A i, j \in 1 .. c : i < j => own[i] < own[j]
    <3>1. IsFiniteSet(indices) /\ indices \in SUBSET Int
      <4> HIDE DEF slots
      <4> QED
        BY <1>5, <1>6, IndicesFinite
    <3> HIDE DEF slots
    <3> QED
      BY <1>6, <3>1, AscendingIn, AscendingAt
  <2>3. Len(dates) \in Nat \ {0}
    <3>1. c \in Nat /\ c # 0
      BY <2>2, FS_CardinalityType, FS_EmptySet
    <3> HIDE DEF c, dates
    <3> QED
      BY <2>1, <3>1
  <2>4. \A i, j \in 1 .. Len(dates) : i < j => dates[i] < dates[j]
    <3>1. SUFFICES ASSUME NEW i \in 1 .. Len(dates), NEW j \in 1 .. Len(dates), i < j
                   PROVE  dates[i] < dates[j]
      OBVIOUS
    <3>2. own[i] < own[j] /\ own[i] \in Int /\ own[j] \in Int
      <4> HIDE DEF own, c, dates
      <4> QED
        BY <2>1, <2>2, <3>1
    <3>3. (start - 1) + own[i] < (start - 1) + own[j]
      <4> HIDE DEF own
      <4> QED
        BY <1>5, <3>2
    <3>4. /\ (start - 1) + own[i] \in 1 .. Len(calendar)
          /\ (start - 1) + own[j] \in 1 .. Len(calendar)
          /\ dates[i] = calendar[(start - 1) + own[i]]
          /\ dates[j] = calendar[(start - 1) + own[j]]
      <4> HIDE DEF own, dates
      <4> QED
        BY <2>1
    <3> HIDE DEF own, dates
    <3> QED
      BY <1>2, <3>3, <3>4 DEF Distinct
  <2>5. DOMAIN data.stocks = tickers
    BY <1>3, <1>4 DEF ArePrices
  <2> QED
    BY <1>9, <1>11, <2>1, <2>3, <2>4, <2>5 DEF IsTable
<1> HIDE DEF n, given
<1> QED
  BY <1>9, <1>11, <1>12, <1>13, <1>14 DEF AlignedRight, Known, calendar, frequency, n, given, tickers

LEMMA SeriesOf ==
    ASSUME NEW r \in Requests
    PROVE  Series(Markets[r.market].raw, TickersOf(r.portfolio))
<1>1. IsRequest(r) /\ r.market \in DOMAIN Markets
  BY SessionsAssumption DEF IsRequest
<1>2. /\ FactorTickers \cup Stocks(r.market) \subseteq DOMAIN Markets[r.market].raw
      /\ \A s \in DOMAIN Markets[r.market].raw : IsSeries(Markets[r.market].raw[s])
  BY <1>1, MarketsAssumption
<1>3. TickersOf(r.portfolio) \subseteq Stocks(r.market)
  <2>1. r.portfolio.tickers \in Seq(Stocks(r.market))
    BY <1>1 DEF IsRequest
  <2> QED
    BY <2>1 DEF TickersOf, Holdings
<1> QED
  BY <1>2, <1>3 DEF Series

LEMMA RunInvDates == RunInv => ReturnsDatedRight
<1>1. SUFFICES ASSUME RunInv, stage = "loaded"
               PROVE  AlignedRight(World.raw, Calendar(World.raw["MARKET"]))
  BY DEF ReturnsDatedRight
<1>2. data = LoadedFor(Request) /\ data.outcome = "ok" /\ Request \in Requests
  BY <1>1, RequestIn DEF RunInv, DataHeld, Loaded
<1>3. Series(World.raw, TickersOf(Portfolio))
  BY <1>2, SeriesOf DEF World, Portfolio
<1> QED
  BY <1>2, <1>3, LoadedIsAligned DEF LoadedFor, World, Portfolio

\* The returns that are loaded belong to the dates they stand beside, whatever gaps a
\* series has, at either frequency: the walk of align_to_calendar, the trim to the first
\* day all factors have, what is cut off a holding, and the weeks.
THEOREM ReturnsDatedAlways == Spec => []ReturnsDatedRight
BY RunInvAlways, RunInvDates, PTL

(***************************************************************************)
(* The labels of the days                                                  *)
(***************************************************************************)
LEMMA FirstHighestIn ==
    ASSUME NEW value \in [States -> Int]
    PROVE  FirstHighest(value) \in States
<1>1. LastHighest(value) \in Highest(value)
  BY LastHighestIn DEF Highest
<1>2. Highest(value) \in SUBSET States /\ Highest(value) \in SUBSET Nat
  BY StatesAre DEF Highest
<1> QED
  BY <1>1, <1>2, MinIs DEF FirstHighest

\* Every place of the order is that of one state, so every state has a rank.
LEMMA RankIn ==
    ASSUME NEW hmm, NEW moves, IsFit(hmm, moves), NEW old \in States
    PROVE  Rank(VarianceOrder(hmm))[old] \in States
<1> DEFINE order == VarianceOrder(hmm)
           rank == [o \in States |-> CHOOSE new \in States : order[new] = o]
<1>1. \A new \in States : order[new] \in States /\ Cardinality(Ahead(hmm, order[new])) = new - 1
  BY OrderIn
<1> HIDE DEF order
<1>2. \A a, b \in States : order[a] = order[b] => a = b
  BY <1>1, StatesAre
<1>3. \A o \in States : \E new \in States : order[new] = o
  <2>1. /\ order[1] \in {1, 2, 3} /\ order[2] \in {1, 2, 3} /\ order[3] \in {1, 2, 3}
        /\ order[1] # order[2] /\ order[1] # order[3] /\ order[2] # order[3]
    BY <1>1, <1>2, StatesAre
  <2>2. \A o \in {1, 2, 3} : order[1] = o \/ order[2] = o \/ order[3] = o
    BY <2>1
  <2> QED
    BY <2>2, StatesAre
<1>4. rank \in [States -> States]
  BY <1>3
<1>5. ByState(rank) = rank
  <2> HIDE DEF rank
  <2> QED
    BY <1>4, ByStateIs
<1>6. Rank(order)[old] = rank[old]
  BY <1>5 DEF Rank
<1> HIDE DEF rank
<1> QED
  BY <1>4, <1>6 DEF order

\* What viterbi holds after a day.
Scores == [States -> Int]
Scored == [delta : Scores, psi : [States -> States]]

PassStart(hmm, observed) ==
    [delta |-> ByState([k \in States |->
                  LogWeight[hmm.initial[k]] + LogWeight[hmm.density[k][observed[1]]]]),
     psi   |-> ByState([k \in States |-> 1])]

Reach(hmm, before) ==
    ByState([k \in States |-> ByState([j \in States |->
                before[j] + LogWeight[hmm.transition[j][k]]])])

PassBody(hmm, observed, t, before) ==
    LET reach == Reach(hmm, before)
        psi   == ByState([k \in States |-> FirstHighest(reach[k])])
    IN  [delta |-> ByState([k \in States |->
             AtLeast(reach[k][psi[k]], LnFloor) + LogWeight[hmm.density[k][observed[t]]]]),
         psi   |-> psi]

PassWalk(hmm, observed, pass) ==
    pass = [t \in 1 .. Len(observed) |->
               IF t = 1 THEN PassStart(hmm, observed)
               ELSE PassBody(hmm, observed, t, pass[t - 1].delta)]

LEMMA ViterbiIsWalk ==
    ASSUME NEW hmm, NEW observed
    PROVE  Viterbi(hmm, observed)
           = Backtrack(CHOOSE pass : PassWalk(hmm, observed, pass), Len(observed))
BY DEF Viterbi, PassWalk, PassStart, PassBody, Reach

\* The weights of a fit have logarithms.
LEMMA LogsIn ==
    ASSUME NEW hmm, NEW moves, IsFit(hmm, moves), NEW k \in States
    PROVE  /\ LogWeight[hmm.initial[k]] \in Int
           /\ \A j \in States : LogWeight[hmm.transition[j][k]] \in Int
           /\ \A move \in moves : LogWeight[hmm.density[k][move]] \in Int
<1>1. \A weight \in Likelihoods : LogWeight[weight] \in Int
  BY RegimeAssumption DEF Likelihoods
<1>2. /\ hmm.initial[k] \in Likelihoods
      /\ \A j \in States : hmm.transition[j][k] \in Likelihoods
      /\ \A move \in moves : hmm.density[k][move] \in Likelihoods
  BY DEF IsFit
<1> QED
  BY <1>1, <1>2

LEMMA PassStartIn ==
    ASSUME NEW hmm, NEW observed, NEW moves, Observation(hmm, observed, moves)
    PROVE  PassStart(hmm, observed) \in Scored
<1> DEFINE f == [k \in States |->
                   LogWeight[hmm.initial[k]] + LogWeight[hmm.density[k][observed[1]]]]
           g == [k \in States |-> 1]
<1>1. observed[1] \in moves /\ IsFit(hmm, moves)
  <2>1. 1 \in 1 .. Len(observed)
    BY DEF Observation
  <2> QED
    BY <2>1 DEF Observation
<1>2. f \in [States -> Int]
  BY <1>1, LogsIn
<1>3. g \in [States -> States]
  BY StatesAre
<1> HIDE DEF f, g
<1>4. ByState(f) = f /\ ByState(g) = g
  BY <1>2, <1>3, ByStateIs
<1>5. PassStart(hmm, observed) = [delta |-> ByState(f), psi |-> ByState(g)]
  BY DEF PassStart, f, g
<1> QED
  BY <1>2, <1>3, <1>4, <1>5 DEF Scored, Scores

LEMMA PassBodyIn ==
    ASSUME NEW hmm, NEW observed, NEW moves, Observation(hmm, observed, moves),
           NEW t \in 1 .. Len(observed), NEW before \in Scores
    PROVE  PassBody(hmm, observed, t, before) \in Scored
<1> DEFINE row(k) == [j \in States |-> before[j] + LogWeight[hmm.transition[j][k]]]
           rows == [k \in States |-> ByState(row(k))]
           reach == Reach(hmm, before)
           g == [k \in States |-> FirstHighest(reach[k])]
           psi == ByState(g)
           f == [k \in States |-> AtLeast(reach[k][psi[k]], LnFloor)
                                     + LogWeight[hmm.density[k][observed[t]]]]
<1>1. observed[t] \in moves /\ IsFit(hmm, moves)
  BY DEF Observation
<1>2. reach \in [States -> [States -> Int]]
  <2>1. \A k \in States : row(k) \in [States -> Int]
    BY <1>1, LogsIn DEF Scores
  <2> HIDE DEF row
  <2>2. \A k \in States : ByState(row(k)) = row(k)
    BY <2>1, ByStateIs
  <2>3. rows \in [States -> [States -> Int]]
    BY <2>1, <2>2
  <2> HIDE DEF rows
  <2>4. ByState(rows) = rows
    BY <2>3, ByStateIs
  <2>5. reach = ByState(rows)
    BY DEF Reach, rows, row
  <2> QED
    BY <2>3, <2>4, <2>5
<1> HIDE DEF reach
<1>3. g \in [States -> States]
  BY <1>2, FirstHighestIn
<1> HIDE DEF g
<1>4. psi \in [States -> States]
  BY <1>3, ByStateIs
<1>5. PassBody(hmm, observed, t, before) = [delta |-> ByState(f), psi |-> psi]
  BY DEF PassBody, reach, g
<1> HIDE DEF psi
<1>6. f \in [States -> Int]
  <2>1. ASSUME NEW k \in States PROVE f[k] \in Int
    <3>1. reach[k][psi[k]] \in Int /\ LnFloor \in Int
      BY <1>2, <1>4, RegimeAssumption
    <3>2. AtLeast(reach[k][psi[k]], LnFloor) \in Int
      BY <3>1 DEF AtLeast
    <3>3. LogWeight[hmm.density[k][observed[t]]] \in Int
      BY <1>1, LogsIn
    <3> QED
      BY <3>2, <3>3
  <2> QED
    BY <2>1
<1> HIDE DEF f
<1>7. ByState(f) = f
  BY <1>6, ByStateIs
<1> QED
  BY <1>4, <1>5, <1>6, <1>7 DEF Scored, Scores

LEMMA PassIn ==
    ASSUME NEW hmm, NEW observed, NEW moves, Observation(hmm, observed, moves)
    PROVE  LET pass == CHOOSE p : PassWalk(hmm, observed, p)
           IN  \A t \in 1 .. Len(observed) :
                  /\ pass[t] \in Scored
                  /\ pass[t] = IF t = 1 THEN PassStart(hmm, observed)
                               ELSE PassBody(hmm, observed, t, pass[t - 1].delta)
<1> DEFINE n == Len(observed)
           chosen == CHOOSE p : PassWalk(hmm, observed, p)
           start == PassStart(hmm, observed)
           next(t, v) == PassBody(hmm, observed, t, v.delta)
           step == [p \in (2 .. n) \X Scored |-> next(p[1], p[2])]
<1>1. n \in Nat \ {0} /\ 1 \in 1 .. n
  BY DEF Observation
<1>2. start \in Scored
  BY PassStartIn
<1>3. /\ step \in [(2 .. n) \X Scored -> Scored]
      /\ \A t \in 2 .. n : \A v \in Scored : step[<<t, v>>] = next(t, v)
  <2>1. ASSUME NEW t \in 2 .. n, NEW v \in Scored PROVE next(t, v) \in Scored
    <3>1. t \in 1 .. n /\ v.delta \in Scores
      BY <1>1 DEF Scored
    <3> QED
      BY <3>1, PassBodyIn
  <2>2. \A p \in (2 .. n) \X Scored : p[1] \in 2 .. n /\ p[2] \in Scored
    OBVIOUS
  <2>3. \A p \in (2 .. n) \X Scored : next(p[1], p[2]) \in Scored
    <3> HIDE DEF next, n
    <3> QED
      BY <2>1, <2>2
  <2> HIDE DEF n, next
  <2> QED
    BY <2>3
<1>4. PICK w \in [1 .. n -> Scored] : IsForward(w, n, start, step)
  <2> HIDE DEF step, start, n
  <2> QED
    BY <1>1, <1>2, <1>3, ForwardExists
<1>5. PassWalk(hmm, observed, w)
  <2> DEFINE body(t) == IF t = 1 THEN PassStart(hmm, observed)
                        ELSE PassBody(hmm, observed, t, w[t - 1].delta)
  <2>1. ASSUME NEW t \in 1 .. n PROVE w[t] = body(t)
    <3>1. CASE t = 1
      BY <1>4, <3>1 DEF IsForward
    <3>2. CASE t # 1
      <4>1. t \in 2 .. n /\ t - 1 \in 1 .. n
        BY <1>1, <3>2
      <4>2. w[t] = step[<<t, w[t - 1]>>] /\ w[t - 1] \in Scored
        BY <1>4, <4>1 DEF IsForward
      <4>3. w[t] = next(t, w[t - 1])
        <5> HIDE DEF step, next, n
        <5> QED
          BY <1>3, <4>1, <4>2
      <4> HIDE DEF step
      <4> QED
        BY <3>2, <4>3
    <3> QED
      BY <3>1, <3>2
  <2>2. w = [t \in 1 .. n |-> w[t]]
    BY <1>4
  <2>3. w = [t \in 1 .. n |-> body(t)]
    <3> HIDE DEF body
    <3> QED
      BY <2>1, <2>2
  <2> QED
    BY <2>3 DEF PassWalk
<1>6. PassWalk(hmm, observed, chosen)
  BY <1>5
<1>7. \A t \in 1 .. n : chosen[t] = IF t = 1 THEN PassStart(hmm, observed)
                                    ELSE PassBody(hmm, observed, t, chosen[t - 1].delta)
  <2> HIDE DEF chosen
  <2> QED
    BY <1>1, <1>6 DEF PassWalk
<1>8. \A t \in 1 .. n : chosen[t] \in Scored
  <2> HIDE DEF chosen
  <2>1. chosen[1] = start
    BY <1>1, <1>7
  <2>2. ASSUME NEW t \in 2 .. n, chosen[t - 1] \in Scored
        PROVE  chosen[t] = step[<<t, chosen[t - 1]>>]
    <3>1. t \in 1 .. n /\ t # 1
      BY <1>1
    <3>2. chosen[t] = next(t, chosen[t - 1])
      BY <1>7, <3>1
    <3> HIDE DEF next, step, n
    <3> QED
      BY <1>3, <2>2, <3>2
  <2>3. \A t \in 2 .. n : chosen[t - 1] \in Scored => chosen[t] = step[<<t, chosen[t - 1]>>]
    <3> HIDE DEF step, n
    <3> QED
      BY <2>2
  <2>4. n \in Nat \ {0} /\ step \in [(2 .. n) \X Scored -> Scored]
    BY <1>1, <1>3
  <2>5. GoesForward(chosen, n, Scored, step)
    <3> HIDE DEF step, n
    <3> QED
      BY <2>3 DEF GoesForward
  <2> HIDE DEF step, start, n, next
  <2> QED
    BY <1>2, <2>1, <2>4, <2>5, ForwardHolds
<1> HIDE DEF chosen
<1> QED
  BY <1>7, <1>8 DEF chosen

\* The way back through the best predecessors.
PathWalk(pass, days, path) ==
    path = [t \in 1 .. days |->
               IF t = days THEN LastHighest(pass[t].delta) ELSE pass[t + 1].psi[path[t + 1]]]

LEMMA BacktrackIsWalk ==
    ASSUME NEW pass, NEW days
    PROVE  Backtrack(pass, days)
           = [t \in 1 .. days |-> (CHOOSE path : PathWalk(pass, days, path))[t]]
BY DEF Backtrack, PathWalk

LEMMA PathIn ==
    ASSUME NEW n \in Nat \ {0}, NEW pass, \A t \in 1 .. n : pass[t] \in Scored
    PROVE  /\ Backtrack(pass, n) \in [1 .. n -> States]
           /\ \A t \in 1 .. n : Backtrack(pass, n)[t]
                 = IF t = n THEN LastHighest(pass[t].delta)
                   ELSE pass[t + 1].psi[Backtrack(pass, n)[t + 1]]
<1> DEFINE chosen == CHOOSE path : PathWalk(pass, n, path)
           start == LastHighest(pass[n].delta)
           next(t, v) == pass[t + 1].psi[v]
           step == [p \in (1 .. n - 1) \X States |-> next(p[1], p[2])]
<1>1. n \in 1 .. n /\ \A t \in 1 .. n - 1 : t + 1 \in 1 .. n /\ t \in 1 .. n /\ t # n
  OBVIOUS
<1>2. start \in States
  BY <1>1, LastHighestIn DEF Scored, Scores
<1>3. /\ step \in [(1 .. n - 1) \X States -> States]
      /\ \A t \in 1 .. n - 1 : \A v \in States : step[<<t, v>>] = next(t, v)
  <2>1. \A t \in 1 .. n - 1 : \A v \in States : next(t, v) \in States
    BY <1>1 DEF Scored
  <2>2. \A p \in (1 .. n - 1) \X States : p[1] \in 1 .. n - 1 /\ p[2] \in States
    OBVIOUS
  <2> HIDE DEF next
  <2> QED
    BY <2>1, <2>2
<1>4. PICK w \in [1 .. n -> States] : IsBackward(w, n, start, step)
  <2> HIDE DEF step, start
  <2> QED
    BY <1>2, <1>3, BackwardExists
<1>5. PathWalk(pass, n, w)
  <2> DEFINE body(t) == IF t = n THEN LastHighest(pass[t].delta) ELSE pass[t + 1].psi[w[t + 1]]
  <2>1. ASSUME NEW t \in 1 .. n PROVE w[t] = body(t)
    <3>1. CASE t = n
      BY <1>4, <3>1 DEF IsBackward
    <3>2. CASE t # n
      <4>1. t \in 1 .. n - 1 /\ t + 1 \in 1 .. n
        BY <3>2
      <4>2. w[t] = step[<<t, w[t + 1]>>] /\ w[t + 1] \in States
        BY <1>4, <4>1 DEF IsBackward
      <4>3. w[t] = next(t, w[t + 1])
        <5> HIDE DEF step, next
        <5> QED
          BY <1>3, <4>1, <4>2
      <4> HIDE DEF step
      <4> QED
        BY <3>2, <4>3
    <3> QED
      BY <3>1, <3>2
  <2>2. w = [t \in 1 .. n |-> w[t]]
    BY <1>4
  <2>3. w = [t \in 1 .. n |-> body(t)]
    <3> HIDE DEF body
    <3> QED
      BY <2>1, <2>2
  <2> QED
    BY <2>3 DEF PathWalk
<1>6. PathWalk(pass, n, chosen)
  BY <1>5
<1>7. \A t \in 1 .. n : chosen[t] = IF t = n THEN LastHighest(pass[t].delta)
                                    ELSE pass[t + 1].psi[chosen[t + 1]]
  <2> HIDE DEF chosen
  <2> QED
    BY <1>6 DEF PathWalk
<1>8. \A t \in 1 .. n : chosen[t] \in States
  <2> HIDE DEF chosen
  <2>1. chosen[n] = start
    BY <1>1, <1>7
  <2>2. ASSUME NEW t \in 1 .. n - 1, chosen[t + 1] \in States
        PROVE  chosen[t] = step[<<t, chosen[t + 1]>>]
    <3>1. chosen[t] = next(t, chosen[t + 1])
      BY <1>1, <1>7
    <3> HIDE DEF next, step
    <3> QED
      BY <1>3, <2>2, <3>1
  <2>3. GoesBackward(chosen, n, States, step)
    <3> HIDE DEF step
    <3> QED
      BY <2>2 DEF GoesBackward
  <2>4. step \in [(1 .. n - 1) \X States -> States]
    BY <1>3
  <2> HIDE DEF step, start, next
  <2> QED
    BY <1>2, <2>1, <2>3, <2>4, BackwardHolds
<1> HIDE DEF chosen
<1>9. Backtrack(pass, n) = [t \in 1 .. n |-> chosen[t]]
  BY BacktrackIsWalk DEF chosen
<1>10. \A t \in 1 .. n : t # n => t + 1 \in 1 .. n
  OBVIOUS
<1> QED
  BY <1>7, <1>8, <1>9, <1>10

LEMMA ViterbiIn ==
    ASSUME NEW hmm, NEW observed, NEW moves, Observation(hmm, observed, moves)
    PROVE  Viterbi(hmm, observed) \in [1 .. Len(observed) -> States]
<1> DEFINE pass == CHOOSE p : PassWalk(hmm, observed, p)
<1>1. Len(observed) \in Nat \ {0}
  BY DEF Observation
<1>2. \A t \in 1 .. Len(observed) : pass[t] \in Scored
  BY PassIn
<1>3. Viterbi(hmm, observed) = Backtrack(pass, Len(observed))
  BY ViterbiIsWalk
<1> HIDE DEF pass
<1> QED
  BY <1>1, <1>2, <1>3, PathIn

\* Each day has one of the three labels, and the counts of the labels add up to
\* the days.
LEMMA LabelsIn ==
    ASSUME NEW hmm, NEW observed, NEW moves, Observation(hmm, observed, moves)
    PROVE  /\ FitHmm(hmm, observed).sequence \in [1 .. Len(observed) -> States]
           /\ Total(FitHmm(hmm, observed).observations) = Len(observed)
<1> DEFINE n == Len(observed)
           order == VarianceOrder(hmm)
           rank == Rank(order)
           path == Viterbi(hmm, observed)
           gamma == EStep(hmm, observed).gamma[n]
           fit == Relabelled(hmm, order, rank, path, gamma)
           labels == [t \in 1 .. n |-> rank[path[t]]]
           with(k) == {t \in 1 .. n : labels[t] = k}
           counts == [k \in States |-> Cardinality(with(k))]
<1>1. n \in Nat /\ IsFit(hmm, moves)
  BY DEF Observation
<1>2. path \in [1 .. n -> States] /\ \A k \in States : rank[k] \in States
  BY <1>1, ViterbiIn, RankIn
<1>3. fit.sequence = labels
  <2> HIDE DEF order, rank, path, gamma, n
  <2> QED
    BY <1>2 DEF Relabelled
<1>4. labels \in [1 .. n -> States]
  <2> HIDE DEF rank, path, n
  <2> QED
    BY <1>2
<1>5. /\ FitHmm(hmm, observed).sequence = fit.sequence
      /\ FitHmm(hmm, observed).observations = ByState([k \in States |->
             Cardinality({t \in DOMAIN fit.sequence : fit.sequence[t] = k})])
  <2>1. FitHmm(hmm, observed) = Classified(fit)
    BY DEF FitHmm
  <2> HIDE DEF fit
  <2> QED
    BY <2>1 DEF Classified, RegimeState
<1> HIDE DEF n, fit, labels
<1>6. FitHmm(hmm, observed).observations = ByState(counts)
  BY <1>3, <1>4, <1>5
<1>7. IsFiniteSet(1 .. n) /\ Cardinality(1 .. n) = n
  <2>1. 1 \in Int /\ n \in Int
    BY <1>1
  <2>2. IsFiniteSet(1 .. n) /\ Cardinality(1 .. n) = IF 1 > n THEN 0 ELSE n - 1 + 1
    BY <2>1, FS_Interval, Zenon
  <2> QED
    BY <1>1, <2>2
<1>8. \A k \in States : IsFiniteSet(with(k)) /\ Cardinality(with(k)) \in Nat
  <2>1. \A k \in States : with(k) \in SUBSET (1 .. n)
    OBVIOUS
  <2> HIDE DEF with
  <2> QED
    BY <1>7, <2>1, FS_Subset, FS_CardinalityType
<1>9. /\ with(1) \cap with(2) = {} /\ (with(1) \cup with(2)) \cap with(3) = {}
      /\ (with(1) \cup with(2)) \cup with(3) = 1 .. n
  BY <1>4, StatesAre
<1> HIDE DEF with
<1>10. Cardinality(with(1)) + Cardinality(with(2)) + Cardinality(with(3)) = n
  <2>1. IsFiniteSet(with(1)) /\ IsFiniteSet(with(2)) /\ IsFiniteSet(with(3))
    BY <1>8, StatesAre
  <2>2. Cardinality(with(1) \cup with(2)) = Cardinality(with(1)) + Cardinality(with(2))
    BY <1>9, <2>1, DisjointUnion
  <2>3. IsFiniteSet(with(1) \cup with(2))
    BY <2>1, FS_Union
  <2>4. Cardinality(1 .. n) = Cardinality(with(1) \cup with(2)) + Cardinality(with(3))
    BY <1>9, <2>1, <2>3, DisjointUnion
  <2> QED
    BY <1>7, <2>2, <2>4
<1>11. counts \in Weights
  BY <1>8 DEF Weights
<1>12. counts[1] = Cardinality(with(1)) /\ counts[2] = Cardinality(with(2))
       /\ counts[3] = Cardinality(with(3))
  BY StatesAre
<1> HIDE DEF counts
<1>13. ByState(counts) = counts
  BY <1>11, ByStateIs DEF Weights
<1>14. Total(counts) = counts[1] + counts[2] + counts[3]
  BY <1>11, TotalOfStates
<1> QED
  BY <1>3, <1>4, <1>5, <1>6, <1>10, <1>12, <1>13, <1>14 DEF n

(***************************************************************************)
(* The windows                                                             *)
(***************************************************************************)
\* What is loaded for a request, and the index of its market.
LEMMA LoadedTable ==
    ASSUME RequestsHeld, data = LoadedFor(Request), data.outcome = "ok"
    PROVE  /\ IsTable(data, TickersOf(Portfolio))
           /\ data.factors["MARKET"] \in Seq(Moves(World.raw["MARKET"]))
           /\ IsFit(World.hmm, Moves(World.raw["MARKET"]))
<1>1. Request \in Requests
  BY RequestIn
<1>2. Series(World.raw, TickersOf(Portfolio))
  BY <1>1, SeriesOf DEF World, Portfolio
<1>3. IsTable(data, TickersOf(Portfolio))
  BY <1>2, LoadedIsAligned DEF LoadedFor, World, Portfolio
<1>4. Loadable(World.raw, TickersOf(Portfolio), FrequencyOf(Request), data)
      /\ IsFit(World.hmm, Moves(World.raw["MARKET"]))
  BY <1>1, RequestIs DEF Loadable, LoadedFor, World, Portfolio
<1>5. data.factors["MARKET"] \in Seq(Moves(World.raw["MARKET"]))
  BY <1>4, MarketMoves
<1> QED
  BY <1>3, <1>4, <1>5

\* The tail of the index, if there is one, is something to fit.
LEMMA TailObserved ==
    ASSUME NEW md, NEW moves, md.factors["MARKET"] \in Seq(moves),
           NEW hmm, IsFit(hmm, moves), NEW w \in 1 .. Len(md.factors["MARKET"])
    PROVE  /\ Observation(hmm, MarketTail(md, w), moves)
           /\ MarketTail(md, w) = [i \in 1 .. w |->
                 md.factors["MARKET"][(Len(md.factors["MARKET"]) - w) + i]]
           /\ Len(MarketTail(md, w)) = w
<1> DEFINE market == md.factors["MARKET"]
           n == Len(market)
           m == n - w + 1
           tail == SubSeq(market, m, n)
<1>1. MarketTail(md, w) = tail
  BY DEF MarketTail
<1> HIDE DEF market
<1>2. market \in Seq(moves) /\ n \in Nat /\ w \in 1 .. n
  BY DEF market
<1>3. m \in 1 .. n + 1 /\ (n - m) + 1 = w /\ m - 1 = n - w
  <2> HIDE DEF n
  <2> QED
    BY <1>2
<1>4. /\ tail \in Seq(moves) /\ Len(tail) = w
      /\ \A i \in 1 .. w : tail[i] = market[(n - w) + i]
  <2>1. /\ SubSeq(market, m, Len(market)) \in Seq(moves)
        /\ Len(SubSeq(market, m, Len(market))) = (Len(market) - m) + 1
        /\ \A i \in 1 .. (Len(market) - m) + 1 :
              SubSeq(market, m, Len(market))[i] = market[(m - 1) + i]
    <3> HIDE DEF m
    <3> QED
      BY <1>2, <1>3, TailIs
  <2> HIDE DEF m
  <2> QED
    BY <1>3, <2>1
<1> HIDE DEF tail, n
<1>5. tail # << >> /\ tail = [i \in 1 .. w |-> tail[i]]
  BY <1>2, <1>4
<1>6. tail = [i \in 1 .. w |-> market[(n - w) + i]]
  BY <1>4, <1>5
<1> QED
  BY <1>1, <1>4, <1>5, <1>6 DEF Observation, market, n

\* What a model is fitted on.
LEMMA FitIs ==
    ASSUME NEW md, NEW moves, md.factors["MARKET"] \in Seq(moves),
           NEW tickers, NEW asked \in Nat, NEW frequency, NEW hmm, IsFit(hmm, moves),
           NEW estimates, NEW f,
           f = FitFactorModel(md, tickers, asked, frequency, hmm, estimates),
           f.outcome = "ok"
    PROVE  LET w == Smaller(asked, Len(md.factors["MARKET"]))
           IN  /\ w \in 1 .. Len(md.factors["MARKET"])
               /\ f.window = w /\ f.tickers = tickers
               /\ f.regime = FitHmm(hmm, MarketTail(md, w))
<1> DEFINE market == md.factors["MARKET"]
           n == Len(market)
           w == Smaller(asked, n)
           rows == FactorsWindow(md, w)
           observed == [i \in 1 .. w |-> rows[i][1]]
           state == FitHmm(hmm, observed)
<1>1. /\ f = FitOnWindow(md, tickers, rows, frequency, state, estimates)
      /\ ~(w < MinModelWindow)
  <2>1. Failed("error").outcome # "ok"
    BY DEF Failed
  <2>2. f = IF \/ w < MinModelWindow
               \/ \E k \in DOMAIN tickers : Len(md.stocks[tickers[k]]) < MinTickerObservations
            THEN Failed("error")
            ELSE FitOnWindow(md, tickers, rows, frequency, state, estimates)
    BY DEF FitFactorModel
  <2> HIDE DEF w, rows, state
  <2> QED
    BY <2>1, <2>2
<1>2. n \in Nat /\ w \in Nat /\ w <= n
  <2>1. n \in Nat
    OBVIOUS
  <2> HIDE DEF n
  <2> QED
    BY <2>1 DEF Smaller
<1>3. w \in 1 .. n
  <2> HIDE DEF n, w
  <2> QED
    BY <1>1, <1>2, ModelAssumption
<1>4. rows = [i \in 1 .. w |-> [k \in Factors |->
            md.factors[FactorNames[k]][(n - w) + i]]]
  <2> HIDE DEF w
  <2> QED
    BY DEF FactorsWindow
<1>5. observed = MarketTail(md, w)
  <2>1. 1 \in Factors /\ FactorNames[1] = "MARKET"
    BY FactorsAre DEF FactorNames
  <2>2. \A i \in 1 .. w : rows[i][1] = market[(n - w) + i]
    <3> HIDE DEF w, rows
    <3> QED
      BY <1>4, <2>1
  <2>3. MarketTail(md, w) = [i \in 1 .. w |-> market[(n - w) + i]]
    <3> HIDE DEF w
    <3> QED
      BY <1>3, TailObserved
  <2> HIDE DEF rows, w
  <2> QED
    BY <2>2, <2>3
<1>6. Len(rows) = w
  <2> HIDE DEF w, rows
  <2> QED
    BY <1>2, <1>4
<1>7. f.window = Len(rows) /\ f.tickers = tickers /\ f.regime = state
  <2> HIDE DEF rows, state
  <2> QED
    BY <1>1 DEF FitOnWindow, Assembled
<1> HIDE DEF rows, observed, w
<1> QED
  BY <1>3, <1>5, <1>6, <1>7 DEF w

\* The window a trace shows.
WindowOf(md, n) ==
    [periods |-> n, start |-> md.dates[Len(md.dates) - n + 1],
     end     |-> md.dates[Len(md.dates)]]

\* What the window of a trace and its regime have to do with each other.
Tells(window, regime, md, hmm) ==
    regime.outcome = "ok" =>
        LET n == window.periods
            w == Smaller(n, Len(md.factors["MARKET"]))
        IN  /\ window = WindowOf(md, n) /\ n \in Nat
            /\ w \in 1 .. Len(md.factors["MARKET"])
            /\ regime.regime = FitHmm(hmm, MarketTail(md, w))

WindowHeld ==
    (stage = "windowed" \/ (stage = "ran" /\ Kind = "FactorShock")) =>
        /\ Window \in 1 .. Len(data.dates)
        /\ (IF stage = "windowed" THEN trace ELSE trace.window) = WindowOf(data, Window)

ShockHeld ==
    (stage = "ran" /\ Kind = "FactorShock") =>
        /\ trace.answer = RunFactorShock(data, model, Portfolio, Request.input)
        /\ trace.answer.outcome = "ok"

RebalanceHeld ==
    (stage = "ran" /\ Kind = "CvarRebalance") =>
        /\ trace.answer = RunCvarRebalance(data, Request.input, World.hmm, World.estimates)
        /\ trace.answer.outcome = "ok"

ToldHeld == Traced => Tells(trace.window, trace.regime, data, World.hmm)

\* A reverse stress with a bound beyond the loss of everything.
StressBeyond ==
    Kind = "ReverseStress" /\ \E k \in DOMAIN Request.input.bounds :
                                    Request.input.bounds[k].lower < -Unit

PanicHeld ==
    stage = "panic" =>
        \/ GapWithin(World.raw, Calendar(World.raw["MARKET"]))
        \/ Kind # "CvarRebalance" /\ Window \notin 1 .. Len(data.dates)
        \/ Kind = "CvarRebalance" /\ \E t \in DOMAIN data.stocks : data.stocks[t] = <<>>
        \/ StressBeyond

HistoryHeld ==
    (stage = "answered" /\ trace.history.outcome = "ok") =>
        /\ data = LoadedFor(Request) /\ data.outcome = "ok"
        /\ Tells(trace.window, trace.regime, data, World.hmm)
        /\ LET regime == RegimeForHistory(trace.regime, data,
                             DefaultWindow(FrequencyOf(Request)), World.hmm)
           IN  /\ regime.outcome = "ok"
               /\ trace.history = ComputePortfolioHistory(data, Portfolio, regime.regime)

AnswerInv ==
    /\ WindowHeld /\ ShockHeld /\ RebalanceHeld /\ ToldHeld /\ PanicHeld
    /\ HistoryHeld

\* Where loading panics, a factor has a gap.
LEMMA LoadPanics ==
    ASSUME NEW r \in Requests, LoadedFor(r).outcome = "panic"
    PROVE  GapWithin(Markets[r.market].raw, Calendar(Markets[r.market].raw["MARKET"]))
<1> DEFINE raw == Markets[r.market].raw
           tickers == TickersOf(r.portfolio)
           prices == LoadAlignedPrices(raw, tickers)
           calendar == Calendar(raw["MARKET"])
           n == Len(calendar)
           start == Start(calendar, raw, tickers)
           stocks == StocksFrom(calendar, raw, tickers, start)
<1>1. prices.outcome = "panic"
  <2>1. \A p, f : ToReturns(p, f).outcome = "ok"
    BY DEF ToReturns
  <2>2. LoadedFor(r) = IF prices.outcome = "ok" THEN ToReturns(prices, FrequencyOf(r)) ELSE prices
    BY DEF LoadedFor, LoadMarketData
  <2> HIDE DEF prices
  <2> QED
    BY <2>1, <2>2
<1>2. Series(raw, tickers) /\ tickers # {}
  <2>1. r.portfolio.tickers \in Seq(Stocks(r.market)) /\ r.portfolio.tickers # << >>
    BY SessionsAssumption DEF IsRequest
  <2>2. 1 \in DOMAIN r.portfolio.tickers
    BY <2>1
  <2>3. r.portfolio.tickers[1] \in tickers
    BY <2>2 DEF TickersOf, Holdings
  <2>4. Series(raw, tickers)
    BY SeriesOf
  <2> QED
    BY <2>3, <2>4
<1>3. /\ ~\E t \in tickers : stocks[t] = << >>
      /\ \/ \E f \in FactorTickers : Missing(From(calendar, raw[f], start)) # {}
         \/ start > n
  <2>1. /\ Failed("error").outcome # "panic"
        /\ \A d, s, f : [outcome |-> "ok", dates |-> d, stocks |-> s, factors |-> f].outcome # "panic"
    BY DEF Failed
  <2>2. prices = IF \E t \in tickers : stocks[t] = << >>
                 THEN Failed("error")
                 ELSE IF \/ \E f \in FactorTickers : Missing(From(calendar, raw[f], start)) # {}
                         \/ start > n
                 THEN Failed("panic")
                 ELSE [outcome |-> "ok",
                       dates   |-> SubSeq(calendar, start, n),
                       stocks  |-> stocks,
                       factors |-> [f \in FactorTickers |-> From(calendar, raw[f], start)]]
    <3> HIDE DEF raw, tickers
    <3> QED
      BY LoadAlignedIs
  <2> HIDE DEF prices, stocks, calendar, start, n, tickers, raw
  <2> QED
    BY <1>1, <2>1, <2>2
<1> HIDE DEF raw, tickers
<1>4. /\ calendar \in Seq(Nat) /\ n \in Nat /\ DOMAIN calendar = 1 .. n
      /\ start \in 1 .. n + 1
      /\ \A i \in 1 .. n : Known(calendar, raw, i) => start <= i
  <2>1. IsSeries(raw["MARKET"])
    BY <1>2 DEF Series, FactorTickers
  <2>2. calendar \in Seq(Nat) /\ n \in Nat /\ DOMAIN calendar = 1 .. n
    BY <2>1, CalendarIn
  <2> HIDE DEF calendar
  <2> QED
    BY <1>2, <2>2, StartIs
<1>5. CASE start = n + 1
  <2>1. n # 0
    <3>1. SUFFICES ASSUME n = 0 PROVE FALSE
      OBVIOUS
    <3>2. PICK t \in tickers : TRUE
      BY <1>2
    <3>3. stocks[t] = TrailingNonNoneRun(From(calendar, raw[t], start))
      BY <3>2 DEF StocksFrom
    <3>4. From(calendar, raw[t], start) = << >>
      <4>1. From(calendar, raw[t], start)
            = SubSeq(AlignToCalendar(raw[t], calendar), start, n)
        BY DEF From
      <4>2. AlignToCalendar(raw[t], calendar) = [i \in 1 .. n |-> CloseAt(calendar, raw[t], i)]
        <5>1. IsSeries(raw[t])
          BY <1>2, <3>2 DEF Series
        <5> HIDE DEF calendar
        <5> QED
          BY <1>4, <5>1, AlignIsCloseAt
      <4> HIDE DEF start, calendar, n
      <4>3. AlignToCalendar(raw[t], calendar) = << >>
        BY <3>1, <4>2
      <4> QED
        BY <1>5, <3>1, <4>1, <4>3
    <3>5. TrailingNonNoneRun(<< >>) = << >>
      <4>1. << >> \in Seq(Int \cup {None})
        OBVIOUS
      <4> DEFINE run == TrailingNonNoneRun(<< >>)
      <4>2. run \in Seq(Int) /\ Len(<< >>) - Len(run) \in 0 .. Len(<< >>)
        BY <4>1, TrailingRunIs
      <4> HIDE DEF run
      <4>3. Len(run) = 0
        BY <4>2
      <4> QED
        BY <4>2, <4>3 DEF run
    <3> HIDE DEF stocks, start, calendar
    <3> QED
      BY <1>3, <3>2, <3>3, <3>4, <3>5
  <2>2. 1 \in 1 .. n /\ ~(start <= 1)
    BY <1>4, <1>5, <2>1
  <2>3. ~Known(calendar, raw, 1)
    BY <1>4, <2>2
  <2> HIDE DEF calendar, n
  <2> QED
    BY <1>4, <2>2, <2>3 DEF Known, GapWithin, raw, calendar
<1>6. CASE start \in 1 .. n
  <2>1. PICK f \in FactorTickers : Missing(From(calendar, raw[f], start)) # {}
    <3> DEFINE gap == \E f \in FactorTickers : Missing(From(calendar, raw[f], start)) # {}
    <3>1. gap \/ start > n
      BY <1>3
    <3> HIDE DEF start, n, stocks, calendar, gap
    <3>2. ~(start > n)
      BY <1>4, <1>6
    <3>3. gap
      BY <3>1, <3>2
    <3> QED
      BY <3>3 DEF gap
  <2> DEFINE closes == From(calendar, raw[f], start)
  <2>2. /\ closes \in Seq(Int \cup {None}) /\ Len(closes) = (n - start) + 1
        /\ \A i \in 1 .. (n - start) + 1 : closes[i] = CloseAt(calendar, raw[f], (start - 1) + i)
    <3>1. IsSeries(raw[f])
      BY <1>2 DEF Series
    <3> HIDE DEF calendar, start
    <3> QED
      BY <1>4, <1>6, <3>1, FromIs
  <2> HIDE DEF closes
  <2>3. PICK i \in 1 .. (n - start) + 1 : closes[i] = None
    <3>1. DOMAIN closes = 1 .. (n - start) + 1
      BY <2>2
    <3>2. Missing(closes) # {}
      BY <2>1 DEF closes
    <3> HIDE DEF n, start
    <3> QED
      BY <3>1, <3>2 DEF Missing
  <2>4. (start - 1) + i \in 1 .. n
    <3> HIDE DEF n, start
    <3> QED
      BY <1>4, <1>6
  <2> HIDE DEF n, start, calendar
  <2> QED
    BY <1>4, <2>2, <2>3, <2>4 DEF GapWithin, raw, calendar
<1> HIDE DEF n, start
<1> QED
  BY <1>4, <1>5, <1>6

\* Of the experiments only a rebalance and a reverse stress panic.
LEMMA NoPanic ==
    ASSUME NEW md, NEW m, NEW p, NEW input, NEW x, NEW y, NEW z
    PROVE  /\ FitFactorModel(md, p, x, y, z, input).outcome # "panic"
           /\ RunFactorShock(md, m, p, input).outcome # "panic"
           /\ RunRiskDecomposition(md, m, p).outcome # "panic"
           /\ ComputeRiskDrift(x, y, z, input).outcome # "panic"
           /\ RunPolicyCheck(input, md, m, p).outcome # "panic"
           /\ RunPortfolioPerformance(md, p, x, y).outcome # "panic"
<1>1. FitFactorModel(md, p, x, y, z, input).outcome # "panic"
  BY DEF FitFactorModel, FitOnWindow, Assembled, Failed
<1>2. RunFactorShock(md, m, p, input).outcome # "panic"
  BY DEF RunFactorShock, ShockReport, Failed
<1>3. RunRiskDecomposition(md, m, p).outcome # "panic"
  BY DEF RunRiskDecomposition, Failed
<1>4. ComputeRiskDrift(x, y, z, input).outcome # "panic"
  BY DEF ComputeRiskDrift, Failed
<1>6. RunPolicyCheck(input, md, m, p).outcome # "panic"
  BY DEF RunPolicyCheck, Failed
<1>7. RunPortfolioPerformance(md, p, x, y).outcome # "panic"
  BY DEF RunPortfolioPerformance, Failed
<1> QED
  BY <1>1, <1>2, <1>3, <1>4, <1>6, <1>7

\* What a rebalance says of its window and regime.
LEMMA RebalanceTells ==
    ASSUME NEW md, NEW input, NEW hmm, NEW estimates, NEW answer,
           answer = RunCvarRebalance(md, input, hmm, estimates)
    PROVE  LET window == WindowUsed(md, input)
               fit == FitFactorModel(md, input.portfolio.tickers, window, input.frequency,
                                     hmm, estimates)
           IN  /\ answer.outcome = "panic" => CommonLength(md, input.portfolio) = 0
               /\ answer.outcome = "ok" =>
                     /\ answer.window = window
                     /\ answer.regime.outcome = "ok" =>
                           fit.outcome = "ok" /\ answer.regime.regime = fit.regime
<1> DEFINE window == WindowUsed(md, input)
           fit == FitFactorModel(md, input.portfolio.tickers, window, input.frequency,
                                 hmm, estimates)
           prepared == Prepared(md, input, window, fit)
           first == Solve(md, input, window, input.confidence, 0)
           initial == EvaluatePolicy(input.policy, md, prepared.model,
                                     Reweighted(input.portfolio, first.weights))
           unjudged == [confidence |-> input.confidence, solution |-> first,
                        result |-> Failed("none"), tries |-> 0]
           held == IF first.outcome = "optimal" /\ prepared.policed
                   THEN Remediate(md, input, prepared.window, prepared.model, first)
                   ELSE unjudged
           report == Report(md, input, prepared, initial, first.outcome, held)
           refused == \/ input.confidence \notin 0 .. 999
                      \/ prepared.before.outcome = "error"
                      \/ first.outcome = "error"
<1>1. answer = IF CommonLength(md, input.portfolio) = 0 THEN Failed("panic")
               ELSE Rebalanced(md, input, prepared, first)
  <2> HIDE DEF window, fit, first
  <2> QED
    BY DEF RunCvarRebalance, window, fit, first
<1>2. prepared.window = window /\ prepared.model = fit
  <2> HIDE DEF window, fit
  <2> QED
    BY DEF Prepared
<1> HIDE DEF prepared, window, fit, first
<1>3. Rebalanced(md, input, prepared, first) = IF refused THEN Failed("error") ELSE report
  <2> HIDE DEF initial, unjudged, refused
  <2> QED
    BY DEF Rebalanced, initial, unjudged, refused
<1> HIDE DEF refused, held, initial
<1>4. /\ report.outcome = "ok" /\ report.window = prepared.window
      /\ report.regime = IF prepared.model.outcome = "ok"
                         THEN [outcome |-> "ok", regime |-> prepared.model.regime]
                         ELSE Failed("none")
  BY DEF Report
<1> HIDE DEF report
<1> QED
  BY <1>1, <1>2, <1>3, <1>4 DEF Failed, window, fit

\* The length the holdings have in common is that of one of them.
LEMMA CommonIs ==
    ASSUME NEW r \in Requests, NEW md, IsTable(md, TickersOf(r.portfolio))
    PROVE  /\ CommonLength(md, r.portfolio) \in Nat
           /\ \E t \in DOMAIN md.stocks : CommonLength(md, r.portfolio) = Len(md.stocks[t])
<1> DEFINE p == r.portfolio
           lengths == {Len(md.stocks[p.tickers[i]]) : i \in Holdings(p)}
<1>1. 1 \in Holdings(p)
  <2>1. p.tickers \in Seq(Stocks(r.market)) /\ p.tickers # << >>
    BY SessionsAssumption DEF IsRequest
  <2> QED
    BY <2>1 DEF Holdings
<1>2. \A i \in Holdings(p) :
         p.tickers[i] \in DOMAIN md.stocks /\ Len(md.stocks[p.tickers[i]]) \in Nat
  <2>1. \A i \in Holdings(p) : p.tickers[i] \in TickersOf(p)
    BY DEF TickersOf
  <2> QED
    BY <2>1 DEF IsTable
<1>3. lengths \in SUBSET Nat /\ lengths # {}
  BY <1>1, <1>2
<1>4. CommonLength(md, p) = Min(lengths)
  BY DEF CommonLength
<1> HIDE DEF lengths
<1>5. Min(lengths) \in lengths
  BY <1>3, MinIs
<1> QED
  BY <1>2, <1>4, <1>5 DEF lengths

\* The window of a rebalance is a number.
LEMMA WindowUsedNat ==
    ASSUME NEW r \in Requests, NEW md, IsTable(md, TickersOf(r.portfolio)),
           r.kind = "CvarRebalance"
    PROVE  WindowUsed(md, r.input) \in Nat
<1>1. /\ r.input.portfolio = r.portfolio
      /\ r.input.window = Unset \/ r.input.window \in Nat
  BY SessionsAssumption DEF IsRequest
<1> DEFINE total == CommonLength(md, r.portfolio)
<1>2. total \in Nat
  BY CommonIs
<1>3. WindowUsed(md, r.input) = IF r.input.window = Unset THEN total
                                ELSE Max({1, Smaller(r.input.window, total)})
  BY <1>1 DEF WindowUsed
<1> HIDE DEF total
<1>4. CASE r.input.window = Unset
  BY <1>2, <1>3, <1>4
<1>5. CASE r.input.window # Unset
  <2> DEFINE a == Smaller(r.input.window, total)
  <2>1. a \in Nat
    BY <1>1, <1>2, <1>5 DEF Smaller
  <2>2. WindowUsed(md, r.input) = Max({1, a})
    BY <1>3, <1>5
  <2> HIDE DEF a
  <2>3. Max({1, a}) = IF a > 1 THEN a ELSE 1
    BY <2>1 DEF Max
  <2> QED
    BY <2>1, <2>2, <2>3
<1> QED
  BY <1>4, <1>5

\* What is there once the prices are loaded.
LEMMA LoadedIs ==
    ASSUME RunInv, Loaded
    PROVE  /\ Request \in Requests /\ data.outcome = "ok" /\ data = LoadedFor(Request)
           /\ IsTable(data, TickersOf(Portfolio))
           /\ data.factors["MARKET"] \in Seq(Moves(World.raw["MARKET"]))
           /\ IsFit(World.hmm, Moves(World.raw["MARKET"]))
<1>1. Request \in Requests /\ RequestsHeld /\ data.outcome = "ok" /\ data = LoadedFor(Request)
  BY RequestIn DEF RunInv, DataHeld
<1> QED
  BY <1>1, LoadedTable

LEMMA DefaultNat == ASSUME NEW frequency PROVE DefaultWindow(frequency) \in Nat \ {0}
BY ModelAssumption DEF DefaultWindow

LEMMA WindowNat == ASSUME Request \in Requests PROVE Window \in Nat
<1>1. Request.window = Unset \/ Request.window \in Nat
  BY SessionsAssumption DEF IsRequest
<1> QED
  BY <1>1, DefaultNat DEF Window, ResolvedWindow

\* What a model has seen of the market.
LEMMA ModelSaw ==
    ASSUME RunInv, Modelled
    PROVE  LET w == Smaller(Window, Len(data.factors["MARKET"]))
           IN  /\ w \in 1 .. Len(data.factors["MARKET"])
               /\ model.window = w
               /\ model.regime = FitHmm(World.hmm, MarketTail(data, w))
<1>1. Loaded
  BY DEF Loaded, Modelled
<1>2. model = FittedFor(Request) /\ model.outcome = "ok"
  BY DEF RunInv, ModelHeld
<1>3. model = FitFactorModel(data, Portfolio.tickers, Window, FrequencyOf(Request),
                             World.hmm, World.estimates)
  BY <1>1, <1>2, ThroughFit DEF RunInv, Fitted
<1>4. Window \in Nat
  BY <1>1, LoadedIs, WindowNat
<1> QED
  BY <1>1, <1>2, <1>3, <1>4, LoadedIs, FitIs

(***************************************************************************)
(* The steps and the windows                                               *)
(***************************************************************************)

\* A step that ends the request, and says why if it panics.
LEMMA EndTells ==
    ASSUME session' = session, stage' \in Ends \cup {"asked", "loaded", "fitted"},
           stage' = "panic" => PanicHeld'
    PROVE  AnswerInv'
<1>1. stage' \notin {"windowed", "ran", "judged", "answered"}
  BY DEF Ends, Faults
<1>2. WindowHeld' /\ ShockHeld' /\ RebalanceHeld' /\ ToldHeld' /\ HistoryHeld'
  BY <1>1 DEF WindowHeld, ShockHeld, RebalanceHeld, ToldHeld, Traced, HistoryHeld
<1>3. PanicHeld'
  BY DEF PanicHeld
<1> QED
  BY <1>2, <1>3 DEF AnswerInv

LEMMA RefuseTells == ASSUME RunInv, RefuseRequest PROVE AnswerInv'
BY EndTells DEF RefuseRequest, End, Ends, Faults

LEMMA LoadTells == ASSUME RunInv, LoadData PROVE AnswerInv'
<1>1. session' = session /\ Request \in Requests
  BY RequestIn DEF LoadData, RunInv
<1>2. data' = LoadedFor(Request)
  BY DEF LoadData, LoadedFor, World, Portfolio
<1>3. stage' \in {"loaded"} \cup Faults /\ (stage' = "panic" => LoadedFor(Request).outcome = "panic")
  BY <1>2, LoadEnds DEF LoadData, End, LoadedFor
<1>4. stage' = "panic" => PanicHeld'
  <2>1. World' = World
    BY <1>1 DEF World, Request
  <2> QED
    BY <1>1, <1>3, <2>1, LoadPanics DEF PanicHeld, World
<1> QED
  BY <1>1, <1>3, <1>4, EndTells DEF Ends

LEMMA FitTells == ASSUME RunInv, FitModel PROVE AnswerInv'
<1>1. session' = session /\ model' = Fitted
  BY DEF FitModel
<1>2. model'.outcome \in Faults \cup {"ok"} /\ model'.outcome # "panic"
  BY <1>1, FitEnds, NoPanic DEF Fitted
<1>3. stage' \in {"fitted"} \cup Faults /\ stage' # "panic"
  BY <1>2 DEF FitModel, End
<1> QED
  BY <1>1, <1>3, EndTells DEF Ends

LEMMA BuildTells == ASSUME RunInv, BuildDataWindow PROVE AnswerInv'
<1>1. /\ session' = session /\ data' = data /\ Kind # "CvarRebalance"
      /\ Window' = Window /\ Kind' = Kind
  BY DEF BuildDataWindow, Window, Request, FrequencyOf, Kind
<1>2. CASE Window \in 1 .. Len(data.dates)
  <2>1. stage' = "windowed" /\ trace' = WindowOf(data, Window)
    BY <1>2 DEF BuildDataWindow, WindowOf
  <2>2. WindowHeld'
    BY <1>1, <1>2, <2>1 DEF WindowHeld
  <2>3. ShockHeld' /\ RebalanceHeld' /\ ToldHeld' /\ PanicHeld' /\ HistoryHeld'
    BY <2>1 DEF ShockHeld, RebalanceHeld, ToldHeld, Traced, PanicHeld, HistoryHeld
  <2> QED
    BY <2>2, <2>3 DEF AnswerInv
<1>3. CASE Window \notin 1 .. Len(data.dates)
  <2>1. stage' = "panic"
    BY <1>3 DEF BuildDataWindow, End
  <2>2. PanicHeld'
    BY <1>1, <1>3 DEF PanicHeld
  <2> QED
    BY <1>1, <2>1, <2>2, EndTells DEF Ends, Faults
<1> QED
  BY <1>2, <1>3

\* An answer, with what it has to say for itself.
LEMMA AnswerTells ==
    ASSUME RunInv, NEW answer, NEW regime, NEW window, Answered(answer, regime, window),
           answer.outcome \in Ends \cup {"ok"},
           answer.outcome = "panic" =>
               \/ Kind = "CvarRebalance" /\ \E t \in DOMAIN data.stocks : data.stocks[t] = << >>
               \/ StressBeyond,
           answer.outcome = "ok" => Tells(window, regime, data, World.hmm),
           Kind = "FactorShock" =>
               /\ answer = RunFactorShock(data, model, Portfolio, Request.input)
               /\ Window \in 1 .. Len(data.dates) /\ window = WindowOf(data, Window),
           Kind = "CvarRebalance" =>
               answer = RunCvarRebalance(data, Request.input, World.hmm, World.estimates)
    PROVE  AnswerInv'
<1>1. /\ session' = session /\ data' = data /\ model' = model /\ Window' = Window
      /\ Kind' = Kind /\ World' = World /\ Portfolio' = Portfolio /\ Request' = Request
  BY DEF Answered, Window, Request, FrequencyOf, Kind, World, Portfolio
<1>2. CASE answer.outcome = "ok"
  <2>1. /\ stage' = "ran" /\ trace'.window = window /\ trace'.answer = answer
        /\ trace'.regime = regime
    BY <1>2 DEF Answered
  <2>2. WindowHeld' /\ ShockHeld' /\ RebalanceHeld'
    BY <1>1, <1>2, <2>1 DEF WindowHeld, ShockHeld, RebalanceHeld
  <2>3. ToldHeld'
    BY <1>1, <1>2, <2>1 DEF ToldHeld
  <2>4. PanicHeld' /\ HistoryHeld'
    BY <2>1 DEF PanicHeld, HistoryHeld
  <2> QED
    BY <2>2, <2>3, <2>4 DEF AnswerInv
<1>3. CASE answer.outcome # "ok"
  <2>1. stage' = answer.outcome /\ stage' \in Ends
    BY <1>3 DEF Answered, End
  <2>2. stage' = "panic" => PanicHeld'
    BY <1>1, <2>1 DEF PanicHeld, StressBeyond
  <2> QED
    BY <1>1, <2>1, <2>2, EndTells
<1> QED
  BY <1>2, <1>3

\* The answers that come with a model tell of its window.
LEMMA FromModelTells ==
    ASSUME RunInv, AnswerInv, stage = "windowed", Kind \in WithModel,
           NEW answer, FromModel(answer), answer.outcome \in Ends \cup {"ok"},
           answer.outcome = "panic" => StressBeyond,
           Kind = "FactorShock" =>
               answer = RunFactorShock(data, model, Portfolio, Request.input)
    PROVE  AnswerInv'
<1> DEFINE regime == [outcome |-> "ok", regime |-> model.regime]
<1>1. Answered(answer, regime, trace)
  BY DEF FromModel
<1>2. Window \in 1 .. Len(data.dates) /\ trace = WindowOf(data, Window)
  BY DEF AnswerInv, WindowHeld
<1>3. Modelled
  BY DEF Modelled
<1>4. Window \in Nat
  BY LoadedIs, WindowNat DEF Loaded
<1>5. Tells(trace, regime, data, World.hmm)
  <2>1. trace.periods = Window
    BY <1>2 DEF WindowOf
  <2> QED
    BY <1>2, <1>3, <1>4, <2>1, ModelSaw DEF Tells
<1>6. Kind # "CvarRebalance"
  BY DEF WithModel
<1> HIDE DEF regime
<1> QED
  BY <1>1, <1>2, <1>5, <1>6, AnswerTells

LEMMA PerformanceTells ==
    ASSUME RunInv, AnswerInv, PortfolioPerformance
    PROVE  AnswerInv'
<1> DEFINE answer == RunPortfolioPerformance(data, Portfolio, Window, World.hmm)
           regime == IF answer.outcome = "ok" THEN answer.regime ELSE Nothing
<1>1. stage = "windowed" /\ Kind = "PortfolioPerformance" /\ Answered(answer, regime, trace)
  BY DEF PortfolioPerformance
<1>2. Window \in 1 .. Len(data.dates) /\ trace = WindowOf(data, Window)
  BY <1>1 DEF AnswerInv, WindowHeld
<1>3. answer.outcome \in Faults \cup {"ok"} /\ answer.outcome # "panic"
  BY PerformanceEnds, NoPanic
<1>4. answer.outcome = "ok" => answer.regime = RegimeOfTail(data, Window, World.hmm)
  BY DEF RunPortfolioPerformance, Failed
<1> HIDE DEF answer
<1>5. /\ Window \in Nat /\ IsTable(data, TickersOf(Portfolio))
      /\ Len(data.factors["MARKET"]) \in Nat
  BY <1>1, LoadedIs, WindowNat DEF Loaded
<1>6. answer.outcome = "ok" => Tells(trace, regime, data, World.hmm)
  <2>1. SUFFICES ASSUME answer.outcome = "ok", regime.outcome = "ok"
                 PROVE  Tells(trace, regime, data, World.hmm)
    BY DEF Tells
  <2>2. regime = RegimeOfTail(data, Window, World.hmm)
    BY <1>4, <2>1
  <2>3. /\ Window \in MinModelWindow .. Len(data.factors["MARKET"])
        /\ regime.regime = FitHmm(World.hmm, MarketTail(data, Window))
    BY <2>1, <2>2 DEF RegimeOfTail, Failed
  <2> DEFINE n == Len(data.factors["MARKET"])
             w == Window
  <2>4. w \in 1 .. n /\ Smaller(w, n) = w
    <3>1. n \in Nat /\ w \in Nat /\ w \in MinModelWindow .. n /\ MinModelWindow \in Nat \ {0}
      BY <1>5, <2>3, ModelAssumption
    <3> HIDE DEF n, w
    <3> QED
      BY <3>1 DEF Smaller
  <2>5. trace.periods = Window
    BY <1>2 DEF WindowOf
  <2> QED
    BY <1>2, <1>5, <2>3, <2>4, <2>5 DEF Tells
<1> HIDE DEF regime
<1> QED
  BY <1>1, <1>3, <1>6, AnswerTells DEF Ends

LEMMA RebalancedTells ==
    ASSUME RunInv, AnswerInv, CvarRebalanced
    PROVE  AnswerInv'
<1> DEFINE input == Request.input
           answer == RunCvarRebalance(data, input, World.hmm, World.estimates)
           n == WindowUsed(data, input)
           fit == FitFactorModel(data, input.portfolio.tickers, n, input.frequency,
                                 World.hmm, World.estimates)
<1>1. /\ stage = "loaded" /\ Kind = "CvarRebalance"
      /\ IF answer.outcome = "ok"
         THEN Answered(answer, answer.regime, WindowOf(data, answer.window))
         ELSE Answered(answer, Nothing, Nothing)
  BY DEF CvarRebalanced, WindowOf
<1>2. /\ answer.outcome = "panic" => CommonLength(data, input.portfolio) = 0
      /\ answer.outcome = "ok" =>
            /\ answer.window = n
            /\ answer.regime.outcome = "ok" =>
                  fit.outcome = "ok" /\ answer.regime.regime = fit.regime
  BY RebalanceTells
<1>3. /\ Request \in Requests /\ Request.kind = "CvarRebalance"
      /\ IsTable(data, TickersOf(Request.portfolio))
      /\ data.factors["MARKET"] \in Seq(Moves(World.raw["MARKET"]))
      /\ IsFit(World.hmm, Moves(World.raw["MARKET"]))
  BY <1>1, LoadedIs DEF Loaded, Kind, Portfolio
<1>4. input.portfolio = Request.portfolio
  BY <1>3, SessionsAssumption DEF IsRequest
<1>5. n \in Nat
  BY <1>3, WindowUsedNat
<1>6. answer.outcome \in Ends \cup {"ok"}
  BY RebalanceEnds DEF Ends
<1>7. answer.outcome = "panic" => \E t \in DOMAIN data.stocks : data.stocks[t] = << >>
  <2>1. SUFFICES ASSUME answer.outcome = "panic"
                 PROVE  \E t \in DOMAIN data.stocks : data.stocks[t] = << >>
    OBVIOUS
  <2>2. PICK t \in DOMAIN data.stocks : Len(data.stocks[t]) = 0
    <3>1. CommonLength(data, Request.portfolio) = 0
      BY <1>2, <1>4, <2>1
    <3> QED
      BY <1>3, <3>1, CommonIs
  <2>3. data.stocks[t] \in Seq(Int)
    BY <1>3 DEF IsTable
  <2> QED
    BY <2>2, <2>3
<1>8. answer.outcome = "ok" =>
         Tells(WindowOf(data, answer.window), answer.regime, data, World.hmm)
  <2>1. SUFFICES ASSUME answer.outcome = "ok", answer.regime.outcome = "ok"
                 PROVE  Tells(WindowOf(data, answer.window), answer.regime, data, World.hmm)
    BY DEF Tells
  <2>2. answer.window = n /\ fit.outcome = "ok" /\ answer.regime.regime = fit.regime
    BY <1>2, <2>1
  <2> HIDE DEF n
  <2>3. /\ Smaller(n, Len(data.factors["MARKET"])) \in 1 .. Len(data.factors["MARKET"])
        /\ fit.regime = FitHmm(World.hmm,
               MarketTail(data, Smaller(n, Len(data.factors["MARKET"]))))
    BY <1>3, <1>5, <2>2, FitIs
  <2>4. WindowOf(data, n).periods = n
    BY DEF WindowOf
  <2> HIDE DEF answer, fit
  <2> QED
    BY <1>5, <2>2, <2>3, <2>4 DEF Tells
<1> HIDE DEF answer
<1>9. PICK regime, window :
          /\ Answered(answer, regime, window)
          /\ answer.outcome = "ok" => Tells(window, regime, data, World.hmm)
  BY <1>1, <1>8
<1>10. answer = RunCvarRebalance(data, Request.input, World.hmm, World.estimates)
  BY DEF answer
<1> QED
  BY <1>1, <1>6, <1>7, <1>9, <1>10, AnswerTells

LEMMA DriftTells == ASSUME RunInv, AnswerInv, RiskDrift PROVE AnswerInv'
<1> DEFINE result == RunRiskDecomposition(data, model, Portfolio)
           answer(i) == IF result.outcome # "ok" THEN result
                        ELSE ComputeRiskDrift(i, stored[i], result, model.regime)
<1>1. stage = "windowed" /\ Kind = "RiskDrift"
  BY DEF RiskDrift
<1>2. PICK i \in Baseline : FromModel(answer(i))
  BY DEF RiskDrift
<1>3. answer(i).outcome \in Ends \cup {"ok"} /\ answer(i).outcome # "panic"
  <2>1. /\ result.outcome \in Ends \cup {"ok"} /\ result.outcome # "panic"
        /\ ComputeRiskDrift(i, stored[i], result, model.regime).outcome \in Ends \cup {"ok"}
        /\ ComputeRiskDrift(i, stored[i], result, model.regime).outcome # "panic"
    BY DecompositionEnds, DriftEnds, NoPanic DEF Ends
  <2> HIDE DEF result
  <2> QED
    BY <2>1
<1> HIDE DEF answer
<1> QED
  BY <1>1, <1>2, <1>3, FromModelTells DEF WithModel

LEMMA ExperimentTells ==
    ASSUME RunInv, AnswerInv,
           FactorShock \/ RiskDecomposition \/ ReverseStressed \/ PolicyCheck
    PROVE  AnswerInv'
<1>1. CASE FactorShock
  <2> DEFINE answer == RunFactorShock(data, model, Portfolio, Request.input)
  <2>1. answer.outcome \in Ends \cup {"ok"} /\ answer.outcome # "panic"
    BY ShockEnds, NoPanic DEF Ends
  <2>2. stage = "windowed" /\ Kind = "FactorShock" /\ FromModel(answer)
    BY <1>1 DEF FactorShock
  <2> QED
    BY <2>1, <2>2, FromModelTells DEF WithModel
<1>2. CASE RiskDecomposition
  <2> DEFINE answer == RunRiskDecomposition(data, model, Portfolio)
  <2>1. answer.outcome \in Ends \cup {"ok"} /\ answer.outcome # "panic"
    BY DecompositionEnds, NoPanic DEF Ends
  <2>2. stage = "windowed" /\ Kind = "RiskDecomposition" /\ FromModel(answer)
    BY <1>2 DEF RiskDecomposition
  <2> HIDE DEF answer
  <2> QED
    BY <2>1, <2>2, FromModelTells DEF WithModel
<1>3. CASE ReverseStressed
  <2>1. PICK stopped : FromModel(RunReverseStress(model, Portfolio, Request.input, stopped))
    BY <1>3 DEF ReverseStressed
  <2> DEFINE answer == RunReverseStress(model, Portfolio, Request.input, stopped)
  <2>2. answer.outcome \in Ends \cup {"ok"}
    BY StressEnds
  <2>3. stage = "windowed" /\ Kind = "ReverseStress" /\ FromModel(answer)
    BY <1>3, <2>1 DEF ReverseStressed
  <2>4. \A k \in DOMAIN Request.input.bounds :
            IsBound(Request.input.bounds[k].lower) /\ IsBound(Request.input.bounds[k].upper)
    BY <2>3, RequestIn, SessionsAssumption DEF RunInv, IsRequest, Kind
  <2>5. answer.outcome = "panic" => StressBeyond
    BY <2>3, <2>4, StressPanics DEF StressBeyond
  <2> HIDE DEF answer
  <2> QED
    BY <2>2, <2>3, <2>5, FromModelTells DEF WithModel
<1>4. CASE PolicyCheck
  <2> DEFINE answer == RunPolicyCheck(Request.input, data, model, Portfolio)
  <2>1. answer.outcome \in Ends \cup {"ok"} /\ answer.outcome # "panic"
    BY CheckEnds, NoPanic DEF Ends
  <2>2. stage = "windowed" /\ Kind = "PolicyCheck" /\ FromModel(answer)
    BY <1>4 DEF PolicyCheck
  <2> HIDE DEF answer
  <2> QED
    BY <2>1, <2>2, FromModelTells DEF WithModel
<1> QED
  BY <1>1, <1>2, <1>3, <1>4

\* A policy changes neither window nor regime of a trace.
LEMMA PolicyTells == ASSUME RunInv, AnswerInv, AttachPolicy PROVE AnswerInv'
<1>1. session' = session /\ data' = data /\ stage = "ran" /\ World' = World
  BY DEF AttachPolicy, World, Request
<1>2. \/ stage' = "error"
      \/ stage' = "judged" /\ trace' = trace
      \/ stage' = "judged" /\ \E result : trace' = [trace EXCEPT !.policy = result]
  BY DEF AttachPolicy, End
<1>3. CASE stage' = "error"
  BY <1>1, <1>3, EndTells DEF Ends, Faults
<1>4. CASE stage' = "judged" /\ (trace' = trace \/ \E result : trace' = [trace EXCEPT !.policy = result])
  <2>1. DOMAIN trace = TraceFields
    BY <1>1 DEF RunInv, TraceHeld, Traced
  <2>2. trace'.window = trace.window /\ trace'.regime = trace.regime
    BY <1>4, <2>1 DEF TraceFields
  <2>3. ToldHeld'
    BY <1>1, <2>2 DEF AnswerInv, ToldHeld, Traced
  <2>4. WindowHeld' /\ ShockHeld' /\ RebalanceHeld' /\ PanicHeld' /\ HistoryHeld'
    BY <1>4 DEF WindowHeld, ShockHeld, RebalanceHeld, PanicHeld, HistoryHeld
  <2> QED
    BY <2>3, <2>4 DEF AnswerInv
<1> QED
  BY <1>2, <1>3, <1>4

\* The history that is attached is of the data of the request.
LEMMA HistoryTells == ASSUME RunInv, AnswerInv, AttachHistory PROVE AnswerInv'
<1>1. /\ session' = session /\ data' = data /\ stage = "judged" /\ stage' = "answered"
      /\ Request' = Request /\ World' = World /\ Portfolio' = Portfolio
      /\ FrequencyOf(Request)' = FrequencyOf(Request)
  BY DEF AttachHistory, World, Request, Portfolio, FrequencyOf
<1> DEFINE regime(d) == RegimeForHistory(trace.regime, d,
                            DefaultWindow(FrequencyOf(Request)), World.hmm)
<1>2. PICK reloaded \in {data, Nothing} :
          trace' = [trace EXCEPT !.history =
              IF reloaded = Nothing \/ regime(reloaded).outcome # "ok" THEN Nothing
              ELSE ComputePortfolioHistory(reloaded, Portfolio, regime(reloaded).regime)]
  BY DEF AttachHistory
<1>3. DOMAIN trace = TraceFields /\ data = LoadedFor(Request) /\ data.outcome = "ok"
  BY <1>1 DEF RunInv, TraceHeld, Traced, DataHeld, Loaded
<1> HIDE DEF regime
<1>4. /\ trace'.window = trace.window /\ trace'.regime = trace.regime
      /\ trace'.history = IF reloaded = Nothing \/ regime(reloaded).outcome # "ok" THEN Nothing
                          ELSE ComputePortfolioHistory(reloaded, Portfolio, regime(reloaded).regime)
  BY <1>2, <1>3 DEF TraceFields
<1>5. Tells(trace.window, trace.regime, data, World.hmm)
  BY <1>1 DEF AnswerInv, ToldHeld, Traced
<1>6. HistoryHeld'
  <2>1. SUFFICES ASSUME trace'.history.outcome = "ok" PROVE HistoryHeld'
    BY DEF HistoryHeld
  <2>2. Nothing.outcome # "ok"
    BY DEF Nothing, Failed
  <2>3. ~(reloaded = Nothing \/ regime(reloaded).outcome # "ok")
    BY <1>4, <2>1, <2>2
  <2>4. reloaded = data
    BY <1>2, <2>3
  <2>5. regime(data)' = regime(data)
    BY <1>1, <1>4 DEF regime
  <2> QED
    BY <1>1, <1>3, <1>4, <1>5, <2>3, <2>4, <2>5 DEF HistoryHeld, regime
<1>7. WindowHeld' /\ ShockHeld' /\ RebalanceHeld' /\ ToldHeld' /\ PanicHeld'
  BY <1>1 DEF WindowHeld, ShockHeld, RebalanceHeld, ToldHeld, Traced, PanicHeld
<1> QED
  BY <1>6, <1>7 DEF AnswerInv

LEMMA SameTells == ASSUME AnswerInv, UNCHANGED vars PROVE AnswerInv'
<1>1. /\ session' = session /\ stored' = stored /\ data' = data /\ model' = model
      /\ trace' = trace /\ stage' = stage
  BY DEF vars
<1>2. /\ Request' = Request /\ World' = World /\ Portfolio' = Portfolio /\ Kind' = Kind
      /\ Window' = Window
  BY <1>1 DEF Request, World, Portfolio, Kind, Window, FrequencyOf
<1>3. WindowHeld' /\ ShockHeld' /\ RebalanceHeld' /\ ToldHeld' /\ PanicHeld'
  BY <1>1, <1>2 DEF AnswerInv, WindowHeld, ShockHeld, RebalanceHeld, ToldHeld, Traced, PanicHeld,
         StressBeyond
<1>4. HistoryHeld'
  BY <1>1, <1>2 DEF AnswerInv, HistoryHeld, FrequencyOf, LoadedFor
<1> QED
  BY <1>3, <1>4 DEF AnswerInv

LEMMA AnswerInvKept == RunInv /\ AnswerInv /\ [Next]_vars => AnswerInv'
<1>1. SUFFICES ASSUME RunInv, AnswerInv, [Next]_vars PROVE AnswerInv'
  OBVIOUS
<1>2. CASE RefuseRequest \/ LoadData \/ FitModel \/ BuildDataWindow
  BY <1>1, <1>2, RefuseTells, LoadTells, FitTells, BuildTells
<1>3. CASE \/ FactorShock \/ RiskDecomposition \/ RiskDrift \/ ReverseStressed
           \/ PolicyCheck \/ PortfolioPerformance \/ CvarRebalanced
  BY <1>1, <1>3, ExperimentTells, DriftTells, PerformanceTells, RebalancedTells
<1>4. CASE AttachPolicy \/ AttachHistory
  BY <1>1, <1>4, PolicyTells, HistoryTells
<1>5. CASE NextRequest
  <2>1. stage' = "asked"
    BY <1>5 DEF NextRequest
  <2> QED
    BY <2>1 DEF AnswerInv, WindowHeld, ShockHeld, RebalanceHeld, ToldHeld, Traced, PanicHeld, HistoryHeld
<1>6. CASE Idle \/ UNCHANGED vars
  BY <1>1, <1>6, SameTells DEF Idle
<1> QED
  BY <1>1, <1>2, <1>3, <1>4, <1>5, <1>6 DEF Next

LEMMA AnswerInvAlways == Spec => []AnswerInv
<1>1. Init => AnswerInv
  BY DEF Init, AnswerInv, WindowHeld, ShockHeld, RebalanceHeld, ToldHeld, Traced, PanicHeld, HistoryHeld
<1> QED
  BY <1>1, RunInvAlways, AnswerInvKept, PTL DEF Spec

\* The last time the market moved as far, by date.
LEMMA LastWithin ==
    ASSUME NEW md, NEW m, NEW move, NEW tickers, IsTable(md, tickers),
           NEW asked \in 1 .. Len(md.dates),
           m.window = Smaller(asked, Len(md.factors["MARKET"])),
           m.window \in 1 .. Len(md.factors["MARKET"]),
           ShockContext(md, m, move).last # None
    PROVE  ShockContext(md, m, move).last \in
               WindowOf(md, asked).start .. WindowOf(md, asked).end
<1> DEFINE returns == md.factors["MARKET"]
           n == Len(returns)
           w == Smaller(m.window, n)
           hits == {i \in 1 .. w :
                       Magnitude(returns[Len(returns) - w + i]) >= Magnitude(move)}
           days == Len(md.dates)
           i == Max(hits)
           last == ShockContext(md, m, move).last
<1>1. last = IF hits = {} THEN None ELSE md.dates[days - w + i]
  BY DEF ShockContext
<1>2. /\ md.dates \in Seq(Nat) /\ days \in Nat \ {0} /\ n = days - 1
      /\ \A a, b \in 1 .. days : a < b => md.dates[a] < md.dates[b]
  BY DEF IsTable, FactorTickers
<1>3. asked \in 1 .. days /\ m.window = Smaller(asked, n) /\ m.window \in 1 .. n
  OBVIOUS
<1>4. WindowOf(md, asked).start = md.dates[days - asked + 1] /\ WindowOf(md, asked).end = md.dates[days]
  BY DEF WindowOf
<1>5. hits \subseteq 1 .. w
  OBVIOUS
<1> HIDE DEF hits, n, days, i, last
<1>6. w \in 1 .. n /\ w <= asked /\ w < days
  BY <1>2, <1>3 DEF Smaller
<1> HIDE DEF w
<1>7. hits # {} /\ last = md.dates[days - w + i]
  BY <1>1 DEF last
<1>8. i \in hits
  <2>1. 1 \in Int /\ w \in Int
    BY <1>6
  <2>2. IsFiniteSet(1 .. w)
    BY <2>1, FS_Interval, Zenon
  <2>3. IsFiniteSet(hits)
    BY <1>5, <2>2, FS_Subset
  <2>4. hits \in SUBSET Int
    BY <1>5
  <2> QED
    BY <1>7, <2>3, <2>4, MaxIs DEF i
<1>9. i \in 1 .. w
  BY <1>5, <1>8
<1>10. /\ days - asked + 1 \in 1 .. days /\ days - w + i \in 1 .. days
       /\ days - asked + 1 <= days - w + i /\ days \in 1 .. days
  BY <1>2, <1>3, <1>6, <1>9
<1>11. \A a, b \in 1 .. days : a <= b => md.dates[a] <= md.dates[b] /\ md.dates[a] \in Nat
  <2>1. SUFFICES ASSUME NEW a \in 1 .. days, NEW b \in 1 .. days, a <= b
                 PROVE  md.dates[a] <= md.dates[b] /\ md.dates[a] \in Nat
    OBVIOUS
  <2>2. md.dates[a] \in Nat /\ md.dates[b] \in Nat
    <3>1. md.dates \in Seq(Nat)
      BY <1>2
    <3>2. a \in 1 .. Len(md.dates) /\ b \in 1 .. Len(md.dates)
      BY DEF days
    <3> QED
      BY <3>1, <3>2
  <2>3. CASE a = b
    BY <2>2, <2>3
  <2>4. CASE a # b
    <3>1. days \in Nat
      BY <1>2
    <3>2. a < b
      BY <2>1, <2>4, <3>1
    <3>3. md.dates[a] < md.dates[b]
      BY <1>2, <3>2
    <3> QED
      BY <2>2, <3>3
  <2> QED
    BY <2>3, <2>4
<1>12. /\ md.dates[days - asked + 1] <= md.dates[days - w + i]
       /\ md.dates[days - w + i] <= md.dates[days]
       /\ md.dates[days - asked + 1] \in Nat /\ md.dates[days - w + i] \in Nat
       /\ md.dates[days] \in Nat
  <2> DEFINE a == days - asked + 1
             b == days - w + i
  <2>1. a \in 1 .. days /\ b \in 1 .. days /\ a <= b /\ days \in 1 .. days /\ b <= days
        /\ days <= days
    BY <1>10
  <2> HIDE DEF a, b
  <2>2. /\ md.dates[a] <= md.dates[b] /\ md.dates[b] <= md.dates[days]
        /\ md.dates[a] \in Nat /\ md.dates[b] \in Nat /\ md.dates[days] \in Nat
    BY <1>11, <2>1
  <2> QED
    BY <2>2 DEF a, b
<1>13. last \in md.dates[days - asked + 1] .. md.dates[days]
  BY <1>7, <1>12
<1> QED
  BY <1>4, <1>13 DEF last

LEMMA AnswerInvSound == RunInv /\ AnswerInv => DataWindowSound
<1>1. ASSUME RunInv, AnswerInv, stage = "ran", trace.regime.outcome = "ok"
      PROVE  /\ Total(trace.regime.regime.observations)
                    = Smaller(trace.window.periods, Len(data.dates) - 1)
             /\ trace.window.end = data.dates[Len(data.dates)]
             /\ (Kind = "FactorShock" /\ trace.answer.context.last # None) =>
                   trace.answer.context.last \in trace.window.start .. trace.window.end
  <2> DEFINE n == trace.window.periods
             w == Smaller(n, Len(data.factors["MARKET"]))
             observed == MarketTail(data, w)
  <2>1. Loaded /\ Traced
    BY <1>1 DEF Loaded, Traced
  <2>2. /\ trace.window = WindowOf(data, n) /\ n \in Nat
        /\ w \in 1 .. Len(data.factors["MARKET"])
        /\ trace.regime.regime = FitHmm(World.hmm, observed)
    BY <1>1, <2>1 DEF AnswerInv, ToldHeld, Tells
  <2>3. /\ IsTable(data, TickersOf(Portfolio))
        /\ data.factors["MARKET"] \in Seq(Moves(World.raw["MARKET"]))
        /\ IsFit(World.hmm, Moves(World.raw["MARKET"]))
    BY <1>1, <2>1, LoadedIs
  <2> HIDE DEF n, w
  <2>4. Observation(World.hmm, observed, Moves(World.raw["MARKET"])) /\ Len(observed) = w
    BY <2>2, <2>3, TailObserved
  <2>5. Total(trace.regime.regime.observations) = w
    <3> HIDE DEF observed
    <3> QED
      BY <2>2, <2>4, LabelsIn
  <2>6. w = Smaller(n, Len(data.dates) - 1)
    BY <2>3 DEF IsTable, FactorTickers, w
  <2>7. trace.window.end = data.dates[Len(data.dates)]
    BY <2>2 DEF WindowOf
  <2>8. ASSUME Kind = "FactorShock", trace.answer.context.last # None
        PROVE  trace.answer.context.last \in trace.window.start .. trace.window.end
    <3>1. /\ Window \in 1 .. Len(data.dates) /\ trace.window = WindowOf(data, Window)
          /\ trace.answer = RunFactorShock(data, model, Portfolio, Request.input)
          /\ trace.answer.outcome = "ok"
      BY <1>1, <2>8 DEF AnswerInv, WindowHeld, ShockHeld
    <3>2. PICK move : trace.answer.context = ShockContext(data, model, move)
      <4> DEFINE primary == PropagateAndPrice(model.covariance, model, Portfolio, Request.input)
                 crisis == CrisisComparison(model, Portfolio, Request.input)
      <4>1. trace.answer = ShockReport(data, model, Portfolio, Request.input, primary, crisis)
        BY <3>1 DEF RunFactorShock
      <4> HIDE DEF primary, crisis
      <4> QED
        BY <3>1, <4>1 DEF ShockReport, Failed
    <3>3. Modelled
      BY <1>1, <2>8 DEF Modelled, WithModel
    <3>4. /\ model.window = Smaller(Window, Len(data.factors["MARKET"]))
          /\ model.window \in 1 .. Len(data.factors["MARKET"])
      BY <1>1, <3>3, ModelSaw
    <3> QED
      BY <2>3, <2>8, <3>1, <3>2, <3>4, LastWithin
  <2> QED
    BY <2>5, <2>6, <2>7, <2>8 DEF n
<1>2. ASSUME RunInv, AnswerInv, stage = "panic"
      PROVE  \/ GapWithin(World.raw, Calendar(World.raw["MARKET"]))
             \/ Kind # "CvarRebalance" /\ Window \notin 1 .. Len(data.dates)
             \/ Kind = "CvarRebalance" /\ \E t \in DOMAIN data.stocks : data.stocks[t] = <<>>
             \/ StressBeyond
  BY <1>2 DEF AnswerInv, PanicHeld
<1> QED
  BY <1>1, <1>2 DEF DataWindowSound, StressBeyond

(* The regimes a trace counts fill the window it shows, the last time the  *)
(* market moved as far is a day of that window, and of the steps modelled  *)
(* those that panic do so for a gap in a factor, a window of nothing or    *)
(* longer than the dates, a rebalance of a holding with a single close, or *)
(* a bound of a reverse stress beyond the loss of everything.              *)
THEOREM DataWindowAlways == Spec => []DataWindowSound
BY RunInvAlways, AnswerInvAlways, AnswerInvSound, PTL

(***************************************************************************)
(* The history of a portfolio                                              *)
(***************************************************************************)
\* The value, one step after the other.
CompoundWalk(steps, path) ==
    path = [t \in 0 .. Len(steps) |->
              IF t = 0 THEN 1 ELSE path[t - 1] * (Whole * Unit + steps[t])]

LEMMA CompoundIsWalk ==
    ASSUME NEW steps
    PROVE  Compound(steps) = CHOOSE path : CompoundWalk(steps, path)
BY DEF Compound, CompoundWalk

LEMMA CompoundSteps ==
    ASSUME NEW steps \in Seq(Int)
    PROVE  \A t \in 1 .. Len(steps) :
              Compound(steps)[t] = Compound(steps)[t - 1] * (Whole * Unit + steps[t])
<1> DEFINE n == Len(steps)
           factor(t) == Whole * Unit + steps[t]
           step == [p \in (1 .. n) \X Int |-> p[2] * factor(p[1])]
<1>1. n \in Nat /\ \A t \in 1 .. n : factor(t) \in Int
  <2>1. Whole * Unit \in Int
    BY PathAssumption, ExperimentAssumption
  <2>2. n \in Nat /\ \A t \in 1 .. n : steps[t] \in Int
    OBVIOUS
  <2> HIDE DEF n
  <2> QED
    BY <2>1, <2>2
<1> HIDE DEF factor, n
<1>2. /\ step \in [(1 .. n) \X Int -> Int]
      /\ \A t \in 1 .. n : \A x \in Int : step[<<t, x>>] = x * factor(t)
  <2>1. \A a, b \in Int : a * b \in Int
    OBVIOUS
  <2> QED
    BY <1>1, <2>1
<1> HIDE DEF step
<1>3. PICK w \in [0 .. n -> Int] : IsLoop(w, n, 1, step)
  <2>1. 1 \in Int
    OBVIOUS
  <2> QED
    BY <1>1, <1>2, <2>1, LoopExists
<1>4. CompoundWalk(steps, w)
  <2> DEFINE body(t) == IF t = 0 THEN 1 ELSE w[t - 1] * factor(t)
  <2>1. ASSUME NEW t \in 0 .. n PROVE w[t] = body(t)
    <3>1. CASE t = 0
      BY <1>3, <3>1 DEF IsLoop
    <3>2. CASE t # 0
      <4>1. t \in 1 .. n /\ t - 1 \in 0 .. n
        BY <1>1, <3>2
      <4>2. w[t] = step[<<t, w[t - 1]>>] /\ w[t - 1] \in Int
        BY <1>3, <4>1 DEF IsLoop
      <4> QED
        BY <1>2, <3>2, <4>1, <4>2
    <3> QED
      BY <3>1, <3>2
  <2>2. w = [t \in 0 .. n |-> w[t]]
    BY <1>3
  <2>3. w = [t \in 0 .. n |-> body(t)]
    <3> HIDE DEF body
    <3> QED
      BY <2>1, <2>2
  <2> QED
    BY <2>3 DEF CompoundWalk, n, factor
<1> DEFINE chosen == CHOOSE path : CompoundWalk(steps, path)
<1>5. CompoundWalk(steps, chosen)
  BY <1>4
<1>6. chosen = Compound(steps)
  BY CompoundIsWalk
<1> HIDE DEF chosen
<1>7. chosen = [t \in 0 .. n |-> IF t = 0 THEN 1 ELSE chosen[t - 1] * factor(t)]
  BY <1>5 DEF CompoundWalk, n, factor
<1>8. \A t \in 1 .. n : t \in 0 .. n /\ t # 0
  BY <1>1
<1>9. \A t \in 1 .. n : chosen[t] = chosen[t - 1] * factor(t)
  <2> DEFINE body(t) == IF t = 0 THEN 1 ELSE chosen[t - 1] * factor(t)
  <2>1. chosen = [t \in 0 .. n |-> body(t)]
    BY <1>7
  <2>2. \A t \in 1 .. n : body(t) = chosen[t - 1] * factor(t)
    BY <1>8
  <2> HIDE DEF body
  <2>3. \A t \in 0 .. n : chosen[t] = body(t)
    BY <2>1
  <2> QED
    BY <1>8, <2>2, <2>3
<1> QED
  BY <1>6, <1>9 DEF n, factor

\* What the holdings of a request earn so many days before the last.
Earned(md, p, back) ==
    Total([i \in Holdings(p) |->
        LET own == md.stocks[p.tickers[i]]
            at  == Len(own) - back
        IN  IF at \in DOMAIN own THEN p.weights[i] * LogToSimple(own[at]) ELSE 0])

LEMMA StepsOf ==
    ASSUME NEW md, NEW tickers, IsTable(md, tickers), NEW length \in Nat,
           NEW p, IsFiniteSet(Holdings(p)), p.weights \in [Holdings(p) -> Nat],
           \A i \in Holdings(p) : p.tickers[i] \in tickers
    PROVE  /\ WeightedSteps(md, p, length) \in Seq(Int)
           /\ Len(WeightedSteps(md, p, length)) = length
           /\ \A t \in 1 .. length :
                 WeightedSteps(md, p, length)[t] = Earned(md, p, length - t)
<1> DEFINE H == Holdings(p)
           own(i) == md.stocks[p.tickers[i]]
           gain(t, i) == IF Len(own(i)) - (length - t) < 1 THEN 0
                         ELSE p.weights[i] * LogToSimple(own(i)[Len(own(i)) - (length - t)])
           given(t, i) == IF Len(own(i)) - (length - t) \in DOMAIN own(i)
                          THEN p.weights[i] * LogToSimple(own(i)[Len(own(i)) - (length - t)])
                          ELSE 0
           row(t) == [i \in H |-> gain(t, i)]
           steps == [t \in 1 .. length |-> Total(row(t))]
<1>1. WeightedSteps(md, p, length) = steps
  BY DEF WeightedSteps
<1>2. /\ IsFiniteSet(H) /\ p.weights \in [H -> Nat]
      /\ \A i \in H : own(i) \in Seq(Int) /\ Len(own(i)) \in Nat /\ DOMAIN own(i) = 1 .. Len(own(i))
  BY DEF IsTable
<1> HIDE DEF own, H
<1>3. \A t \in 1 .. length : \A i \in H : gain(t, i) = given(t, i) /\ gain(t, i) \in Int
  <2>1. SUFFICES ASSUME NEW t \in 1 .. length, NEW i \in H
                 PROVE  gain(t, i) = given(t, i) /\ gain(t, i) \in Int
    OBVIOUS
  <2> DEFINE n == Len(own(i))
             at == n - (length - t)
  <2>2. n \in Nat /\ DOMAIN own(i) = 1 .. n /\ own(i) \in Seq(Int) /\ p.weights[i] \in Nat
    BY <1>2
  <2>3. (at < 1) <=> ~(at \in 1 .. n)
    <3> HIDE DEF n
    <3> QED
      BY <2>2
  <2>4. at \in 1 .. n => p.weights[i] * LogToSimple(own(i)[at]) \in Int
    <3>1. SUFFICES ASSUME at \in 1 .. n PROVE p.weights[i] * LogToSimple(own(i)[at]) \in Int
      OBVIOUS
    <3>2. own(i)[at] \in Int
      BY <2>2, <3>1
    <3>3. LogToSimple(own(i)[at]) \in Int
      <4> HIDE DEF at
      <4> QED
        BY <3>2, SimpleAbove
    <3>4. \A a, b \in Int : a * b \in Int
      OBVIOUS
    <3> QED
      BY <2>2, <3>3, <3>4
  <2> QED
    BY <2>2, <2>3, <2>4
<1> HIDE DEF gain
<1>4. \A t \in 1 .. length : Total(row(t)) \in Int
  <2>1. SUFFICES ASSUME NEW t \in 1 .. length PROVE Total(row(t)) \in Int
    OBVIOUS
  <2>2. row(t) \in [H -> Int]
    BY <1>3
  <2> HIDE DEF row
  <2> QED
    BY <1>2, <2>2, TotalInt
<1>5. \A t \in 1 .. length : Total(row(t)) = Earned(md, p, length - t)
  <2>1. SUFFICES ASSUME NEW t \in 1 .. length PROVE Total(row(t)) = Earned(md, p, length - t)
    OBVIOUS
  <2>2. row(t) = [i \in H |-> given(t, i)]
    <3> HIDE DEF given
    <3> QED
      BY <1>3
  <2>3. Earned(md, p, length - t) = Total([i \in H |-> given(t, i)])
    BY DEF Earned, own, H
  <2> QED
    BY <2>2, <2>3
<1> HIDE DEF row
<1>6. steps \in Seq(Int) /\ Len(steps) = length
  BY <1>4
<1> QED
  BY <1>1, <1>5, <1>6

LEMMA StepsAre ==
    ASSUME NEW r \in Requests, NEW md, IsTable(md, TickersOf(r.portfolio)), NEW length \in Nat
    PROVE  /\ WeightedSteps(md, r.portfolio, length) \in Seq(Int)
           /\ Len(WeightedSteps(md, r.portfolio, length)) = length
           /\ \A t \in 1 .. length :
                 WeightedSteps(md, r.portfolio, length)[t] = Earned(md, r.portfolio, length - t)
<1> DEFINE p == r.portfolio
<1>1. IsFiniteSet(Holdings(p)) /\ p.weights \in [Holdings(p) -> Nat]
  BY RequestIs
<1>2. \A i \in Holdings(p) : p.tickers[i] \in TickersOf(p)
  BY DEF TickersOf
<1> HIDE DEF p
<1> QED
  BY <1>1, <1>2, StepsOf DEF p

\* How far a date is behind the last.
Behind(md, date) ==
    Len(md.dates) - (CHOOSE k \in DOMAIN md.dates : md.dates[k] = date)

LEMMA BehindIs ==
    ASSUME NEW md, NEW tickers, IsTable(md, tickers), NEW k \in 1 .. Len(md.dates)
    PROVE  Behind(md, md.dates[k]) = Len(md.dates) - k
<1> DEFINE found == CHOOSE j \in DOMAIN md.dates : md.dates[j] = md.dates[k]
           n == Len(md.dates)
<1>1. /\ DOMAIN md.dates = 1 .. n /\ n \in Nat
      /\ \A i, j \in 1 .. n : i < j => md.dates[i] < md.dates[j]
      /\ \A i \in 1 .. n : md.dates[i] \in Nat
  BY DEF IsTable
<1>2. found \in 1 .. n /\ md.dates[found] = md.dates[k]
  BY <1>1
<1> HIDE DEF found
<1>3. found = k
  <2>1. k \in 1 .. n
    OBVIOUS
  <2> HIDE DEF n
  <2>2. ~(found < k) /\ ~(k < found)
    <3>1. \A a \in Nat : ~(a < a)
      OBVIOUS
    <3>2. md.dates[k] \in Nat
      BY <1>1, <2>1
    <3> QED
      BY <1>1, <1>2, <2>1, <3>1, <3>2
  <2>3. found \in Int /\ k \in Int
    BY <1>1, <1>2, <2>1
  <2> QED
    BY <2>2, <2>3
<1> QED
  BY <1>3 DEF Behind, found

\* What a history shows: labels of the last days of m, beside the last dates.
IsHistory(shown, md, p, sequence, m, points) ==
    /\ points <= m + 1
    /\ Len(shown.dates) = points
    /\ \A j \in 1 .. points : shown.dates[j] = md.dates[(Len(md.dates) - points) + j]
    /\ Len(shown.regimes) = points
    /\ \A j \in 2 .. points : shown.regimes[j] = sequence[(m - points) + j]
    /\ \A j \in 2 .. points : shown.value[j - 1] = shown.value[j - 2]
          * (Whole * Unit + Earned(md, p, points - j))

LEMMA HistoryIs ==
    ASSUME NEW r \in Requests, NEW md, IsTable(md, TickersOf(r.portfolio)),
           NEW regime, NEW m \in Nat, regime.sequence \in [1 .. m -> States],
           NEW shown, shown = ComputePortfolioHistory(md, r.portfolio, regime),
           shown.outcome = "ok"
    PROVE  \E points \in 2 .. Len(md.dates) :
              IsHistory(shown, md, r.portfolio, regime.sequence, m, points)
<1> DEFINE days == Len(md.dates)
           sequence == regime.sequence
           given == {HistoryPoints, Len(md.dates), Len(regime.sequence) + 1}
           points == Min(given)
           length == points - 1
           steps == WeightedSteps(md, r.portfolio, length)
           labels == LastLabels(sequence, length)
           told == <<labels[1]>> \o labels
           dates == SubSeq(md.dates, days - points + 1, days)
<1>1. sequence \in Seq(States) /\ Len(sequence) = m
  OBVIOUS
<1>2. md.dates \in Seq(Nat) /\ days \in Nat
  BY DEF IsTable
<1>3. shown = IF points < 2 THEN Failed("none")
              ELSE [outcome |-> "ok", dates |-> dates, value |-> Compound(steps),
                    regimes |-> told]
  BY DEF ComputePortfolioHistory
<1> HIDE DEF sequence
<1>4. points \in Nat /\ points <= days /\ points <= m + 1
  <2>1. given = {HistoryPoints, days, m + 1}
    BY <1>1 DEF sequence
  <2> HIDE DEF days, given
  <2>2. given \in SUBSET Nat /\ given # {}
    BY <1>2, <2>1, PathAssumption
  <2>3. \A k \in given : Min(given) <= k
    BY <2>2, MinIs
  <2>4. Min(given) \in given
    BY <2>2, MinIs
  <2> QED
    BY <2>1, <2>2, <2>3, <2>4
<1> HIDE DEF days, points, steps, labels, told, dates, given
<1>5. /\ ~(points < 2) /\ shown.dates = dates /\ shown.value = Compound(steps)
      /\ shown.regimes = told
  BY <1>3 DEF Failed
<1>6. /\ points \in 2 .. days /\ length \in 1 .. m
      /\ days - points + 1 \in 1 .. days + 1 /\ m - length + 1 \in 1 .. m + 1
  <2>1. \A d, e, g \in Nat :
           e <= d /\ e <= g + 1 /\ ~(e < 2) =>
             /\ e \in 2 .. d /\ e - 1 \in 1 .. g
             /\ d - e + 1 \in 1 .. d + 1 /\ g - (e - 1) + 1 \in 1 .. g + 1
    OBVIOUS
  <2>2. days \in Nat /\ points \in Nat /\ m \in Nat
    BY <1>2, <1>4
  <2> QED
    BY <1>4, <1>5, <2>1, <2>2
<1>7. /\ Len(dates) = points
      /\ \A j \in 1 .. points : dates[j] = md.dates[(days - points) + j]
  <2> DEFINE a == days - points + 1
  <2>1. a \in 1 .. Len(md.dates) + 1
    BY <1>6 DEF days
  <2>2. (Len(md.dates) - a) + 1 = points /\ a - 1 = days - points
    BY <1>2, <1>4 DEF days
  <2>3. dates = SubSeq(md.dates, a, Len(md.dates))
    BY DEF dates, days
  <2> HIDE DEF a
  <2>4. /\ Len(dates) = (Len(md.dates) - a) + 1
        /\ \A i \in 1 .. (Len(md.dates) - a) + 1 : dates[i] = md.dates[(a - 1) + i]
    BY <1>2, <2>1, <2>3, TailIs
  <2> QED
    BY <2>2, <2>4
<1>8. /\ labels \in Seq(States) /\ Len(labels) = length
      /\ \A j \in 1 .. length : labels[j] = sequence[(m - length) + j]
  <2> DEFINE a == m - length + 1
  <2>1. a \in 1 .. Len(sequence) + 1
    BY <1>1, <1>6
  <2>2. (Len(sequence) - a) + 1 = length /\ a - 1 = m - length
    BY <1>1, <1>6
  <2>3. labels = SubSeq(sequence, a, Len(sequence))
    BY <1>1 DEF labels, LastLabels
  <2> HIDE DEF a, length
  <2>4. /\ SubSeq(sequence, a, Len(sequence)) \in Seq(States)
        /\ Len(SubSeq(sequence, a, Len(sequence))) = (Len(sequence) - a) + 1
        /\ \A i \in 1 .. (Len(sequence) - a) + 1 :
              SubSeq(sequence, a, Len(sequence))[i] = sequence[(a - 1) + i]
    BY <1>1, <2>1, TailIs
  <2> QED
    BY <2>2, <2>3, <2>4
<1>9. /\ Len(told) = points
      /\ \A j \in 2 .. points : told[j] = labels[j - 1]
  <2>1. <<labels[1]>> \in Seq(States) /\ Len(<<labels[1]>>) = 1
    <3>1. labels[1] \in States
      BY <1>6, <1>8
    <3> QED
      BY <3>1
  <2> DEFINE one == <<labels[1]>>
  <2>2. told = one \o labels
    BY DEF told
  <2>3. one \in Seq(States) /\ Len(one) = 1
    BY <2>1
  <2> HIDE DEF one, length
  <2>4. /\ Len(one \o labels) = 1 + length
        /\ \A i \in 1 .. 1 + length :
              (one \o labels)[i] = IF i <= 1 THEN one[i] ELSE labels[i - 1]
    <3>1. /\ Len(one \o labels) = Len(one) + Len(labels)
          /\ \A i \in 1 .. Len(one) + Len(labels) :
                (one \o labels)[i] = IF i <= Len(one) THEN one[i] ELSE labels[i - Len(one)]
      BY <1>8, <2>3, ConcatProperties
    <3> QED
      BY <1>8, <2>3, <3>1
  <2>5. length + 1 = points /\ 1 + length = points
    BY <1>4 DEF length
  <2> QED
    BY <1>4, <1>6, <2>2, <2>4, <2>5
<1>10. ASSUME NEW j \in 2 .. points
       PROVE  /\ told[j] = sequence[(m - points) + j]
              /\ Compound(steps)[j - 1] = Compound(steps)[j - 2]
                    * (Whole * Unit + Earned(md, r.portfolio, points - j))
  <2> DEFINE i == j - 1
  <2>1. i \in 1 .. length /\ (m - length) + i = (m - points) + j /\ i - 1 = j - 2
        /\ length - i = points - j /\ length \in Nat
    BY <1>4, <1>6, <1>10
  <2>2. told[j] = labels[i]
    BY <1>9, <1>10
  <2> HIDE DEF i, length
  <2>3. labels[i] = sequence[(m - length) + i]
    BY <1>8, <2>1
  <2>4. /\ steps \in Seq(Int) /\ Len(steps) = length
        /\ steps[i] = Earned(md, r.portfolio, length - i)
    BY <2>1, StepsAre DEF steps
  <2>5. Compound(steps)[i] = Compound(steps)[i - 1] * (Whole * Unit + steps[i])
    BY <2>1, <2>4, CompoundSteps
  <2> QED
    BY <2>1, <2>2, <2>3, <2>4, <2>5 DEF i
<1> QED
  BY <1>4, <1>5, <1>6, <1>7, <1>9, <1>10 DEF days, sequence, IsHistory

\* The regime a history is drawn with has a label for each of some last days.
LEMMA HistoryLabels ==
    ASSUME RequestsHeld, data = LoadedFor(Request), data.outcome = "ok",
           NEW existing, NEW window, Tells(window, existing, data, World.hmm),
           NEW regime,
           regime = RegimeForHistory(existing, data,
                        DefaultWindow(FrequencyOf(Request)), World.hmm),
           regime.outcome = "ok"
    PROVE  \E m \in Nat : regime.regime.sequence \in [1 .. m -> States]
<1> DEFINE moves == Moves(World.raw["MARKET"])
           n == Len(data.factors["MARKET"])
           asked == DefaultWindow(FrequencyOf(Request))
<1>1. data.factors["MARKET"] \in Seq(moves) /\ IsFit(World.hmm, moves)
  BY LoadedTable
<1>2. \E w \in 1 .. n : regime.regime = FitHmm(World.hmm, MarketTail(data, w))
  <2>1. CASE existing.outcome = "ok"
    <3>1. regime = existing
      BY <2>1 DEF RegimeForHistory
    <3> QED
      BY <2>1, <3>1 DEF Tells
  <2>2. CASE existing.outcome # "ok"
    <3>1. regime = RegimeOfTail(data, asked, World.hmm)
      BY <2>2 DEF RegimeForHistory
    <3>2. /\ asked \in MinModelWindow .. n
          /\ regime.regime = FitHmm(World.hmm, MarketTail(data, asked))
      BY <3>1 DEF RegimeOfTail, Failed
    <3>3. asked \in 1 .. n
      <4>1. n \in Nat /\ asked \in Nat \ {0}
        BY <1>1, DefaultNat
      <4> HIDE DEF n, asked
      <4> QED
        BY <3>2, <4>1, ModelAssumption
    <3> QED
      BY <3>2, <3>3
  <2> QED
    BY <2>1, <2>2
<1>3. PICK w \in 1 .. n : regime.regime = FitHmm(World.hmm, MarketTail(data, w))
  BY <1>2
<1>4. Observation(World.hmm, MarketTail(data, w), moves) /\ Len(MarketTail(data, w)) = w
  <2> HIDE DEF moves
  <2> QED
    BY <1>1, TailObserved
<1>5. FitHmm(World.hmm, MarketTail(data, w)).sequence \in [1 .. w -> States]
  <2> DEFINE observed == MarketTail(data, w)
  <2>1. FitHmm(World.hmm, observed).sequence \in [1 .. Len(observed) -> States]
    <3> HIDE DEF observed
    <3> QED
      BY <1>4, LabelsIn DEF observed
  <2> QED
    BY <1>4, <2>1
<1>6. w \in Nat
  BY <1>1
<1> QED
  BY <1>3, <1>5, <1>6

LEMMA AnswerInvHistory == RunInv /\ AnswerInv => HistoryKeepsDates
<1> DEFINE shown == trace.history
           found == RegimeForHistory(trace.regime, data,
                        DefaultWindow(FrequencyOf(Request)), World.hmm)
           regime == found.regime
<1>1. SUFFICES ASSUME RunInv, AnswerInv, stage = "answered", shown.outcome = "ok"
               PROVE  /\ Len(shown.regimes) = Len(shown.dates)
                      /\ shown.dates[Len(shown.dates)] = data.dates[Len(data.dates)]
                      /\ \A j \in 2 .. Len(shown.dates) :
                            /\ shown.regimes[j] = regime.sequence[
                                  Len(regime.sequence) - Behind(data, shown.dates[j])]
                            /\ shown.value[j - 1] = shown.value[j - 2]
                                  * (Whole * Unit
                                       + Earned(data, Portfolio, Behind(data, shown.dates[j])))
  BY DEF HistoryKeepsDates, Behind, Earned
<1>2. /\ RequestsHeld /\ data = LoadedFor(Request) /\ data.outcome = "ok"
      /\ Tells(trace.window, trace.regime, data, World.hmm)
      /\ found.outcome = "ok" /\ shown = ComputePortfolioHistory(data, Portfolio, regime)
  BY <1>1 DEF AnswerInv, HistoryHeld, RunInv
<1>3. Request \in Requests /\ IsTable(data, TickersOf(Portfolio))
  BY <1>2, RequestIn, LoadedTable
<1> HIDE DEF found
<1>4. PICK m \in Nat : regime.sequence \in [1 .. m -> States]
  BY <1>2, HistoryLabels DEF found
<1> HIDE DEF regime, shown
<1>5. Len(regime.sequence) = m
  BY <1>4
<1>6. PICK points \in 2 .. Len(data.dates) :
         IsHistory(shown, data, Portfolio, regime.sequence, m, points)
  <2>1. Portfolio = Request.portfolio
    BY DEF Portfolio
  <2> QED
    BY <1>1, <1>2, <1>3, <1>4, <2>1, HistoryIs
<1>7. Len(data.dates) \in Nat /\ points \in Nat /\ points >= 2 /\ points <= Len(data.dates)
      /\ points <= m + 1 /\ Len(shown.dates) = points /\ Len(shown.regimes) = points
  BY <1>3, <1>6 DEF IsTable, IsHistory
<1>8. ASSUME NEW j \in 1 .. points PROVE Behind(data, shown.dates[j]) = points - j
  <2> DEFINE n == Len(data.dates)
             k == (n - points) + j
  <2>1. k \in 1 .. n /\ n - k = points - j
    <3>1. n \in Nat /\ points \in Nat /\ points <= n /\ j \in 1 .. points
      BY <1>7, <1>8
    <3> HIDE DEF n
    <3> QED
      BY <3>1
  <2>2. shown.dates[j] = data.dates[k]
    BY <1>6, <1>8 DEF IsHistory
  <2> HIDE DEF k
  <2>3. Behind(data, data.dates[k]) = n - k
    BY <1>3, <2>1, BehindIs
  <2> QED
    BY <2>1, <2>2, <2>3
<1>9. shown.dates[Len(shown.dates)] = data.dates[Len(data.dates)]
  <2>1. points \in 1 .. points /\ (Len(data.dates) - points) + points = Len(data.dates)
    BY <1>7
  <2>2. shown.dates[points] = data.dates[(Len(data.dates) - points) + points]
    BY <1>6, <2>1 DEF IsHistory
  <2> QED
    BY <1>7, <2>1, <2>2
<1>10. ASSUME NEW j \in 2 .. Len(shown.dates)
       PROVE  /\ shown.regimes[j] = regime.sequence[
                    Len(regime.sequence) - Behind(data, shown.dates[j])]
              /\ shown.value[j - 1] = shown.value[j - 2]
                    * (Whole * Unit + Earned(data, Portfolio, Behind(data, shown.dates[j])))
  <2>1. j \in 2 .. points /\ j \in 1 .. points /\ m - (points - j) = (m - points) + j
    BY <1>7, <1>10
  <2>2. Behind(data, shown.dates[j]) = points - j
    BY <1>8, <2>1
  <2>3. /\ shown.regimes[j] = regime.sequence[(m - points) + j]
        /\ shown.value[j - 1] = shown.value[j - 2]
               * (Whole * Unit + Earned(data, Portfolio, points - j))
    BY <1>6, <2>1 DEF IsHistory
  <2> QED
    BY <1>5, <2>1, <2>2, <2>3
<1> QED
  BY <1>7, <1>9, <1>10

(* The label a history shows at a date is the one the path gives to the    *)
(* return of that date, and between two of its points the value grows by   *)
(* the weighted returns of that date, though the path, the history and the *)
(* returns of each holding have lengths of their own.                      *)
THEOREM HistoryAlways == Spec => []HistoryKeepsDates
BY RunInvAlways, AnswerInvAlways, AnswerInvHistory, PTL

(***************************************************************************)
(* The loop that rebalances again while the policy is breached             *)
(***************************************************************************)
Judged(md, input, m, solution) ==
    EvaluatePolicy(input.policy, md, m, Reweighted(input.portfolio, solution.weights))

RemedyStart(md, input, m, first) ==
    [confidence |-> input.confidence, solution |-> first,
     result |-> Judged(md, input, m, first), tries |-> 0, stuck |-> FALSE]

Tighter(confidence) == Smaller(confidence + ConfidenceStep, 999)

\* What a try makes of what was held before.
RemedyBody(md, input, window, m, try, held) ==
    LET retry == Solve(md, input, window, Tighter(held.confidence), try)
    IN  IF held.result.allPassed \/ held.stuck THEN held
        ELSE IF retry.outcome # "optimal"
        THEN [held EXCEPT !.tries = @ + 1, !.stuck = TRUE]
        ELSE Improved(held, Tighter(held.confidence), retry, Judged(md, input, m, retry))

RemedyWalk(md, input, window, m, first, loop) ==
    loop = [try \in 0 .. MaxRemediations |->
              IF try = 0 THEN RemedyStart(md, input, m, first)
              ELSE RemedyBody(md, input, window, m, try, loop[try - 1])]

LEMMA RemediateIsWalk ==
    ASSUME NEW md, NEW input, NEW window, NEW m, NEW first
    PROVE  Remediate(md, input, window, m, first)
             = (CHOOSE loop : RemedyWalk(md, input, window, m, first, loop))[MaxRemediations]
BY DEF Remediate, RemedyWalk, RemedyStart, RemedyBody, Judged, Tighter

\* Whether there is a solution depends neither on the confidence nor, but for the
\* solver giving up, on the try.
LEMMA SolveSame ==
    ASSUME NEW md, NEW input, NEW window, NEW c, NEW a, NEW d, NEW b,
           Solve(md, input, window, c, a).outcome = "optimal"
    PROVE  Solve(md, input, window, d, b).outcome
             = IF b \in input.failing THEN "failed" ELSE "optimal"
<1> DEFINE portfolio == input.portfolio
           before == portfolio.weights
           cap == IF input.cap = Unset THEN DefaultCap ELSE input.cap
           over == Total([i \in DOMAIN before |-> IF before[i] > cap THEN before[i] - cap ELSE 0])
           choices == Feasible(before, cap, input.turnover)
           stopped == \/ cap * Len(before) < Whole
                      \/ 2 * over > input.turnover
                      \/ choices = {}
           answer(e, f) == Solve(md, input, window, e, f).outcome
<1>1. \A e, f : answer(e, f) = IF cap \notin 1 .. Whole THEN "error"
                               ELSE IF stopped THEN "infeasible"
                               ELSE IF f \in input.failing THEN "failed" ELSE "optimal"
  <2> HIDE DEF choices, over, cap
  <2> QED
    BY DEF Solve, Failed, choices, over, cap
<1>2. answer(c, a) = "optimal"
  OBVIOUS
<1> HIDE DEF answer, stopped, cap
<1>3. cap \in 1 .. Whole /\ ~stopped
  BY <1>1, <1>2
<1>4. answer(d, b) = IF b \in input.failing THEN "failed" ELSE "optimal"
  BY <1>1, <1>3
<1> QED
  BY <1>4 DEF answer

\* All limits are kept when none is breached.
LEMMA PassedIs ==
    ASSUME NEW policy, NEW md, NEW m, NEW p, EvaluatePolicy(policy, md, m, p).outcome = "ok"
    PROVE  EvaluatePolicy(policy, md, m, p).allPassed
             <=> EvaluatePolicy(policy, md, m, p).breached = {}
<1>1. \A checks : /\ Verdict(checks).outcome = "ok"
                  /\ Verdict(checks).allPassed <=> Verdict(checks).breached = {}
  BY DEF Verdict
<1>2. Failed("error").outcome # "ok"
  BY DEF Failed
<1>3. \E checks : EvaluatePolicy(policy, md, m, p) \in {Failed("error"), Verdict(checks)}
  BY DEF EvaluatePolicy
<1> QED
  BY <1>1, <1>2, <1>3

\* A policy can be judged for all weights or for none.
LEMMA JudgedSame ==
    ASSUME NEW md, NEW input, NEW m, NEW s, NEW t,
           input.portfolio.tickers = Reweighted(input.portfolio, s.weights).tickers,
           input.portfolio.tickers = Reweighted(input.portfolio, t.weights).tickers,
           Judged(md, input, m, s).outcome = "ok"
    PROVE  Judged(md, input, m, t).outcome = "ok"
<1>1. \A checks : Verdict(checks).outcome = "ok"
  BY DEF Verdict
<1>2. Failed("error").outcome # "ok"
  BY DEF Failed
<1> DEFINE policy == input.policy
           fails == \/ DOMAIN policy.scenarios \ DOMAIN Scenarios # {}
                    \/ input.portfolio.tickers # m.tickers /\ DOMAIN policy.scenarios # {}
<1>3. \A u : input.portfolio.tickers = Reweighted(input.portfolio, u.weights).tickers =>
        \E checks : Judged(md, input, m, u) = IF fails THEN Failed("error") ELSE Verdict(checks)
  BY DEF Judged, EvaluatePolicy
<1> HIDE DEF fails
<1> QED
  BY <1>1, <1>2, <1>3

\* What is true of what is held after a number of tries.
Remedied(md, input, window, m, first, try, held) ==
    /\ held.confidence \in Nat /\ held.tries \in Nat /\ held.tries <= try
    /\ held.solution.outcome = "optimal"
    /\ \E a \in Nat : held.solution = Solve(md, input, window, held.confidence, a)
    /\ held.result = Judged(md, input, m, held.solution)
    /\ held.tries = 0 => held.solution = first
    /\ held.tries > 0 => ~Judged(md, input, m, first).allPassed
    /\ \/ held.result.allPassed
       \/ held.stuck /\ held.tries \in input.failing
       \/ ~held.stuck /\ held.tries = try

Solutions(md, input, window) == {Solve(md, input, window, c, a) : c, a \in Nat}
Remedies(md, input, window, m) ==
    [confidence : Nat, solution : Solutions(md, input, window),
     result : {Judged(md, input, m, s) : s \in Solutions(md, input, window)},
     tries : Nat, stuck : BOOLEAN]

LEMMA StuckKept ==
    ASSUME NEW A, NEW B, NEW C, NEW F, NEW flag \in F,
           NEW held \in [confidence : A, solution : B, result : C, tries : Nat, stuck : F]
    PROVE  [held EXCEPT !.stuck = flag]
             \in [confidence : A, solution : B, result : C, tries : Nat, stuck : F]
OBVIOUS

\* A try that fails is counted, and is the last one.
LEMMA GivenUp ==
    ASSUME NEW A, NEW B, NEW C, NEW F, NEW flag \in F, NEW t \in Nat,
           NEW held \in [confidence : A, solution : B, result : C, tries : Nat, stuck : F]
    PROVE  [held EXCEPT !.tries = t, !.stuck = flag]
             \in [confidence : A, solution : B, result : C, tries : Nat, stuck : F]
<1> DEFINE all == [confidence : A, solution : B, result : C, tries : Nat, stuck : F]
           counted == [held EXCEPT !.tries = t]
<1>1. counted \in all
  OBVIOUS
<1>2. [counted EXCEPT !.stuck = flag] \in all
  <2> HIDE DEF counted
  <2> QED
    BY <1>1, StuckKept
<1>3. [held EXCEPT !.tries = t, !.stuck = flag] = [counted EXCEPT !.stuck = flag]
  OBVIOUS
<1> QED
  BY <1>2, <1>3

LEMMA TighterNat == ASSUME NEW c \in Nat PROVE Tighter(c) \in Nat
BY RebalanceAssumption DEF Tighter, Smaller

LEMMA RemedyBodyIn ==
    ASSUME NEW md, NEW input, NEW window, NEW m, NEW try \in Nat,
           NEW held \in Remedies(md, input, window, m)
    PROVE  RemedyBody(md, input, window, m, try, held) \in Remedies(md, input, window, m)
<1> DEFINE c == Tighter(held.confidence)
           retry == Solve(md, input, window, c, try)
           sols == Solutions(md, input, window)
           judgements == {Judged(md, input, m, s) : s \in sols}
           all == [confidence : Nat, solution : sols, result : judgements,
                   tries : Nat, stuck : BOOLEAN]
<1>1. c \in Nat
  BY TighterNat DEF Remedies
<1>2. retry \in sols
  BY <1>1 DEF Solutions
<1>3. Judged(md, input, m, retry) \in judgements
  BY <1>2
<1>4. held \in all
  BY DEF Remedies
<1>5. RemedyBody(md, input, window, m, try, held)
        = IF held.result.allPassed \/ held.stuck THEN held
          ELSE IF retry.outcome # "optimal"
          THEN [held EXCEPT !.tries = @ + 1, !.stuck = TRUE]
          ELSE Improved(held, c, retry, Judged(md, input, m, retry))
  BY DEF RemedyBody
<1> HIDE DEF c, retry, sols, judgements
<1>6. [held EXCEPT !.tries = @ + 1, !.stuck = TRUE] \in all
  <2>1. held.tries + 1 \in Nat /\ TRUE \in BOOLEAN
    BY <1>4
  <2>2. [held EXCEPT !.tries = held.tries + 1, !.stuck = TRUE] \in all
    BY <1>4, <2>1, GivenUp, Zenon
  <2> QED
    BY <2>2
<1>7. Improved(held, c, retry, Judged(md, input, m, retry)) \in all
  BY <1>1, <1>2, <1>3, <1>4 DEF Improved
<1> QED
  BY <1>4, <1>5, <1>6, <1>7 DEF Remedies, sols, judgements

\* One more try keeps it.
LEMMA RemedyKeeps ==
    ASSUME NEW md, NEW input, NEW window, NEW m, NEW first, NEW try \in Nat,
           NEW held \in Remedies(md, input, window, m),
           Remedied(md, input, window, m, first, try, held)
    PROVE  Remedied(md, input, window, m, first, try + 1,
                    RemedyBody(md, input, window, m, try + 1, held))
<1> DEFINE c == Tighter(held.confidence)
           next == try + 1
           retry == Solve(md, input, window, c, next)
           verdict == Judged(md, input, m, retry)
           after == RemedyBody(md, input, window, m, next, held)
<1>1. after = IF held.result.allPassed \/ held.stuck THEN held
              ELSE IF retry.outcome # "optimal"
              THEN [held EXCEPT !.tries = @ + 1, !.stuck = TRUE]
              ELSE Improved(held, c, retry, verdict)
  BY DEF RemedyBody
<1>2. c \in Nat /\ next \in Nat
  BY TighterNat DEF Remedies
<1>3. /\ held.confidence \in Nat /\ held.tries \in Nat /\ held.tries <= try
      /\ held.solution.outcome = "optimal"
      /\ \E a \in Nat : held.solution = Solve(md, input, window, held.confidence, a)
      /\ held.result = Judged(md, input, m, held.solution)
      /\ held.tries = 0 => held.solution = first
      /\ held.tries > 0 => ~Judged(md, input, m, first).allPassed
      /\ \/ held.result.allPassed
         \/ held.stuck /\ held.tries \in input.failing
         \/ ~held.stuck /\ held.tries = try
  BY DEF Remedied
<1>4. retry.outcome = IF next \in input.failing THEN "failed" ELSE "optimal"
  BY <1>3, SolveSame
<1>5. DOMAIN held = {"confidence", "solution", "result", "tries", "stuck"}
  BY DEF Remedies
<1> HIDE DEF after, retry, verdict, c
<1>6. CASE held.result.allPassed \/ held.stuck
  <2>1. after = held
    BY <1>1, <1>6
  <2>2. held.tries <= next
    BY <1>3
  <2> QED
    BY <1>3, <1>6, <2>1, <2>2 DEF Remedied, after, next
<1>7. CASE ~(held.result.allPassed \/ held.stuck)
  <2>1. held.tries = try /\ ~Judged(md, input, m, first).allPassed
    <3>1. held.tries = try
      BY <1>3, <1>7
    <3>2. CASE held.tries = 0
      BY <1>3, <1>7, <3>2
    <3>3. CASE held.tries # 0
      <4>1. held.tries \in Nat
        BY <1>3
      <4>2. held.tries > 0
        BY <3>3, <4>1
      <4> QED
        BY <1>3, <3>1, <4>2
    <3> QED
      BY <3>1, <3>2, <3>3
  <2>2. CASE retry.outcome # "optimal"
    <3>1. /\ after.confidence = held.confidence /\ after.solution = held.solution
          /\ after.result = held.result /\ after.tries = held.tries + 1 /\ after.stuck = TRUE
      BY <1>1, <1>5, <1>7, <2>2
    <3>2. after.tries = next /\ next \in input.failing
      BY <1>4, <2>1, <2>2, <3>1
    <3>3. next \in Nat /\ next <= next /\ next > 0
      OBVIOUS
    <3> QED
      BY <1>3, <2>1, <3>1, <3>2, <3>3 DEF Remedied, after, next
  <2>3. CASE retry.outcome = "optimal"
    <3>1. /\ after.confidence = c /\ after.solution = retry /\ after.result = verdict
          /\ after.tries = held.tries + 1 /\ after.stuck = FALSE
      BY <1>1, <1>7, <2>3 DEF Improved
    <3>2. after.tries = next
      BY <2>1, <3>1
    <3>3. next \in Nat /\ next <= next /\ next > 0
      OBVIOUS
    <3>4. \E a \in Nat : retry = Solve(md, input, window, c, a)
      BY <1>2 DEF retry
    <3>5. verdict = Judged(md, input, m, retry)
      BY DEF verdict
    <3> QED
      BY <1>2, <2>1, <2>3, <3>1, <3>2, <3>3, <3>4, <3>5 DEF Remedied, after, next
  <2> QED
    BY <2>2, <2>3
<1> QED
  BY <1>6, <1>7 DEF after, next

LEMMA RemediateHolds ==
    ASSUME NEW md, NEW input, input.confidence \in Nat, NEW window, NEW m, NEW first,
           first = Solve(md, input, window, input.confidence, 0), first.outcome = "optimal"
    PROVE  Remedied(md, input, window, m, first, MaxRemediations,
                    Remediate(md, input, window, m, first))
<1> DEFINE V == Remedies(md, input, window, m)
           n == MaxRemediations
           start == RemedyStart(md, input, m, first)
           body(try, held) == RemedyBody(md, input, window, m, try, held)
           step == [p \in (1 .. n) \X V |-> body(p[1], p[2])]
           chosen == CHOOSE loop : RemedyWalk(md, input, window, m, first, loop)
<1>1. n \in Nat
  BY RebalanceAssumption
<1>2. start \in V
  <2>1. first \in Solutions(md, input, window)
    BY DEF Solutions
  <2> QED
    BY <2>1 DEF RemedyStart, Remedies
<1>3. \A try \in 1 .. n : \A held \in V : body(try, held) \in V
  BY <1>1, RemedyBodyIn
<1> HIDE DEF V, body
<1>4. /\ step \in [(1 .. n) \X V -> V]
      /\ \A try \in 1 .. n : \A held \in V : step[<<try, held>>] = body(try, held)
  BY <1>3
<1> HIDE DEF step, start, n
<1>5. PICK w \in [0 .. n -> V] : IsLoop(w, n, start, step)
  BY <1>1, <1>2, <1>4, LoopExists
<1>6. RemedyWalk(md, input, window, m, first, w)
  <2> DEFINE at(try) == IF try = 0 THEN start ELSE body(try, w[try - 1])
  <2>1. ASSUME NEW try \in 0 .. n PROVE w[try] = at(try)
    <3>1. CASE try = 0
      BY <1>5, <3>1 DEF IsLoop
    <3>2. CASE try # 0
      <4>1. try \in 1 .. n /\ try - 1 \in 0 .. n
        BY <1>1, <3>2
      <4>2. w[try] = step[<<try, w[try - 1]>>] /\ w[try - 1] \in V
        BY <1>5, <4>1 DEF IsLoop
      <4> QED
        BY <1>4, <3>2, <4>1, <4>2
    <3> QED
      BY <3>1, <3>2
  <2>2. w = [try \in 0 .. n |-> w[try]]
    BY <1>5
  <2>3. w = [try \in 0 .. n |-> at(try)]
    <3> HIDE DEF at
    <3> QED
      BY <2>1, <2>2
  <2> QED
    BY <2>3 DEF RemedyWalk, n, start, body
<1>7. RemedyWalk(md, input, window, m, first, chosen)
  BY <1>6
<1>8. Remediate(md, input, window, m, first) = chosen[n]
  BY RemediateIsWalk DEF n
<1> HIDE DEF chosen
<1>9. chosen = [try \in 0 .. n |-> IF try = 0 THEN start ELSE body(try, chosen[try - 1])]
  BY <1>7 DEF RemedyWalk, n, start, body
<1>10. /\ chosen[0] = start
       /\ \A try \in 1 .. n : chosen[try] = body(try, chosen[try - 1])
  <2> DEFINE at(try) == IF try = 0 THEN start ELSE body(try, chosen[try - 1])
  <2>1. chosen = [try \in 0 .. n |-> at(try)]
    BY <1>9
  <2>2. at(0) = start /\ \A try \in 1 .. n : try \in 0 .. n /\ at(try) = body(try, chosen[try - 1])
    BY <1>1
  <2>3. 0 \in 0 .. n
    BY <1>1
  <2> HIDE DEF at
  <2>4. \A try \in 0 .. n : chosen[try] = at(try)
    BY <2>1
  <2> QED
    BY <2>2, <2>3, <2>4
<1>11. \A try \in 0 .. n : chosen[try] \in V
  <2>1. GoesRound(chosen, n, V, step)
    BY <1>4, <1>10 DEF GoesRound
  <2>2. chosen[0] = start
    BY <1>10
  <2> QED
    BY <1>1, <1>2, <1>4, <2>1, <2>2, LoopHolds
<1> DEFINE holds(try) == Remedied(md, input, window, m, first, try, chosen[try])
           C == {try \in Nat : try <= n => holds(try)}
<1>12. 0 \in C
  <2>1. holds(0)
    <3>1. /\ start.confidence = input.confidence /\ start.solution = first
          /\ start.result = Judged(md, input, m, first)
          /\ start.tries = 0 /\ start.stuck = FALSE
      BY DEF start, RemedyStart
    <3>2. 0 \in Nat /\ 0 <= 0 /\ ~(0 > 0)
      OBVIOUS
    <3>3. \E a \in Nat : first = Solve(md, input, window, input.confidence, a)
      BY <3>2
    <3> QED
      BY <1>10, <3>1, <3>2, <3>3 DEF Remedied
  <2> QED
    BY <2>1
<1>13. \A try \in Nat : try \in C => try + 1 \in C
  <2>1. SUFFICES ASSUME NEW try \in Nat, holds(try), try + 1 <= n PROVE holds(try + 1)
    BY <1>1
  <2>2. try + 1 \in 1 .. n /\ (try + 1) - 1 = try /\ try \in 0 .. n
    BY <1>1, <2>1
  <2>3. chosen[try + 1] = body(try + 1, chosen[try]) /\ chosen[try] \in V
    BY <1>10, <1>11, <2>2
  <2>4. Remedied(md, input, window, m, first, try + 1, body(try + 1, chosen[try]))
    BY <2>1, <2>3, RemedyKeeps DEF V, body
  <2> QED
    BY <2>3, <2>4
<1>14. Nat \subseteq C
  <2> HIDE DEF C
  <2> QED
    BY <1>12, <1>13, NumberInduction
<1>15. holds(n)
  <2>1. n \in C /\ n <= n
    BY <1>1, <1>14
  <2> QED
    BY <2>1
<1> QED
  BY <1>8, <1>15 DEF n

\* What the output of a rebalance is put together from.
Reports(answer, md, input, n, fit, first, held, judged) ==
    /\ CommonLength(md, input.portfolio) # 0
    /\ input.confidence \in 0 .. 999 /\ first.outcome # "error"
    /\ answer.status = first.outcome /\ answer.window = n
    /\ answer.confidence = held.confidence /\ answer.solution = held.solution
    /\ answer.policyAfter = held.result /\ answer.tries = held.tries
    /\ answer.remaining = IF judged THEN held.result.breached ELSE {}
    /\ answer.resolved = IF judged THEN Judged(md, input, fit, first).breached
                                          \ held.result.breached
                         ELSE {}

LEMMA RebalanceReports ==
    ASSUME NEW md, NEW input, NEW hmm, NEW estimates, NEW answer,
           answer = RunCvarRebalance(md, input, hmm, estimates), answer.outcome = "ok"
    PROVE  LET n == WindowUsed(md, input)
               fit == FitFactorModel(md, input.portfolio.tickers, n, input.frequency,
                                     hmm, estimates)
               first == Solve(md, input, n, input.confidence, 0)
               policed == input.policy # Unset /\ fit.outcome = "ok"
               judged == policed /\ first.outcome = "optimal"
               held == IF judged THEN Remediate(md, input, n, fit, first)
                       ELSE [confidence |-> input.confidence, solution |-> first,
                             result |-> Failed("none"), tries |-> 0]
           IN  Reports(answer, md, input, n, fit, first, held, judged)
<1> DEFINE n == WindowUsed(md, input)
           fit == FitFactorModel(md, input.portfolio.tickers, n, input.frequency,
                                 hmm, estimates)
           first == Solve(md, input, n, input.confidence, 0)
           policed == input.policy # Unset /\ fit.outcome = "ok"
           judged == policed /\ first.outcome = "optimal"
           unjudged == [confidence |-> input.confidence, solution |-> first,
                        result |-> Failed("none"), tries |-> 0]
           held == IF judged THEN Remediate(md, input, n, fit, first) ELSE unjudged
           prepared == Prepared(md, input, n, fit)
           initial == Judged(md, input, fit, first)
           report == Report(md, input, prepared, initial, first.outcome, held)
           refused == \/ input.confidence \notin 0 .. 999
                      \/ prepared.before.outcome = "error"
                      \/ first.outcome = "error"
<1>1. answer = IF CommonLength(md, input.portfolio) = 0 THEN Failed("panic")
               ELSE Rebalanced(md, input, prepared, first)
  <2> HIDE DEF n, fit, first
  <2> QED
    BY DEF RunCvarRebalance, n, fit, first
<1>2. prepared.window = n /\ prepared.model = fit /\ (prepared.policed <=> policed)
  <2> HIDE DEF n, fit
  <2> QED
    BY DEF Prepared
<1> HIDE DEF prepared, n, fit, first
<1>3. Rebalanced(md, input, prepared, first) = IF refused THEN Failed("error") ELSE report
  <2>1. initial = EvaluatePolicy(input.policy, md, prepared.model,
                                 Reweighted(input.portfolio, first.weights))
    BY <1>2 DEF Judged
  <2>2. held = IF first.outcome = "optimal" /\ prepared.policed
               THEN Remediate(md, input, prepared.window, prepared.model, first)
               ELSE unjudged
    <3> HIDE DEF policed
    <3>1. CASE policed
      BY <1>2, <3>1
    <3>2. CASE ~policed
      BY <1>2, <3>2
    <3> QED
      BY <3>1, <3>2
  <2> HIDE DEF initial, unjudged, refused, held
  <2> QED
    BY <2>1, <2>2 DEF Rebalanced, refused, unjudged
<1> HIDE DEF held, initial
<1>4. /\ report.status = first.outcome /\ report.window = prepared.window
      /\ report.confidence = held.confidence /\ report.solution = held.solution
      /\ report.policyAfter = held.result /\ report.tries = held.tries
      /\ report.remaining = IF prepared.policed /\ first.outcome = "optimal"
                            THEN held.result.breached ELSE {}
      /\ report.resolved = IF prepared.policed /\ first.outcome = "optimal"
                           THEN initial.breached \ held.result.breached ELSE {}
  BY DEF Report
<1> HIDE DEF report, refused, policed
<1>5. Failed("panic").outcome # "ok" /\ Failed("error").outcome # "ok"
  BY DEF Failed
<1>6. CommonLength(md, input.portfolio) # 0 /\ ~refused /\ answer = report
  BY <1>1, <1>3, <1>5
<1>7. input.confidence \in 0 .. 999 /\ first.outcome # "error"
  BY <1>6 DEF refused
<1>8. /\ answer.status = first.outcome /\ answer.window = n
      /\ answer.confidence = held.confidence /\ answer.solution = held.solution
      /\ answer.policyAfter = held.result /\ answer.tries = held.tries
      /\ answer.remaining = IF judged THEN held.result.breached ELSE {}
      /\ answer.resolved = IF judged THEN initial.breached \ held.result.breached ELSE {}
  <2>1. judged <=> (prepared.policed /\ first.outcome = "optimal")
    <3> HIDE DEF prepared
    <3> QED
      BY <1>2
  <2> HIDE DEF judged
  <2> QED
    BY <1>2, <1>4, <1>6, <2>1
<1>9. Reports(answer, md, input, n, fit, first, held, judged)
  <2> HIDE DEF judged
  <2> QED
    BY <1>6, <1>7, <1>8 DEF Reports, initial
<1> QED
  BY <1>9 DEF held, policed, n, fit, first

LEMMA AnswerInvHonest == RunInv /\ AnswerInv => RemediationHonest
<1> SUFFICES ASSUME RunInv, AnswerInv, stage = "ran", Kind = "CvarRebalance",
                    trace.answer.status = "optimal", trace.answer.policyAfter.outcome = "ok"
             PROVE  RemediationHonest
  BY DEF RemediationHonest
<1> DEFINE input == Request.input
           answer == trace.answer
           n == WindowUsed(data, input)
           fit == FitFactorModel(data, input.portfolio.tickers, n, input.frequency,
                                 World.hmm, World.estimates)
           first == Solve(data, input, n, input.confidence, 0)
           policed == input.policy # Unset /\ fit.outcome = "ok"
           judged == policed /\ first.outcome = "optimal"
           loop == Remediate(data, input, n, fit, first)
           held == IF judged THEN loop
                   ELSE [confidence |-> input.confidence, solution |-> first,
                         result |-> Failed("none"), tries |-> 0]
<1>1. /\ answer = RunCvarRebalance(data, input, World.hmm, World.estimates)
      /\ answer.outcome = "ok"
  BY DEF AnswerInv, RebalanceHeld
<1>2. /\ input.confidence \in 0 .. 999 /\ first.outcome # "error"
      /\ answer.status = first.outcome /\ answer.window = n
      /\ answer.confidence = held.confidence /\ answer.solution = held.solution
      /\ answer.policyAfter = held.result /\ answer.tries = held.tries
      /\ answer.remaining = IF judged THEN held.result.breached ELSE {}
      /\ answer.resolved = IF judged THEN Judged(data, input, fit, first).breached
                                            \ held.result.breached
                           ELSE {}
  <2> HIDE DEF answer, input
  <2>1. Reports(answer, data, input, n, fit, first, held, judged)
    BY <1>1, RebalanceReports
  <2> HIDE DEF held, judged, n, fit, first
  <2> QED
    BY <2>1 DEF Reports
<1>3. answer.status = "optimal" /\ answer.policyAfter.outcome = "ok"
  OBVIOUS
<1>4. /\ input.portfolio = Portfolio /\ input.frequency = FrequencyOf(Request)
      /\ DOMAIN Portfolio = {"tickers", "weights", "value"}
  <2>1. Request \in Requests /\ Request.kind = "CvarRebalance"
    BY RequestIn DEF RunInv, Kind
  <2>2. IsRequest(Request)
    BY <2>1, SessionsAssumption
  <2> QED
    BY <2>1, <2>2 DEF IsRequest, Portfolio, FrequencyOf
<1> HIDE DEF answer, n, fit, first, loop
<1>5. first.outcome = "optimal" /\ judged
  BY <1>2, <1>3 DEF Failed
<1>6. /\ answer.solution = loop.solution /\ answer.policyAfter = loop.result
      /\ answer.tries = loop.tries /\ answer.remaining = loop.result.breached
      /\ answer.resolved = Judged(data, input, fit, first).breached \ loop.result.breached
  <2>1. held = loop
    BY <1>5
  <2> HIDE DEF held
  <2>2. answer.solution = loop.solution /\ answer.policyAfter = loop.result /\ answer.tries = loop.tries
    BY <1>2, <2>1
  <2>3. answer.remaining = loop.result.breached
    BY <1>2, <1>5, <2>1
  <2>4. answer.resolved = Judged(data, input, fit, first).breached \ loop.result.breached
    BY <1>2, <1>5, <2>1
  <2> QED
    BY <2>2, <2>3, <2>4
<1>7. Remedied(data, input, n, fit, first, MaxRemediations, loop)
  <2>1. input.confidence \in Nat
    <3> HIDE DEF answer, input, n, fit, first, policed, judged, loop, held
    <3>1. input.confidence \in 0 .. 999
      BY <1>2
    <3> DEFINE c == input.confidence
    <3>2. c \in 0 .. 999
      BY <3>1
    <3> HIDE DEF c
    <3>3. c \in Nat
      BY <3>2, SMT
    <3> QED
      BY <3>3 DEF c
  <2> HIDE DEF input
  <2> QED
    BY <1>5, <2>1, RemediateHolds DEF first, loop
<1>8. /\ loop.tries \in Nat /\ loop.result = Judged(data, input, fit, loop.solution)
      /\ loop.tries > 0 => ~Judged(data, input, fit, first).allPassed
      /\ \/ loop.result.allPassed
         \/ loop.stuck /\ loop.tries \in input.failing
         \/ ~loop.stuck /\ loop.tries = MaxRemediations
  BY <1>7 DEF Remedied
<1>9. \A w : Reweighted(input.portfolio, w).tickers = input.portfolio.tickers
  BY <1>4 DEF Reweighted
<1>10. loop.result.outcome = "ok"
  BY <1>3, <1>6
<1>11. Judged(data, input, fit, first).outcome = "ok"
  BY <1>8, <1>9, <1>10, JudgedSame
<1>12. /\ loop.result.allPassed <=> loop.result.breached = {}
       /\ Judged(data, input, fit, first).allPassed
             <=> Judged(data, input, fit, first).breached = {}
  <2>1. \A s : Judged(data, input, fit, s).outcome = "ok" =>
                  (Judged(data, input, fit, s).allPassed
                     <=> Judged(data, input, fit, s).breached = {})
    <3> HIDE DEF input
    <3> QED
      BY PassedIs DEF Judged
  <2> QED
    BY <1>8, <1>10, <1>11, <2>1
<1> DEFINE final == FitFactorModel(data, Portfolio.tickers, answer.window,
                        FrequencyOf(Request), World.hmm, World.estimates)
           verdict(w) == EvaluatePolicy(Request.input.policy, data, final,
                                        Reweighted(Portfolio, w)).breached
<1>13. final = fit
  <2>1. answer.window = n
    BY <1>2
  <2>2. input.portfolio.tickers = Portfolio.tickers /\ input.frequency = FrequencyOf(Request)
    BY <1>4
  <2> HIDE DEF input
  <2> QED
    BY <2>1, <2>2 DEF fit
<1> HIDE DEF final
<1>14. \A s : verdict(s.weights) = Judged(data, input, fit, s).breached
  BY <1>4, <1>13 DEF Judged
<1>15. first = Solve(data, Request.input, answer.window, Request.input.confidence, 0)
  BY <1>2 DEF first
<1> HIDE DEF verdict, input
<1>16. /\ answer.remaining = verdict(answer.solution.weights)
       /\ answer.resolved = verdict(first.weights) \ answer.remaining
       /\ answer.remaining # {} =>
             answer.tries = MaxRemediations \/ answer.tries \in input.failing
       /\ answer.tries > 0 => verdict(first.weights) # {}
  BY <1>6, <1>8, <1>12, <1>14
<1> QED
  BY <1>15, <1>16 DEF RemediationHonest, verdict, final, answer, input

(* The report on the policy is about the weights that are proposed,        *)
(* whatever the number of tries and whichever of them the solver gives up  *)
(* on: it never mixes the verdict of one try with the weights of another.  *)
THEOREM RemediationAlways == Spec => []RemediationHonest
BY RunInvAlways, AnswerInvAlways, AnswerInvHonest, PTL

(***************************************************************************)
(* The worst losses                                                        *)
(***************************************************************************)
\* The scenarios that come before one, from the worst on.
Worse(losses, s) ==
    {r \in DOMAIN losses : losses[r] > losses[s] \/ (losses[r] = losses[s] /\ r < s)}

Worst(losses, k) == {s \in DOMAIN losses : 1 + Cardinality(Worse(losses, s)) <= k}

LEMMA WorstLossesAre ==
    ASSUME NEW losses, NEW k
    PROVE  WorstLosses(losses, k) = Total([s \in Worst(losses, k) |-> losses[s]])
BY DEF WorstLosses, Worst, Worse

\* Every scenario comes before every other or after it.
LEMMA WorseIs ==
    ASSUME NEW n \in Nat, NEW losses \in [1 .. n -> Int]
    PROVE  /\ \A s \in 1 .. n : /\ s \notin Worse(losses, s)
                                /\ Worse(losses, s) \in SUBSET (1 .. n)
           /\ \A r, s \in 1 .. n : r = s \/ r \in Worse(losses, s) \/ s \in Worse(losses, r)
           /\ \A r, s \in 1 .. n : r \in Worse(losses, s) =>
                 Worse(losses, r) \subseteq Worse(losses, s) /\ losses[s] <= losses[r]
<1>1. \A s \in 1 .. n : losses[s] \in Int /\ s \in Int
  OBVIOUS
<1>2. \A s, r \in 1 .. n : r \in Worse(losses, s) <=>
         losses[r] > losses[s] \/ (losses[r] = losses[s] /\ r < s)
  BY DEF Worse
<1>3. \A s \in 1 .. n : Worse(losses, s) \in SUBSET (1 .. n)
  BY DEF Worse
<1>4. \A s \in 1 .. n : s \notin Worse(losses, s)
  BY <1>1, <1>2
<1>5. \A r, s \in 1 .. n : r = s \/ r \in Worse(losses, s) \/ s \in Worse(losses, r)
  BY <1>1, <1>2
<1>6. ASSUME NEW r \in 1 .. n, NEW s \in 1 .. n, r \in Worse(losses, s)
      PROVE  Worse(losses, r) \subseteq Worse(losses, s) /\ losses[s] <= losses[r]
  <2>1. losses[s] <= losses[r] /\ (losses[s] = losses[r] => r < s)
    BY <1>1, <1>2, <1>6
  <2>2. ASSUME NEW q \in Worse(losses, r) PROVE q \in Worse(losses, s)
    <3>1. q \in 1 .. n
      BY <1>3
    <3>2. losses[r] <= losses[q] /\ (losses[r] = losses[q] => q < r)
      BY <1>1, <1>2, <3>1, <2>2
    <3>3. losses[s] < losses[q] \/ (losses[s] = losses[q] /\ q < s)
      BY <1>1, <3>1, <3>2, <2>1
    <3> QED
      BY <1>1, <1>2, <3>1, <3>3
  <2> QED
    BY <2>1, <2>2
<1> QED
  BY <1>3, <1>4, <1>5, <1>6

\* There is a scenario with any number of worse ones.
LEMMA WorseRank ==
    ASSUME NEW n \in Nat, NEW losses \in [1 .. n -> Int], NEW k \in 1 .. n
    PROVE  \E z \in 1 .. n : Cardinality(Worse(losses, z)) = k - 1
<1> DEFINE S == 1 .. n
           key == [s \in S |-> s - n * losses[s]]
<1>1. \A s \in S : losses[s] \in Int /\ s \in Int /\ n * losses[s] \in Int
  <2>1. \A a, b \in Int : a * b \in Int
    OBVIOUS
  <2> QED
    BY <2>1
<1>2. \A a, b \in Int : a < b => n * a + n <= n * b
  <2>1. SUFFICES ASSUME NEW a \in Int, NEW b \in Int, a < b PROVE n * a + n <= n * b
    OBVIOUS
  <2>2. \A x, y \in Nat : x * y \in Nat
    OBVIOUS
  <2>3. n * (b - a - 1) \in Nat
    BY <2>1, <2>2
  <2>4. n * (b - a - 1) = n * b - n * a - n
    OBVIOUS
  <2>5. n * a \in Int /\ n * b \in Int
    OBVIOUS
  <2> QED
    BY <2>3, <2>4, <2>5
<1>3. \A r, s \in S : r \in Worse(losses, s) <=> key[r] < key[s]
  <2>1. SUFFICES ASSUME NEW r \in S, NEW s \in S
                 PROVE  r \in Worse(losses, s) <=> key[r] < key[s]
    OBVIOUS
  <2> DEFINE a == losses[r]
             b == losses[s]
             na == n * a
             nb == n * b
  <2>2. /\ r \in Worse(losses, s) <=> (a > b \/ (a = b /\ r < s))
        /\ key[r] = r - na /\ key[s] = s - nb
        /\ a \in Int /\ b \in Int /\ na \in Int /\ nb \in Int
        /\ r \in 1 .. n /\ s \in 1 .. n
    BY <1>1 DEF Worse
  <2>3. /\ a < b => na + n <= nb
        /\ b < a => nb + n <= na
        /\ a = b => na = nb
    BY <1>2, <2>2
  <2> HIDE DEF a, b, na, nb, key
  <2> QED
    BY <2>2, <2>3
<1>4. key \in [S -> Int]
  BY <1>1
<1>5. \A s \in S : Worse(losses, s) = Below(S, key, s)
  BY <1>3 DEF Worse, Below
<1> HIDE DEF key
<1>6. \A a, b \in S : key[a] = key[b] => a = b
  <2>1. SUFFICES ASSUME NEW a \in S, NEW b \in S, key[a] = key[b] PROVE a = b
    OBVIOUS
  <2>2. key[a] \in Int /\ key[b] \in Int
    BY <1>4
  <2>3. ~(key[a] < key[b]) /\ ~(key[b] < key[a])
    BY <2>1, <2>2
  <2> QED
    BY <1>3, <2>3, WorseIs
<1>7. IsFiniteSet(S) /\ Cardinality(S) = n
  <2>1. 1 \in Int /\ n \in Int
    OBVIOUS
  <2>2. /\ IsFiniteSet(1 .. n)
        /\ Cardinality(1 .. n) = IF 1 > n THEN 0 ELSE n - 1 + 1
    BY <2>1, FS_Interval, Zenon
  <2> QED
    BY <2>2
<1> DEFINE i == k - 1
<1>8. i \in Nat /\ i < Cardinality(S)
  BY <1>7
<1> HIDE DEF S, i
<1>9. \E z \in S : Cardinality(Below(S, key, z)) = i
  BY <1>4, <1>6, <1>7, <1>8, RankExists
<1> QED
  BY <1>5, <1>9 DEF S, i

\* The k worst scenarios, and the least loss among them.
LEMMA WorstAre ==
    ASSUME NEW n \in Nat, NEW losses \in [1 .. n -> Int], NEW k \in 1 .. n
    PROVE  /\ Worst(losses, k) \in SUBSET (1 .. n) /\ Cardinality(Worst(losses, k)) = k
           /\ \E z \in 1 .. n :
                 /\ \A s \in Worst(losses, k) : losses[z] <= losses[s]
                 /\ \A s \in (1 .. n) \ Worst(losses, k) : losses[s] <= losses[z]
<1>1. PICK z \in 1 .. n : Cardinality(Worse(losses, z)) = k - 1
  BY WorseRank
<1> DEFINE W == Worse(losses, z)
           K == Worst(losses, k)
           card(s) == Cardinality(Worse(losses, s))
<1>2. \A s \in 1 .. n : IsFiniteSet(Worse(losses, s)) /\ card(s) \in Nat
  <2>1. SUFFICES ASSUME NEW s \in 1 .. n
                 PROVE  IsFiniteSet(Worse(losses, s)) /\ card(s) \in Nat
    OBVIOUS
  <2>2. Worse(losses, s) \in SUBSET (1 .. n)
    BY WorseIs
  <2> QED
    BY <2>2, IndicesFinite
<1>3. \A s \in 1 .. n : s \in K <=> 1 + card(s) <= k
  BY DEF Worst
<1>4. K \in SUBSET (1 .. n)
  BY DEF Worst
<1>5. z \notin W /\ W \in SUBSET (1 .. n)
  BY WorseIs
<1>6. \A s \in W : s \in K
  <2>1. SUFFICES ASSUME NEW s \in W PROVE s \in K
    OBVIOUS
  <2>2. s \in 1 .. n /\ Worse(losses, s) \subseteq W
    BY <1>5, WorseIs
  <2>3. card(s) <= Cardinality(W)
    BY <1>2, <2>2, FS_Subset
  <2>4. card(s) \in Nat /\ Cardinality(W) = k - 1
    BY <1>1, <1>2, <2>2
  <2> HIDE DEF card, K, W
  <2> QED
    BY <1>3, <2>2, <2>3, <2>4
<1>7. z \in K
  BY <1>1, <1>3
<1>8. \A s \in K : s = z \/ s \in W
  <2>1. SUFFICES ASSUME NEW s \in K, s # z, s \notin W PROVE FALSE
    OBVIOUS
  <2>2. s \in 1 .. n /\ z \in Worse(losses, s)
    BY <1>4, <2>1, WorseIs
  <2>3. W \cup {z} \in SUBSET Worse(losses, s)
    BY <2>2, WorseIs
  <2>4. Cardinality(W \cup {z}) = k
    <3>1. IsFiniteSet(W)
      BY <1>2
    <3>2. Cardinality(W \cup {z}) = Cardinality(W) + 1
      BY <3>1, <1>5, FS_AddElement
    <3> QED
      BY <1>1, <3>2
  <2>5. Cardinality(W \cup {z}) <= card(s)
    BY <1>2, <2>2, <2>3, FS_Subset
  <2>6. 1 + card(s) <= k /\ card(s) \in Nat
    BY <1>2, <1>3, <2>2
  <2> HIDE DEF card
  <2> QED
    BY <2>4, <2>5, <2>6
<1>9. K = W \cup {z}
  BY <1>6, <1>7, <1>8
<1>10. Cardinality(K) = k
  <2>1. IsFiniteSet(W)
    BY <1>2
  <2>2. Cardinality(W \cup {z}) = Cardinality(W) + 1
    BY <2>1, <1>5, FS_AddElement
  <2> QED
    BY <1>1, <1>9, <2>2
<1>11. \A s \in K : losses[z] <= losses[s]
  <2>1. losses[z] <= losses[z]
    OBVIOUS
  <2> QED
    BY <1>5, <1>9, <2>1, WorseIs
<1>12. \A s \in (1 .. n) \ K : losses[s] <= losses[z]
  BY <1>9, WorseIs
<1> QED
  BY <1>4, <1>10, <1>11, <1>12

\* What the linear program minimizes, at one threshold.
Excesses(losses, z) == [s \in DOMAIN losses |-> Excess(losses[s], losses[z])]
ValueAt(losses, k, z) == k * losses[z] + Total(Excesses(losses, z))
ValuesAt(losses, k) == {ValueAt(losses, k, z) : z \in DOMAIN losses}

LEMMA ObjectiveIsLeast ==
    ASSUME NEW losses, NEW k
    PROVE  Objective(losses, k) = Min(ValuesAt(losses, k))
BY DEF Objective, ValuesAt, ValueAt, Excesses

\* It is never less than the k worst losses, and at the least of them no more.
LEMMA ValueIs ==
    ASSUME NEW n \in Nat, NEW losses \in [1 .. n -> Int], NEW k \in 1 .. n, NEW z \in 1 .. n
    PROVE  /\ WorstLosses(losses, k) \in Int /\ ValueAt(losses, k, z) \in Int
           /\ WorstLosses(losses, k) <= ValueAt(losses, k, z)
           /\ (/\ \A s \in Worst(losses, k) : losses[z] <= losses[s]
               /\ \A s \in (1 .. n) \ Worst(losses, k) : losses[s] <= losses[z])
                 => ValueAt(losses, k, z) = WorstLosses(losses, k)
<1> DEFINE S == 1 .. n
           W == Worst(losses, k)
           c == losses[z]
           e == Excesses(losses, z)
           worst == [s \in W |-> losses[s]]
           minus == [s \in W |-> -c]
           gap == [s \in W |-> worst[s] + minus[s]]
           inside == Restrict(e, W)
           outside == Restrict(e, S \ W)
<1>1. IsFiniteSet(S) /\ IsFiniteSet(W) /\ IsFiniteSet(S \ W)
  <2>1. S \in SUBSET S /\ W \in SUBSET S /\ S \ W \in SUBSET S
    BY WorstAre
  <2> HIDE DEF W
  <2> QED
    BY <2>1, IndicesFinite
<1>2. W \in SUBSET S /\ Cardinality(W) = k
  BY WorstAre
<1>3. WorstLosses(losses, k) = Total(worst)
  BY WorstLossesAre
<1>4. ValueAt(losses, k, z) = k * c + Total(e)
  BY DEF ValueAt
<1>5. c \in Int /\ -c \in Int /\ \A s \in S : losses[s] \in Int
  OBVIOUS
<1>6. e \in [S -> Int] /\ \A s \in S : e[s] = IF losses[s] > c THEN losses[s] - c ELSE 0
  BY <1>5 DEF Excesses, Excess
<1> HIDE DEF S, W, c, e
<1>7. worst \in [W -> Int] /\ minus \in [W -> Int]
  BY <1>2, <1>5
<1>8. \A s \in W : /\ worst[s] = losses[s] /\ minus[s] = -c /\ gap[s] = losses[s] - c
                   /\ inside[s] = e[s] /\ s \in S
  BY <1>2, <1>5 DEF Restrict
<1>9. gap \in [W -> Int]
  BY <1>2, <1>5, <1>8
<1>10. inside \in [W -> Int] /\ outside \in [S \ W -> Int]
  BY <1>2, <1>6 DEF Restrict
<1>11. \A s \in S \ W : outside[s] = e[s]
  BY <1>6 DEF Restrict
<1>12. Total(gap) = Total(worst) + Total(minus)
  <2> HIDE DEF worst, minus
  <2> QED
    BY <1>1, <1>7, TotalPlus
<1>13. Total(minus) = -(k * c)
  <2>1. Total(minus) = Cardinality(W) * (-c)
    BY <1>1, <1>5, TotalConstant
  <2>2. \A a, b \in Int : a * (-b) = -(a * b)
    OBVIOUS
  <2>3. k \in Int
    OBVIOUS
  <2> QED
    BY <1>2, <1>5, <2>1, <2>2, <2>3
<1>14. Total(e) = Total(inside) + Total(outside)
  BY <1>1, <1>2, <1>6, TotalParts
<1> HIDE DEF worst, minus, gap, inside, outside
<1>15. /\ Total(worst) \in Int /\ Total(gap) \in Int
       /\ Total(inside) \in Int /\ Total(outside) \in Int
  BY <1>1, <1>7, <1>9, <1>10, TotalInt
<1>16. Total(gap) <= Total(inside)
  <2>1. \A s \in W : gap[s] <= inside[s]
    BY <1>5, <1>6, <1>8
  <2> QED
    BY <1>1, <1>9, <1>10, <2>1, TotalBelow
<1>17. 0 <= Total(outside)
  <2>1. \A s \in S \ W : outside[s] \in Nat
    BY <1>5, <1>6, <1>11
  <2>2. outside \in [S \ W -> Nat]
    BY <1>10, <2>1
  <2>3. Total(outside) \in Nat
    BY <1>1, <2>2, TotalNat
  <2> QED
    BY <2>3
<1> DEFINE kc == k * c
<1>18. kc \in Int
  <2>1. \A a, b \in Int : a * b \in Int
    OBVIOUS
  <2> QED
    BY <1>5, <2>1
<1> HIDE DEF kc
<1>19. /\ ValueAt(losses, k, z) = kc + Total(inside) + Total(outside)
       /\ Total(gap) = Total(worst) - kc
  BY <1>4, <1>12, <1>13, <1>14, <1>15, <1>18 DEF kc
<1>20. ASSUME /\ \A s \in W : c <= losses[s]
              /\ \A s \in S \ W : losses[s] <= c
       PROVE  Total(inside) = Total(gap) /\ Total(outside) = 0
  <2>1. \A s \in W : inside[s] = gap[s]
    BY <1>5, <1>6, <1>8, <1>20
  <2>2. inside = gap
    BY <1>9, <1>10, <2>1
  <2>3. \A s \in S \ W : outside[s] = 0
    BY <1>5, <1>6, <1>11, <1>20
  <2>4. outside = [s \in S \ W |-> 0]
    BY <1>10, <2>3
  <2>5. Total([s \in S \ W |-> 0]) = 0
    <3> DEFINE R == S \ W
    <3> HIDE DEF R
    <3>1. IsFiniteSet(R)
      BY <1>1 DEF R
    <3>2. Total([s \in R |-> 0]) = 0
      BY <3>1, TotalZero
    <3> QED
      BY <3>2 DEF R
  <2> QED
    BY <2>2, <2>4, <2>5
<1>21. /\ WorstLosses(losses, k) \in Int /\ ValueAt(losses, k, z) \in Int
       /\ WorstLosses(losses, k) <= ValueAt(losses, k, z)
  BY <1>3, <1>15, <1>16, <1>17, <1>18, <1>19
<1>22. (/\ \A s \in W : c <= losses[s]
        /\ \A s \in S \ W : losses[s] <= c)
          => ValueAt(losses, k, z) = WorstLosses(losses, k)
  BY <1>3, <1>15, <1>18, <1>19, <1>20
<1> QED
  BY <1>21, <1>22 DEF S, W, c

LEMMA LeastIs ==
    ASSUME NEW S, NEW x \in S, \A y \in S : x <= y
    PROVE  Min(S) \in S /\ \A y \in S : Min(S) <= y
BY DEF Min

\* The least value of the program is the sum of the k worst losses.
LEMMA ObjectiveIs ==
    ASSUME NEW n \in Nat, NEW losses \in [1 .. n -> Int], NEW k \in 1 .. n
    PROVE  /\ Objective(losses, k) = WorstLosses(losses, k)
           /\ WorstLosses(losses, k) \in Int
<1> DEFINE V == ValuesAt(losses, k)
           T == WorstLosses(losses, k)
<1>1. V = {ValueAt(losses, k, z) : z \in 1 .. n}
  BY DEF ValuesAt
<1>2. PICK z \in 1 .. n : ValueAt(losses, k, z) = T
  BY WorstAre, ValueIs
<1>3. T \in Int /\ \A y \in 1 .. n : ValueAt(losses, k, y) \in Int /\ T <= ValueAt(losses, k, y)
  BY <1>2, ValueIs
<1> HIDE DEF T, V
<1>4. T \in V /\ \A v \in V : v \in Int /\ T <= v
  BY <1>1, <1>2, <1>3
<1>5. Min(V) \in V /\ \A v \in V : Min(V) <= v
  BY <1>4, LeastIs
<1>6. Min(V) = T
  <2> DEFINE m == Min(V)
  <2>1. m \in V /\ \A v \in V : m <= v
    BY <1>5
  <2> HIDE DEF m
  <2>2. m \in Int /\ T <= m /\ m <= T
    BY <1>4, <2>1
  <2>3. m = T
    BY <1>3, <2>2
  <2> QED
    BY <2>3 DEF m
<1> QED
  BY <1>3, <1>6, ObjectiveIsLeast DEF T, V

\* The tail counts at least one scenario and at most all.
LEMMA TailCountIn ==
    ASSUME NEW n \in Nat \ {0}, NEW confidence \in Nat
    PROVE  TailCount(n, confidence) \in 1 .. n
<1> DEFINE x == 2 * n * (1000 - confidence)
           a == x + 1000
           q == a \div 2000
<1>1. TailCount(n, confidence) = IF q < 1 THEN 1 ELSE q
  BY DEF TailCount
<1>2. x \in Int /\ x <= 2000 * n
  <2>1. \A u, v \in Nat : u * v \in Nat
    OBVIOUS
  <2>2. 2 * n * confidence \in Nat
    BY <2>1
  <2>3. x = 2000 * n - 2 * n * confidence
    OBVIOUS
  <2> QED
    BY <2>2, <2>3
<1> HIDE DEF x
<1>3. a \in Int /\ 2000 \in Int /\ 2000 > 0
  BY <1>2
<1>4. q \in Int /\ 2000 * q <= a
  BY <1>3, QuotientBounds
<1> HIDE DEF q
<1>5. q <= n
  BY <1>2, <1>4
<1> QED
  BY <1>1, <1>4, <1>5

(***************************************************************************)
(* The weights that are allowed                                            *)
(***************************************************************************)
\* What has to be sold to keep the cap.
Forced(before, cap) ==
    Total([i \in DOMAIN before |-> IF before[i] > cap THEN before[i] - cap ELSE 0])

\* The two tests made before the program is solved say that no weights are allowed.
LEMMA NoneFeasible ==
    ASSUME NEW H, IsFiniteSet(H), NEW before \in [H -> Nat], Total(before) = Whole,
           NEW cap \in Nat, NEW limit \in Int,
           cap * Cardinality(H) < Whole \/ 2 * Forced(before, cap) > limit
    PROVE  Feasible(before, cap, limit) = {}
<1> SUFFICES ASSUME NEW w \in Feasible(before, cap, limit) PROVE FALSE
  OBVIOUS
<1>1. /\ w \in [H -> 0 .. cap] /\ Total(w) = Whole /\ Turnover(before, w) <= limit
      /\ DOMAIN before = H
  BY DEF Feasible
<1>2. Cardinality(H) \in Nat /\ Whole \in Nat
  BY FS_CardinalityType, PathAssumption
<1>3. CASE cap * Cardinality(H) < Whole
  <2>1. w \in [H -> Int] /\ \A i \in H : -cap <= w[i] /\ w[i] <= cap
    BY <1>1
  <2>2. Total(w) <= Cardinality(H) * cap
    BY <2>1, TotalWithin
  <2>3. \A a, b \in Nat : a * b = b * a /\ a * b \in Nat
    OBVIOUS
  <2>4. Cardinality(H) * cap = cap * Cardinality(H) /\ Cardinality(H) * cap \in Nat
    BY <1>2, <2>3
  <2> QED
    BY <1>1, <1>2, <1>3, <2>2, <2>4
<1>4. CASE 2 * Forced(before, cap) > limit
  <2> DEFINE moved == [i \in H |-> Magnitude(w[i] - before[i])]
             less == [i \in H |-> -before[i]]
             delta == [i \in H |-> w[i] + less[i]]
             sold == [i \in H |-> IF w[i] < before[i] THEN before[i] - w[i] ELSE 0]
             twice == [i \in H |-> sold[i] + sold[i]]
             all == [i \in H |-> delta[i] + twice[i]]
             forced == [i \in H |-> IF before[i] > cap THEN before[i] - cap ELSE 0]
  <2>1. \A i \in H : w[i] \in Int /\ before[i] \in Int /\ 0 <= w[i] /\ w[i] <= cap
    BY <1>1
  <2>2. /\ less \in [H -> Int] /\ delta \in [H -> Int] /\ sold \in [H -> Int]
        /\ twice \in [H -> Int] /\ forced \in [H -> Int] /\ w \in [H -> Int]
        /\ before \in [H -> Int]
    BY <1>1, <2>1
  <2>3. \A i \in H : moved[i] = all[i]
    BY <2>1 DEF Magnitude
  <2>4. moved = all
    BY <2>3
  <2>5. \A i \in H : forced[i] <= sold[i]
    BY <2>1
  <2>6. Total(less) = -Whole
    <3>1. Total([i \in H |-> (-1) * before[i]]) = (-1) * Total(before)
      <4>1. -1 \in Int
        OBVIOUS
      <4> QED
        BY <2>2, <4>1, TotalTimes
    <3>2. less = [i \in H |-> (-1) * before[i]]
      BY <2>1
    <3> QED
      BY <1>2, <3>1, <3>2
  <2>7. Turnover(before, w) = Total(moved) /\ Forced(before, cap) = Total(forced)
    BY <1>1 DEF Turnover, Forced
  <2>8. Total(delta) = Total(w) + Total(less)
    <3> HIDE DEF less
    <3> QED
      BY <2>2, TotalPlus
  <2>9. Total(twice) = Total(sold) + Total(sold)
    <3> HIDE DEF sold
    <3> QED
      BY <2>2, TotalPlus
  <2>10. Total(all) = Total(delta) + Total(twice)
    <3> HIDE DEF delta, twice
    <3> QED
      BY <2>2, TotalPlus
  <2> HIDE DEF moved, less, delta, sold, twice, all, forced
  <2>11. Total(forced) <= Total(sold) /\ Total(forced) \in Int /\ Total(sold) \in Int
    BY <2>2, <2>5, TotalBelow, TotalInt
  <2> QED
    BY <1>1, <1>2, <1>4, <2>4, <2>6, <2>7, <2>8, <2>9, <2>10, <2>11
<1> QED
  BY <1>3, <1>4

LEMMA FeasibleFinite ==
    ASSUME NEW H, IsFiniteSet(H), NEW before \in [H -> Nat], NEW cap \in Nat, NEW limit
    PROVE  /\ IsFiniteSet(Feasible(before, cap, limit))
           /\ Feasible(before, cap, limit) \in SUBSET [H -> Nat]
<1>1. DOMAIN before = H
  OBVIOUS
<1>2. Feasible(before, cap, limit) \subseteq [H -> 0 .. cap]
  BY <1>1 DEF Feasible
<1>3. IsFiniteSet(0 .. cap)
  <2>1. 0 \in Int /\ cap \in Int
    OBVIOUS
  <2> QED
    BY <2>1, FS_Interval, Zenon
<1>4. IsFiniteSet([H -> 0 .. cap])
  BY <1>3, FunctionsFinite
<1>5. IsFiniteSet(Feasible(before, cap, limit))
  BY <1>2, <1>4, FS_Subset
<1>6. \A w \in [H -> 0 .. cap] : w \in [H -> Nat]
  OBVIOUS
<1> QED
  BY <1>2, <1>5, <1>6

\* How a rebalance ends, and the weights it ends with.
CapOf(input) == IF input.cap = Unset THEN DefaultCap ELSE input.cap
ChoicesOf(input) == Feasible(input.portfolio.weights, CapOf(input), input.turnover)
ObjectiveOf(md, input, window, k, w) ==
    Objective(Losses(md, Reweighted(input.portfolio, w), window), k)

LEMMA SolveIs ==
    ASSUME NEW md, NEW input, NEW window, NEW confidence, NEW attempt
    PROVE  LET before == input.portfolio.weights
               k == TailCount(window, confidence)
               choices == ChoicesOf(input)
               stopped == \/ CapOf(input) * Len(before) < Whole
                          \/ 2 * Forced(before, CapOf(input)) > input.turnover
                          \/ choices = {}
               solution == Solve(md, input, window, confidence, attempt)
           IN  /\ solution.outcome = IF CapOf(input) \notin 1 .. Whole THEN "error"
                                     ELSE IF stopped THEN "infeasible"
                                     ELSE IF attempt \in input.failing THEN "failed"
                                     ELSE "optimal"
               /\ solution.outcome = "optimal" =>
                     solution.weights = CHOOSE w \in choices : \A v \in choices :
                                          ObjectiveOf(md, input, window, k, w)
                                            <= ObjectiveOf(md, input, window, k, v)
<1> DEFINE before == input.portfolio.weights
           k == TailCount(window, confidence)
           cap == CapOf(input)
           choices == ChoicesOf(input)
           stopped == \/ cap * Len(before) < Whole
                      \/ 2 * Forced(before, cap) > input.turnover
                      \/ choices = {}
           best == CHOOSE w \in choices : \A v \in choices :
                      ObjectiveOf(md, input, window, k, w)
                        <= ObjectiveOf(md, input, window, k, v)
           stats == HistoricalStats(Losses(md, Reweighted(input.portfolio, best), window), k)
           solution == Solve(md, input, window, confidence, attempt)
<1>1. solution = IF cap \notin 1 .. Whole THEN Failed("error")
                 ELSE IF stopped THEN Failed("infeasible")
                 ELSE IF attempt \in input.failing THEN Failed("failed")
                 ELSE [outcome |-> "optimal", weights |-> best, stats |-> stats,
                       turnover |-> Turnover(before, best),
                       objective |-> ObjectiveOf(md, input, window, k, best)]
  BY DEF Solve, CapOf, ChoicesOf, ObjectiveOf, Forced
<1> HIDE DEF best, stats, stopped, cap, solution
<1>2. /\ solution.outcome = IF cap \notin 1 .. Whole THEN "error"
                            ELSE IF stopped THEN "infeasible"
                            ELSE IF attempt \in input.failing THEN "failed"
                            ELSE "optimal"
      /\ solution.outcome = "optimal" => solution.weights = best
  BY <1>1 DEF Failed
<1> QED
  BY <1>2 DEF best, stopped, cap, solution

\* The losses of the portfolio of a request, with other weights.
LEMMA LossesAre ==
    ASSUME NEW r \in Requests, NEW md, IsTable(md, TickersOf(r.portfolio)), NEW n \in Nat,
           NEW w \in [Holdings(r.portfolio) -> Nat]
    PROVE  /\ Losses(md, Reweighted(r.portfolio, w), n) \in [1 .. n -> Int]
           /\ Len(Losses(md, Reweighted(r.portfolio, w), n)) = n
<1> DEFINE p == r.portfolio
           q == Reweighted(p, w)
           steps == WeightedSteps(md, q, n)
           losses == [s \in 1 .. n |-> -steps[s]]
<1>1. q.tickers = p.tickers /\ q.weights = w
  <2>1. IsRequest(r)
    BY SessionsAssumption
  <2>2. DOMAIN p = {"tickers", "weights", "value"}
    BY <2>1 DEF IsRequest
  <2> QED
    BY <2>2 DEF Reweighted
<1>2. Holdings(q) = Holdings(p)
  BY <1>1 DEF Holdings
<1>3. IsFiniteSet(Holdings(q)) /\ q.weights \in [Holdings(q) -> Nat]
  BY <1>1, <1>2, RequestIs
<1>4. \A i \in Holdings(q) : q.tickers[i] \in TickersOf(p)
  BY <1>1, <1>2 DEF TickersOf
<1> HIDE DEF q, p
<1>5. steps \in Seq(Int) /\ Len(steps) = n
  BY <1>3, <1>4, StepsOf DEF p
<1>6. Losses(md, q, n) = losses
  BY DEF Losses
<1> HIDE DEF steps
<1>7. losses \in [1 .. n -> Int]
  BY <1>5
<1>8. losses \in Seq(Int) /\ Len(losses) = n
  <2> HIDE DEF losses
  <2> QED
    BY <1>7
<1> QED
  BY <1>6, <1>7, <1>8 DEF q, p

\* What the program minimizes is what is lost in the worst scenarios.
LEMMA TailIsObjective ==
    ASSUME NEW r \in Requests, r.kind = "CvarRebalance",
           NEW md, IsTable(md, TickersOf(r.portfolio)),
           NEW n \in Nat, NEW k \in 1 .. n, NEW w \in [Holdings(r.portfolio) -> Nat]
    PROVE  /\ ObjectiveOf(md, r.input, n, k, w)
                = HistoricalStats(Losses(md, Reweighted(r.portfolio, w), n), k).tail
           /\ ObjectiveOf(md, r.input, n, k, w) \in Int
<1> DEFINE losses == Losses(md, Reweighted(r.portfolio, w), n)
<1>1. r.input.portfolio = r.portfolio
  BY SessionsAssumption DEF IsRequest
<1>2. losses \in [1 .. n -> Int] /\ Len(losses) = n
  BY LossesAre
<1>3. ObjectiveOf(md, r.input, n, k, w) = Objective(losses, k)
  BY <1>1 DEF ObjectiveOf
<1> HIDE DEF losses
<1>4. Objective(losses, k) = WorstLosses(losses, k) /\ WorstLosses(losses, k) \in Int
  BY <1>2, ObjectiveIs
<1>5. Smaller(k, Len(losses)) = k
  BY <1>2 DEF Smaller
<1>6. HistoricalStats(losses, k).tail = WorstLosses(losses, k)
  BY <1>5 DEF HistoricalStats
<1> QED
  BY <1>3, <1>4, <1>6 DEF losses

\* The weights of a request to rebalance.
LEMMA WeightsAre ==
    ASSUME NEW r \in Requests, r.kind = "CvarRebalance"
    PROVE  LET H == Holdings(r.portfolio)
           IN  /\ IsFiniteSet(H) /\ Cardinality(H) = Len(r.portfolio.weights)
               /\ r.portfolio.weights \in [H -> Nat] /\ Total(r.portfolio.weights) = Whole
               /\ r.input.portfolio = r.portfolio /\ r.input.turnover \in Int
<1> DEFINE H == Holdings(r.portfolio)
           n == Len(r.portfolio.weights)
<1>1. /\ r.input.portfolio = r.portfolio /\ r.input.turnover \in Int
      /\ Total(r.portfolio.weights) = Whole
      /\ r.portfolio.weights \in Seq(Nat) /\ r.portfolio.tickers \in Seq(Stocks(r.market))
      /\ Len(r.portfolio.weights) = Len(r.portfolio.tickers)
  BY SessionsAssumption DEF IsRequest
<1>2. IsFiniteSet(H) /\ r.portfolio.weights \in [H -> Nat]
  BY RequestIs
<1>3. H = 1 .. n /\ n \in Nat
  BY <1>1 DEF Holdings
<1>4. Cardinality(1 .. n) = n
  <2> HIDE DEF n
  <2>1. 1 \in Int /\ n \in Int
    BY <1>3
  <2>2. Cardinality(1 .. n) = IF 1 > n THEN 0 ELSE n - 1 + 1
    BY <2>1, FS_Interval, Zenon
  <2> QED
    BY <1>3, <2>2
<1> QED
  BY <1>1, <1>2, <1>3, <1>4

\* The weights that are found are allowed, and none that are lose less.
LEMMA BestIs ==
    ASSUME NEW r \in Requests, r.kind = "CvarRebalance",
           NEW md, IsTable(md, TickersOf(r.portfolio)),
           NEW n \in Nat \ {0}, NEW confidence \in Nat, NEW attempt,
           Solve(md, r.input, n, confidence, attempt).outcome = "optimal"
    PROVE  LET best == Solve(md, r.input, n, confidence, attempt).weights
               k == TailCount(n, confidence)
               tail(w) == HistoricalStats(Losses(md, Reweighted(r.portfolio, w), n), k).tail
           IN  /\ best \in ChoicesOf(r.input)
               /\ \A w \in ChoicesOf(r.input) : tail(best) <= tail(w)
<1> DEFINE best == Solve(md, r.input, n, confidence, attempt).weights
           k == TailCount(n, confidence)
           tail(w) == HistoricalStats(Losses(md, Reweighted(r.portfolio, w), n), k).tail
           cost(w) == ObjectiveOf(md, r.input, n, k, w)
           choices == ChoicesOf(r.input)
           H == Holdings(r.portfolio)
           costs == [w \in choices |-> cost(w)]
<1>1. k \in 1 .. n
  BY TailCountIn
<1>2. /\ IsFiniteSet(H) /\ r.portfolio.weights \in [H -> Nat]
      /\ r.input.portfolio = r.portfolio
  BY WeightsAre
<1>3. /\ choices # {} /\ CapOf(r.input) \in 1 .. Whole
      /\ best = CHOOSE w \in choices : \A v \in choices : cost(w) <= cost(v)
  <2> HIDE DEF k
  <2> QED
    BY SolveIs DEF k
<1>4. IsFiniteSet(choices) /\ choices \in SUBSET [H -> Nat]
  <2>1. CapOf(r.input) \in Nat
    BY <1>3, PathAssumption
  <2> QED
    BY <1>2, <2>1, FeasibleFinite DEF ChoicesOf
<1> HIDE DEF best, choices, k
<1>5. \A w \in choices : cost(w) = tail(w) /\ cost(w) \in Int
  <2>1. n \in Nat
    OBVIOUS
  <2> QED
    BY <1>1, <1>4, <2>1, TailIsObjective
<1> HIDE DEF tail, cost
<1>6. costs \in [choices -> Int]
  BY <1>5
<1>7. PICK x \in choices : \A v \in choices : costs[x] <= costs[v]
  <2> HIDE DEF costs
  <2> QED
    BY <1>3, <1>4, <1>6, LeastValue
<1>8. \E w \in choices : \A v \in choices : cost(w) <= cost(v)
  BY <1>7
<1>9. best \in choices /\ \A v \in choices : cost(best) <= cost(v)
  BY <1>3, <1>8
<1>10. \A w \in choices : tail(best) <= tail(w)
  BY <1>5, <1>9
<1> QED
  BY <1>9, <1>10 DEF best, choices, k, tail

\* The window of a rebalance that runs is not empty.
LEMMA WindowUsedSome ==
    ASSUME NEW r \in Requests, NEW md, IsTable(md, TickersOf(r.portfolio)),
           r.kind = "CvarRebalance", CommonLength(md, r.portfolio) # 0
    PROVE  WindowUsed(md, r.input) \in Nat \ {0}
<1>1. /\ r.input.portfolio = r.portfolio
      /\ r.input.window = Unset \/ r.input.window \in Nat
  BY SessionsAssumption DEF IsRequest
<1> DEFINE total == CommonLength(md, r.portfolio)
<1>2. total \in Nat \ {0}
  BY CommonIs
<1>3. WindowUsed(md, r.input) = IF r.input.window = Unset THEN total
                                ELSE Max({1, Smaller(r.input.window, total)})
  BY <1>1 DEF WindowUsed
<1> HIDE DEF total
<1>4. CASE r.input.window = Unset
  BY <1>2, <1>3, <1>4
<1>5. CASE r.input.window # Unset
  <2> DEFINE a == Smaller(r.input.window, total)
  <2>1. a \in Nat
    BY <1>1, <1>2, <1>5 DEF Smaller
  <2>2. WindowUsed(md, r.input) = Max({1, a})
    BY <1>3, <1>5
  <2> HIDE DEF a
  <2>3. Max({1, a}) = IF a > 1 THEN a ELSE 1
    BY <2>1 DEF Max
  <2> QED
    BY <2>1, <2>2, <2>3
<1> QED
  BY <1>4, <1>5

\* Nothing is called infeasible for which there are weights.
LEMMA InfeasibleIs ==
    ASSUME NEW r \in Requests, r.kind = "CvarRebalance",
           NEW md, NEW n, NEW confidence, NEW attempt
    PROVE  LET outcome == Solve(md, r.input, n, confidence, attempt).outcome
           IN  /\ outcome \in {"error", "infeasible", "failed", "optimal"}
               /\ outcome = "infeasible" => ChoicesOf(r.input) = {}
               /\ outcome \in {"failed", "optimal"} => ChoicesOf(r.input) # {}
<1> DEFINE outcome == Solve(md, r.input, n, confidence, attempt).outcome
           before == r.portfolio.weights
           cap == CapOf(r.input)
           choices == ChoicesOf(r.input)
           H == Holdings(r.portfolio)
           stopped == \/ cap * Len(before) < Whole
                      \/ 2 * Forced(before, cap) > r.input.turnover
                      \/ choices = {}
<1>1. /\ IsFiniteSet(H) /\ Cardinality(H) = Len(before)
      /\ before \in [H -> Nat] /\ Total(before) = Whole
      /\ r.input.portfolio = r.portfolio /\ r.input.turnover \in Int
  BY WeightsAre
<1>2. outcome = IF cap \notin 1 .. Whole THEN "error"
                ELSE IF stopped THEN "infeasible"
                ELSE IF attempt \in r.input.failing THEN "failed"
                ELSE "optimal"
  <2> HIDE DEF choices, cap
  <2> QED
    BY <1>1, SolveIs DEF choices, cap
<1>3. cap \in 1 .. Whole /\ stopped => choices = {}
  <2>1. SUFFICES ASSUME cap \in 1 .. Whole, stopped, choices # {} PROVE FALSE
    OBVIOUS
  <2>2. cap \in Nat
    BY <2>1, PathAssumption
  <2>3. choices = Feasible(before, cap, r.input.turnover)
    BY <1>1 DEF ChoicesOf
  <2> HIDE DEF choices, cap, before, H
  <2>4. cap * Cardinality(H) < Whole \/ 2 * Forced(before, cap) > r.input.turnover
    BY <1>1, <2>1
  <2>5. Feasible(before, cap, r.input.turnover) = {}
    BY <1>1, <2>2, <2>4, NoneFeasible
  <2> QED
    BY <2>1, <2>3, <2>5
<1>4. ~stopped => choices # {}
  OBVIOUS
<1> HIDE DEF outcome, stopped, cap, choices
<1> QED
  BY <1>2, <1>3, <1>4 DEF outcome, choices

LEMMA AnswerInvBest == RunInv /\ AnswerInv => RebalanceIsBest
<1> SUFFICES ASSUME RunInv, AnswerInv, stage = "ran", Kind = "CvarRebalance"
             PROVE  RebalanceIsBest
  BY DEF RebalanceIsBest
<1> DEFINE input == Request.input
           answer == trace.answer
           n == WindowUsed(data, input)
           fit == FitFactorModel(data, input.portfolio.tickers, n, input.frequency,
                                 World.hmm, World.estimates)
           first == Solve(data, input, n, input.confidence, 0)
           policed == input.policy # Unset /\ fit.outcome = "ok"
           judged == policed /\ first.outcome = "optimal"
           loop == Remediate(data, input, n, fit, first)
           unjudged == [confidence |-> input.confidence, solution |-> first,
                        result |-> Failed("none"), tries |-> 0]
           held == IF judged THEN loop ELSE unjudged
<1>1. /\ answer = RunCvarRebalance(data, input, World.hmm, World.estimates)
      /\ answer.outcome = "ok"
  BY DEF AnswerInv, RebalanceHeld
<1>2. /\ Request \in Requests /\ Request.kind = "CvarRebalance"
      /\ IsTable(data, TickersOf(Request.portfolio))
  BY LoadedIs DEF Loaded, Kind, Portfolio
<1>3. /\ CommonLength(data, input.portfolio) # 0
      /\ input.confidence \in 0 .. 999 /\ first.outcome # "error"
      /\ answer.status = first.outcome /\ answer.window = n
      /\ answer.confidence = held.confidence /\ answer.solution = held.solution
  <2> HIDE DEF answer, input
  <2>1. Reports(answer, data, input, n, fit, first, held, judged)
    BY <1>1, RebalanceReports
  <2> HIDE DEF first, held, n, fit, judged
  <2> QED
    BY <2>1 DEF Reports
<1> HIDE DEF answer, n, fit, first, loop, policed
<1>4. input.portfolio = Request.portfolio
  BY <1>2, WeightsAre
<1>5. n \in Nat \ {0}
  BY <1>2, <1>3, <1>4, WindowUsedSome DEF n
<1>6. input.confidence \in Nat
  <2>1. input.confidence \in 0 .. 999
    BY <1>3
  <2> DEFINE c == input.confidence
  <2>2. c \in 0 .. 999
    BY <2>1
  <2> HIDE DEF c
  <2>3. c \in Nat
    BY <2>2, SMT
  <2> HIDE DEF input
  <2> QED
    BY <2>3 DEF c
<1>7. /\ first.outcome \in {"infeasible", "failed", "optimal"}
      /\ first.outcome = "infeasible" => ChoicesOf(input) = {}
      /\ first.outcome \in {"failed", "optimal"} => ChoicesOf(input) # {}
  <2>1. /\ first.outcome \in {"error", "infeasible", "failed", "optimal"}
        /\ first.outcome = "infeasible" => ChoicesOf(input) = {}
        /\ first.outcome \in {"failed", "optimal"} => ChoicesOf(input) # {}
    BY <1>2, InfeasibleIs DEF first
  <2>2. first.outcome # "error"
    BY <1>3
  <2> QED
    BY <2>1, <2>2
<1>8. Allowed = ChoicesOf(input)
  BY <1>4 DEF Allowed, ChoicesOf, CapUsed, CapOf, Portfolio
<1>9. first.outcome = "optimal" =>
         /\ answer.confidence \in Nat /\ answer.solution.outcome = "optimal"
         /\ \E a : answer.solution = Solve(data, input, n, answer.confidence, a)
  <2>1. SUFFICES ASSUME first.outcome = "optimal"
                 PROVE  /\ held.confidence \in Nat /\ held.solution.outcome = "optimal"
                        /\ \E a : held.solution = Solve(data, input, n, held.confidence, a)
    BY <1>3
  <2>2. CASE judged
    <3>1. Remedied(data, input, n, fit, first, MaxRemediations, loop)
      <4> HIDE DEF input, judged
      <4> QED
        BY <1>6, <2>1, RemediateHolds DEF first, loop
    <3>2. held = loop
      BY <2>2
    <3> QED
      BY <3>1, <3>2 DEF Remedied
  <2>3. CASE ~judged
    <3>1. held = unjudged
      BY <2>3
    <3>2. unjudged.confidence = input.confidence /\ unjudged.solution = first
      OBVIOUS
    <3>3. \E a : first = Solve(data, input, n, input.confidence, a)
      BY DEF first
    <3> HIDE DEF held, unjudged, input
    <3> QED
      BY <1>6, <2>1, <3>1, <3>2, <3>3
  <2> QED
    BY <2>2, <2>3
<1> DEFINE k == TailCount(answer.window, answer.confidence)
           tail(w) == HistoricalStats(Losses(data, Reweighted(Request.portfolio, w), n),
                                      TailCount(n, answer.confidence)).tail
<1>10. \A w : TailOf(w, k) = tail(w)
  BY <1>3 DEF TailOf, Portfolio, answer
<1>11. first.outcome = "optimal" =>
          /\ answer.solution.weights \in ChoicesOf(input)
          /\ \A w \in ChoicesOf(input) : tail(answer.solution.weights) <= tail(w)
  <2>1. SUFFICES ASSUME first.outcome = "optimal"
                 PROVE  /\ answer.solution.weights \in ChoicesOf(input)
                        /\ \A w \in ChoicesOf(input) :
                              tail(answer.solution.weights) <= tail(w)
    OBVIOUS
  <2>2. PICK a : answer.solution = Solve(data, input, n, answer.confidence, a)
    BY <1>9, <2>1
  <2>3. /\ Solve(data, input, n, answer.confidence, a).outcome = "optimal"
        /\ answer.confidence \in Nat
    BY <1>9, <2>1, <2>2
  <2> QED
    BY <1>2, <1>5, <2>2, <2>3, BestIs
<1> HIDE DEF held, tail, input
<1>12. answer.status = first.outcome
  BY <1>3
<1>13. CASE answer.status = "optimal"
  BY <1>8, <1>10, <1>11, <1>12, <1>13 DEF RebalanceIsBest, answer, k
<1>14. CASE answer.status = "infeasible"
  BY <1>7, <1>8, <1>12, <1>14 DEF RebalanceIsBest, answer
<1>15. CASE answer.status = "failed"
  BY <1>7, <1>8, <1>12, <1>15 DEF RebalanceIsBest, answer
<1> QED
  BY <1>7, <1>12, <1>13, <1>14, <1>15

(* What the linear program of a rebalance minimizes over its threshold is  *)
(* the sum of the worst losses themselves, so that the weights proposed    *)
(* lose the least there is to lose in the worst scenarios, whatever the    *)
(* portfolio, the window, the cap and the turnover, and at whatever        *)
(* confidence the remediation ended; and the two tests made before the     *)
(* program is solved refuse nothing that it could solve.                   *)
THEOREM RebalanceAlways == Spec => []RebalanceIsBest
BY RunInvAlways, AnswerInvAlways, AnswerInvBest, PTL

(***************************************************************************)
(* The moves that a shock implies                                          *)
(***************************************************************************)
\* How far apart two rows of coefficients, one carried over another, can be.
Wide == CoefficientBound * (CoefficientBound + 2)

\* No such row but zero combines the rows of the known factors to nothing.
Regular(f, known) ==
    \A row \in [known -> -Wide .. Wide] :
        (\A j \in known : Combine(row, f, j) = 0) => \A k \in known : row[k] = 0

\* The coefficients of the others are within the bound.
Within(f, known) ==
    \A u \in Factors \ known : \E row \in CandidateRows(known) :
        \A j \in known : Combine(row, f, j) = f[u][j]

\* The row c tells what the known factors imply of u.
Gives(f, K, u, c) ==
    /\ c \in [K -> Int]
    /\ \A k \in K : c[k] \in -CoefficientBound .. CoefficientBound
    /\ \A j \in K : Combine(c, f, j) = f[u][j]

LEMMA CoefficientsAre ==
    ASSUME NEW f, NEW K, Within(f, K), NEW u \in Factors \ K
    PROVE  Gives(f, K, u, ConditionalCoefficients(f, K, Factors \ K)[u])
<1> DEFINE fits(row) == \A j \in K : Combine(row, f, j) = f[u][j]
           c == CHOOSE row \in CandidateRows(K) : fits(row)
<1>1. ConditionalCoefficients(f, K, Factors \ K)[u] = c
  BY DEF ConditionalCoefficients
<1>2. \E row \in CandidateRows(K) : fits(row)
  BY DEF Within
<1>3. c \in CandidateRows(K) /\ fits(c)
  <2> HIDE DEF fits
  <2> QED
    BY <1>2
<1> HIDE DEF c
<1>4. CoefficientBound \in Nat
  BY ExperimentAssumption
<1>5. c \in [K -> -CoefficientBound .. CoefficientBound] /\ DOMAIN c = K
  BY <1>3 DEF CandidateRows
<1>6. c \in [K -> Int]
  BY <1>4, <1>5
<1> QED
  BY <1>1, <1>3, <1>5, <1>6 DEF Gives

LEMMA CombineIs ==
    ASSUME NEW K, NEW row \in [K -> Int], NEW f, NEW j
    PROVE  Combine(row, f, j) = Dot(K, row, [k \in K |-> f[k][j]])
<1> DEFINE x == [k \in K |-> f[k][j]]
<1>1. [k \in DOMAIN row |-> row[k] * f[k][j]] = [k \in K |-> row[k] * x[k]]
  OBVIOUS
<1> QED
  BY <1>1 DEF Combine, Dot

\* What a known move implies of u it implies through n, too, when n itself is
\* moved as implied.
LEMMA CarriedOver ==
    ASSUME NEW f \in Matrix, NEW K \in SUBSET Factors, NEW n \in Factors \ K,
           NEW u \in Factors \ (K \cup {n}),
           NEW c, Gives(f, K, u, c), NEW b, Gives(f, K, n, b),
           NEW w, Gives(f, K \cup {n}, u, w),
           Regular(f, K),
           NEW s \in [K -> Int], NEW t \in [K \cup {n} -> Int], \A k \in K : t[k] = s[k],
           t[n] = Dot(K, b, s)
    PROVE  Dot(K \cup {n}, w, t) = Dot(K, c, s)
<1> DEFINE q == w[n]
           a == [k \in K |-> w[k]]
           row == [k \in K |-> a[k] + q * b[k] - c[k]]
<1>0. /\ c \in [K -> Int] /\ b \in [K -> Int] /\ w \in [K \cup {n} -> Int]
      /\ \A k \in K : /\ c[k] \in -CoefficientBound .. CoefficientBound
                      /\ b[k] \in -CoefficientBound .. CoefficientBound
      /\ \A k \in K \cup {n} : w[k] \in -CoefficientBound .. CoefficientBound
      /\ \A j \in K : Combine(c, f, j) = f[u][j] /\ Combine(b, f, j) = f[n][j]
      /\ \A j \in K \cup {n} : Combine(w, f, j) = f[u][j]
  BY DEF Gives
<1>1. IsFiniteSet(K) /\ n \notin K
  BY FactorsAre, FS_Subset
<1>2. \A k \in K \cup {n} : \A j \in K \cup {n} : f[k][j] \in Int /\ f[u][j] \in Int
  BY DEF Matrix, Vector
<1>3. /\ q \in Int /\ -CoefficientBound <= q /\ q <= CoefficientBound
      /\ CoefficientBound \in Nat
  <2>1. q \in -CoefficientBound .. CoefficientBound /\ CoefficientBound \in Nat
    BY <1>0, ExperimentAssumption
  <2> QED
    BY <2>1
<1>4. a \in [K -> Int] /\ \A k \in K : a[k] = w[k]
  BY <1>0
<1> HIDE DEF q, a
<1>5. ASSUME NEW x \in [K -> Int], NEW y \in [K \cup {n} -> Int], \A k \in K : y[k] = x[k]
      PROVE  Dot(K \cup {n}, w, y) = Dot(K, a, x) + q * y[n]
  <2> DEFINE g == [k \in K \cup {n} |-> w[k] * y[k]]
             h == [k \in K |-> a[k] * x[k]]
  <2>1. g \in [K \cup {n} -> Int] /\ h \in [K -> Int] /\ g[n] = q * y[n]
    BY <1>0, <1>4 DEF q
  <2>2. \A k \in K : h[k] = g[k]
    BY <1>0, <1>4, <1>5
  <2> HIDE DEF g, h
  <2>3. Total(g) = Total(h) + g[n] /\ Total(h) \in Int
    <3>1. n \notin K /\ IsFiniteSet(K)
      BY <1>1
    <3>2. \A k \in K : h[k] = g[k]
      BY <2>2
    <3>3. g \in [K \cup {n} -> Int] /\ h \in [K -> Int]
      BY <2>1
    <3> QED
      BY <3>1, <3>2, <3>3, TotalWith
  <2> QED
    BY <2>1, <2>3 DEF g, h, Dot
<1>6. row \in [K -> Int] /\ \A k \in K : row[k] = a[k] + q * b[k] - c[k]
  BY <1>0, <1>3, <1>4
<1>7. \A k \in K : row[k] \in -Wide .. Wide
  <2>1. ASSUME NEW k \in K PROVE row[k] \in -Wide .. Wide
    <3> DEFINE B == CoefficientBound
               ak == a[k]
               bk == b[k]
               ck == c[k]
    <3>1. /\ ak \in Int /\ bk \in Int /\ ck \in Int /\ B \in Nat /\ B \in Int
          /\ -B <= ak /\ ak <= B /\ -B <= bk /\ bk <= B /\ -B <= ck /\ ck <= B
      <4>1. a[k] \in -CoefficientBound .. CoefficientBound
            /\ b[k] \in -CoefficientBound .. CoefficientBound
            /\ c[k] \in -CoefficientBound .. CoefficientBound
        BY <1>0, <1>4
      <4> QED
        BY <1>3, <4>1
    <3>2. row[k] = ak + q * bk - ck
      BY <1>6
    <3>3. q \in Int /\ -B <= q /\ q <= B
      BY <1>3
    <3> HIDE DEF B, ak, bk, ck
    <3>4. -(B * B) <= q * bk /\ q * bk <= B * B /\ q * bk \in Int /\ B * B \in Int
      <4>1. \A d, e \in Int : d >= 0 /\ e >= 0 => d * e >= 0
        BY SMT
      <4>2. (B - q) * (B + bk) >= 0 /\ (B + q) * (B - bk) >= 0
            /\ (B - q) * (B - bk) >= 0 /\ (B + q) * (B + bk) >= 0
        <5>1. B - q \in Int /\ B + q \in Int /\ B - bk \in Int /\ B + bk \in Int
              /\ B - q >= 0 /\ B + q >= 0 /\ B - bk >= 0 /\ B + bk >= 0
          BY <3>1, <3>3
        <5> QED
          BY <4>1, <5>1
      <4>3. \A d, e, z \in Int : /\ (d - e) * (d + z) = d * d + d * z - e * d - e * z
                                 /\ (d + e) * (d - z) = d * d - d * z + e * d - e * z
                                 /\ (d - e) * (d - z) = d * d - d * z - e * d + e * z
                                 /\ (d + e) * (d + z) = d * d + d * z + e * d + e * z
        BY SMT
      <4>4. /\ B * B + B * bk - q * B - q * bk >= 0 /\ B * B - B * bk + q * B - q * bk >= 0
            /\ B * B - B * bk - q * B + q * bk >= 0 /\ B * B + B * bk + q * B + q * bk >= 0
        BY <3>1, <3>3, <4>2, <4>3
      <4>5. B * B \in Int /\ B * bk \in Int /\ q * B \in Int /\ q * bk \in Int
        BY <3>1, <3>3
      <4>6. \A d, e, z, v \in Int :
               d + e - z - v >= 0 /\ d - e + z - v >= 0 /\ d - e - z + v >= 0 /\ d + e + z + v >= 0
                 => -d <= v /\ v <= d
        OBVIOUS
      <4> QED
        BY <4>4, <4>5, <4>6
    <3>5. Wide = B * B + 2 * B
      <4>1. \A d \in Int : d * (d + 2) = d * d + 2 * d
        OBVIOUS
      <4> QED
        BY <3>1, <4>1 DEF Wide, B
    <3>6. \A d, e, g, v, z \in Int :
             /\ -d <= e /\ e <= d /\ -d <= g /\ g <= d /\ -v <= z /\ z <= v
             => -(v + 2 * d) <= e + z - g /\ e + z - g <= v + 2 * d
      OBVIOUS
    <3>7. -(B * B + 2 * B) <= ak + q * bk - ck /\ ak + q * bk - ck <= B * B + 2 * B
      BY <3>1, <3>4, <3>6
    <3>8. ak + q * bk - ck \in Int /\ B * B + 2 * B \in Int
      BY <3>1, <3>4
    <3> QED
      BY <3>2, <3>5, <3>7, <3>8
  <2> QED
    BY <2>1
<1> HIDE DEF row
<1>8. \A x \in [K -> Int] :
         /\ Dot(K, row, x) = Dot(K, a, x) + q * Dot(K, b, x) - Dot(K, c, x)
         /\ Dot(K, a, x) \in Int /\ Dot(K, c, x) \in Int
  <2>1. \A x \in [K -> Int] : Dot(K, a, x) \in Int /\ Dot(K, c, x) \in Int
    BY <1>0, <1>1, <1>4, DotInt
  <2>2. ASSUME NEW x \in [K -> Int]
        PROVE  Dot(K, row, x) = Dot(K, a, x) + q * Dot(K, b, x) - Dot(K, c, x)
    <3>1. IsCombined(row, a, q, b, c, K)
      BY <1>0, <1>3, <1>4, <1>6 DEF IsCombined
    <3> QED
      BY <1>1, <3>1, DotOfRows
  <2> QED
    BY <2>1, <2>2
<1>9. \A k \in K : row[k] = 0
  <2>1. ASSUME NEW j \in K PROVE Combine(row, f, j) = 0
    <3> DEFINE x == [k \in K |-> f[k][j]]
               y == [k \in K \cup {n} |-> f[k][j]]
    <3>1. x \in [K -> Int] /\ y \in [K \cup {n} -> Int] /\ \A k \in K : y[k] = x[k]
      BY <1>2
    <3>2. y[n] = f[n][j] /\ f[n][j] \in Int /\ f[u][j] \in Int
      BY <1>2
    <3>3. /\ Dot(K, b, x) = f[n][j] /\ Dot(K, c, x) = f[u][j]
          /\ Dot(K \cup {n}, w, y) = f[u][j]
          /\ Dot(K, row, x) = Combine(row, f, j)
      BY <1>0, <1>6, CombineIs
    <3> HIDE DEF x, y
    <3>4. Dot(K \cup {n}, w, y) = Dot(K, a, x) + q * y[n]
      BY <1>5, <3>1
    <3>5. /\ Dot(K, row, x) = Dot(K, a, x) + q * Dot(K, b, x) - Dot(K, c, x)
          /\ Dot(K, a, x) \in Int
      BY <1>8, <3>1
    <3>6. q * f[n][j] \in Int
      BY <1>3, <3>2
    <3>7. \A d, e \in Int : d + e - (d + e) = 0
      OBVIOUS
    <3> QED
      BY <3>2, <3>3, <3>4, <3>5, <3>6, <3>7
  <2>2. row \in [K -> -Wide .. Wide]
    BY <1>6, <1>7
  <2> QED
    BY <2>1, <2>2 DEF Regular
<1>10. Dot(K, row, s) = 0
  <2>1. \A d \in Int : 0 * d = 0
    OBVIOUS
  <2>2. [k \in K |-> row[k] * s[k]] = [k \in K |-> 0]
    BY <1>9, <2>1
  <2> QED
    BY <1>1, <2>2, TotalZero DEF Dot
<1>11. Dot(K \cup {n}, w, t) = Dot(K, a, s) + q * t[n]
  BY <1>5
<1>12. /\ 0 = Dot(K, a, s) + q * t[n] - Dot(K, c, s)
       /\ Dot(K, a, s) \in Int /\ Dot(K, c, s) \in Int
  BY <1>8, <1>10
<1>13. q * t[n] \in Int
  BY <1>3
<1>14. \A d, e, g \in Int : 0 = d + e - g => d + e = g
  OBVIOUS
<1> QED
  BY <1>11, <1>12, <1>13, <1>14

\* The move of every factor.
LEMMA FullShockIs ==
    ASSUME NEW f, NEW input, DOMAIN input.shocks \subseteq Factors,
           input.shocks \in [DOMAIN input.shocks -> Int],
           Propagates(input), Within(f, DOMAIN input.shocks)
    PROVE  /\ FullShock(f, input) \in Vector
           /\ \A k \in Factors : FullShock(f, input)[k] =
                IF k \in DOMAIN input.shocks THEN input.shocks[k]
                ELSE Dot(DOMAIN input.shocks,
                         ConditionalCoefficients(f, DOMAIN input.shocks,
                             Factors \ DOMAIN input.shocks)[k], input.shocks)
<1> DEFINE K == DOMAIN input.shocks
           s == input.shocks
           C == ConditionalCoefficients(f, K, Factors \ K)
           full == [k \in Factors |-> IF k \in K THEN s[k] ELSE Dot(K, C[k], s)]
<1>1. FullShock(f, input) = ByFactor([k \in Factors |->
                                IF k \in K THEN s[k]
                                ELSE IF Propagates(input) THEN Dot(K, C[k], s) ELSE 0])
  BY DEF FullShock, Dot
<1>2. [k \in Factors |-> IF k \in K THEN s[k]
                         ELSE IF Propagates(input) THEN Dot(K, C[k], s) ELSE 0] = full
  OBVIOUS
<1>3. IsFiniteSet(K) /\ s \in [K -> Int]
  BY FactorsAre, FS_Subset
<1> HIDE DEF K, s
<1>4. ASSUME NEW k \in Factors PROVE full[k] \in Int
  <2>1. CASE k \in K
    BY <1>3, <2>1
  <2>2. CASE k \notin K
    <3>1. Gives(f, K, k, C[k])
      <4>1. Within(f, K) /\ k \in Factors \ K
        BY <2>2 DEF K
      <4> QED
        BY <4>1, CoefficientsAre
    <3>2. C[k] \in [K -> Int]
      <4> HIDE DEF C
      <4> QED
        BY <3>1 DEF Gives
    <3> HIDE DEF C
    <3> QED
      BY <1>3, <2>2, <3>2, DotInt
  <2> QED
    BY <2>1, <2>2
<1> HIDE DEF C
<1>5. full \in Vector
  BY <1>4 DEF Vector
<1>6. FullShock(f, input) = full
  <2> HIDE DEF full
  <2> QED
    BY <1>1, <1>2, <1>5, ByFactorIs
<1> QED
  BY <1>5, <1>6 DEF K, s, C

\* What a full shock is priced as.
Priced(m, p, shock, linear) ==
    LET moved(i) == Total([k \in Factors |-> m.betas[i][k] * shock[k]])
        simple(i) == IF linear THEN moved(i) ELSE LogToSimple(moved(i))
    IN  [outcome |-> "ok",
         shock   |-> shock,
         holdingPnl |-> [i \in Holdings(p) |-> ValueOf(p, i) * simple(i)],
         pnl     |-> Total([i \in Holdings(p) |-> ValueOf(p, i) * simple(i)]),
         logPnl  |-> Total([i \in Holdings(p) |-> ValueOf(p, i) * moved(i)]),
         attribution |-> [k \in Factors |->
             Total([i \in Holdings(p) |-> ValueOf(p, i) * m.betas[i][k] * shock[k]])]]

LEMMA PricedIs ==
    ASSUME NEW f, NEW m, NEW p, NEW input
    PROVE  PropagateAndPrice(f, m, p, input) =
               IF Propagates(input) /\ Singular(f, DOMAIN input.shocks) THEN Failed("error")
               ELSE Priced(m, p, FullShock(f, input), input.linear)
  BY DEF PropagateAndPrice, Priced

LEMMA RegularIsNot ==
    ASSUME NEW f, NEW K, Regular(f, K) PROVE ~Singular(f, K)
<1>1. ASSUME NEW row \in CandidateRows(K) PROVE row \in [K -> -Wide .. Wide]
  <2>1. CoefficientBound \in Nat
    BY ExperimentAssumption
  <2>2. \A d \in Nat : d <= d * (d + 2) /\ d * (d + 2) \in Nat
    <3>1. \A d \in Nat : d * d \in Nat /\ d * (d + 2) = d * d + 2 * d
      OBVIOUS
    <3> QED
      BY <3>1
  <2>3. Wide \in Nat /\ CoefficientBound <= Wide
    BY <2>1, <2>2 DEF Wide
  <2>4. -CoefficientBound .. CoefficientBound \subseteq -Wide .. Wide
    BY <2>1, <2>3
  <2>5. row \in [K -> -CoefficientBound .. CoefficientBound]
    BY DEF CandidateRows
  <2> QED
    BY <2>4, <2>5
<1> QED
  BY <1>1 DEF Regular, Singular

\* To tell of a move that is implied changes no move.
LEMMA ToldIsNeutral ==
    ASSUME NEW f \in Matrix, NEW m \in 1 .. 3, NEW input,
           {"shocks", "propagate", "linear"} \subseteq DOMAIN input,
           DOMAIN input.shocks = 1 .. m, input.shocks \in [1 .. m -> Int],
           Propagates(input),
           Regular(f, 1 .. m), Within(f, 1 .. m), Within(f, 1 .. m + 1)
    PROVE  LET told == [input EXCEPT !.shocks =
                            [k \in 1 .. m + 1 |-> FullShock(f, input)[k]]]
           IN  /\ FullShock(f, told) = FullShock(f, input)
               /\ Propagates(told) /\ DOMAIN told.shocks = 1 .. m + 1
               /\ told.linear = input.linear
<1> DEFINE K == 1 .. m
           n == m + 1
           s == input.shocks
           full == FullShock(f, input)
           t == [k \in 1 .. n |-> full[k]]
           told == [input EXCEPT !.shocks = t]
           C == ConditionalCoefficients(f, K, Factors \ K)
           W == ConditionalCoefficients(f, 1 .. n, Factors \ (1 .. n))
<1>1. /\ K \in SUBSET Factors /\ n \in Factors \ K /\ 1 .. n = K \cup {n}
      /\ n \in 1 .. n /\ 1 .. n \subseteq Factors /\ 5 \in Factors \ (1 .. n)
  BY FactorsAre
<1>2. told.shocks = t /\ told.linear = input.linear /\ told.propagate = input.propagate
  OBVIOUS
<1>3. DOMAIN told.shocks = 1 .. n
  BY <1>2
<1>4. Propagates(told)
  <2>1. input.propagate
    BY DEF Propagates
  <2>2. 1 .. n # {} /\ Factors \ (1 .. n) # {}
    BY <1>1
  <2> HIDE DEF told, n
  <2> QED
    BY <1>2, <1>3, <2>1, <2>2 DEF Propagates
<1>5. /\ full \in Vector /\ s \in [K -> Int]
      /\ \A k \in Factors : full[k] = IF k \in K THEN s[k] ELSE Dot(K, C[k], s)
  <2>1. DOMAIN input.shocks = K /\ DOMAIN input.shocks \subseteq Factors
        /\ input.shocks \in [DOMAIN input.shocks -> Int]
    BY <1>1
  <2> HIDE DEF K
  <2>2. Within(f, DOMAIN input.shocks)
    BY <2>1 DEF K
  <2>3. /\ full \in Vector
        /\ \A k \in Factors : full[k] =
             IF k \in DOMAIN input.shocks THEN input.shocks[k]
             ELSE Dot(DOMAIN input.shocks,
                      ConditionalCoefficients(f, DOMAIN input.shocks,
                          Factors \ DOMAIN input.shocks)[k], input.shocks)
    BY <2>1, <2>2, FullShockIs
  <2> QED
    BY <2>1, <2>3
<1>6. t \in [1 .. n -> Int] /\ \A k \in 1 .. n : t[k] = full[k]
  <2>1. \A k \in 1 .. n : full[k] \in Int
    BY <1>1, <1>5 DEF Vector
  <2> HIDE DEF n, full
  <2> QED
    BY <2>1
<1> HIDE DEF told, t
<1>7. Within(f, 1 .. n)
  OBVIOUS
<1>8. /\ FullShock(f, told) \in Vector
      /\ \A k \in Factors : FullShock(f, told)[k] =
            IF k \in 1 .. n THEN t[k] ELSE Dot(1 .. n, W[k], t)
  <2>1. DOMAIN told.shocks \subseteq Factors /\ told.shocks \in [DOMAIN told.shocks -> Int]
    BY <1>1, <1>2, <1>3, <1>6
  <2> HIDE DEF n
  <2>2. Within(f, DOMAIN told.shocks)
    BY <1>3, <1>7
  <2>3. /\ FullShock(f, told) \in Vector
        /\ \A k \in Factors : FullShock(f, told)[k] =
             IF k \in DOMAIN told.shocks THEN told.shocks[k]
             ELSE Dot(DOMAIN told.shocks,
                      ConditionalCoefficients(f, DOMAIN told.shocks,
                          Factors \ DOMAIN told.shocks)[k], told.shocks)
    BY <1>4, <2>1, <2>2, FullShockIs
  <2> QED
    BY <1>2, <1>3, <2>3
<1>9. Within(f, K) /\ Regular(f, K)
  OBVIOUS
<1> HIDE DEF full, K, n
<1>10. ASSUME NEW u \in Factors \ (1 .. n) PROVE Dot(1 .. n, W[u], t) = Dot(K, C[u], s)
  <2>1. u \in Factors \ K /\ u \in Factors \ (K \cup {n})
    BY <1>1
  <2>2. Gives(f, K, u, C[u])
    BY <1>9, <2>1, CoefficientsAre
  <2>3. Gives(f, K, n, C[n])
    <3>1. n \in Factors \ K /\ Within(f, K)
      BY <1>1, <1>9
    <3> QED
      BY <3>1, CoefficientsAre
  <2>4. Gives(f, 1 .. n, u, W[u])
    BY <1>7, CoefficientsAre
  <2> HIDE DEF C, W
  <2>5. Gives(f, K \cup {n}, u, W[u]) /\ t \in [K \cup {n} -> Int]
    BY <1>1, <1>6, <2>4
  <2>6. /\ \A k \in K : t[k] = s[k]
        /\ t[n] = Dot(K, C[n], s)
    BY <1>1, <1>5, <1>6
  <2> HIDE DEF s
  <2>7. Dot(K \cup {n}, W[u], t) = Dot(K, C[u], s)
    <3>1. K \in SUBSET Factors /\ n \in Factors \ K /\ u \in Factors \ (K \cup {n})
      BY <1>1, <2>1
    <3>2. Regular(f, K) /\ s \in [K -> Int] /\ t \in [K \cup {n} -> Int]
      BY <1>5, <1>9, <2>5
    <3>3. Gives(f, K, u, C[u]) /\ Gives(f, K, n, C[n]) /\ Gives(f, K \cup {n}, u, W[u])
      BY <2>2, <2>3, <2>5
    <3> QED
      BY <2>6, <3>1, <3>2, <3>3, CarriedOver
  <2> QED
    BY <1>1, <2>7
<1> HIDE DEF C, W, s
<1>11. FullShock(f, told) = full
  <2>1. ASSUME NEW k \in Factors PROVE FullShock(f, told)[k] = full[k]
    <3>1. CASE k \in 1 .. n
      BY <1>6, <1>8, <3>1
    <3>2. CASE k \notin 1 .. n
      <4>1. k \notin K
        BY <1>1, <3>2
      <4> QED
        BY <1>5, <1>8, <1>10, <3>2, <4>1
    <3> QED
      BY <3>1, <3>2
  <2> QED
    BY <1>5, <1>8, <2>1 DEF Vector
<1> QED
  BY <1>2, <1>3, <1>4, <1>11 DEF told, t, n, full

\* What the moves imply is found within the bound on the coefficients, before
\* and after one more is told, and is the only solution there.
CoefficientsWithin ==
    (stage = "ran" /\ Kind = "FactorShock"
        /\ Propagates(Request.input) /\ DOMAIN Request.input.shocks \in Prefixes) =>
    LET given == DOMAIN Request.input.shocks
        told  == 1 .. Cardinality(given) + 1
    IN  /\ Regular(model.covariance, given) /\ Within(model.covariance, given)
        /\ Regular(model.covariance, told) /\ Within(model.covariance, told)

LEMMA ShockHeldIsNeutral == RunInv /\ ShockHeld => (CoefficientsWithin => ImpliedIsNeutral)
<1> SUFFICES ASSUME RunInv, ShockHeld, CoefficientsWithin, stage = "ran", Kind = "FactorShock",
                    Propagates(Request.input), DOMAIN Request.input.shocks \in Prefixes
             PROVE  ImpliedIsNeutral
  BY DEF ImpliedIsNeutral
<1> DEFINE input == Request.input
           f == model.covariance
           primary == PropagateAndPrice(f, model, Portfolio, input)
           full == FullShock(f, input)
           next == Cardinality(DOMAIN input.shocks) + 1
<1>1. /\ Request \in Requests
      /\ model = FittedFor(Request) /\ LoadedFor(Request).outcome = "ok" /\ model.outcome = "ok"
  <2>1. Kind \in WithModel
    BY DEF WithModel
  <2>2. Modelled /\ Loaded
    BY <2>1 DEF Modelled, Loaded
  <2> QED
    BY <2>2, RequestIn DEF RunInv, ModelHeld, DataHeld
<1>2. /\ {"shocks", "propagate", "linear"} \subseteq DOMAIN input
      /\ input.shocks \in [DOMAIN input.shocks -> Int]
  BY <1>1, SessionsAssumption DEF IsRequest, Kind
<1>3. f \in Matrix
  <2>1. IsModelOf(model, Holdings(Portfolio))
    BY <1>1, RequestIs, FitTyped DEF Portfolio
  <2> QED
    BY <2>1 DEF IsModelOf
<1>4. PICK m \in 1 .. 3 : DOMAIN input.shocks = 1 .. m
  BY DEF Prefixes
<1>5. next = m + 1
  <2>1. Cardinality(1 .. m) = m
    <3>1. \A a, b \in Int : a <= b + 1 => Cardinality(a .. b) = b - a + 1
      BY FS_Interval
    <3>2. 1 \in Int /\ m \in Int /\ 1 <= m + 1
      OBVIOUS
    <3>3. Cardinality(1 .. m) = m - 1 + 1
      BY <3>1, <3>2
    <3> QED
      BY <3>2, <3>3
  <2> QED
    BY <1>4, <2>1
<1>6. trace.answer.primary = primary /\ primary.outcome = "ok"
  <2> DEFINE answer == RunFactorShock(data, model, Portfolio, input)
  <2>1. trace.answer = answer /\ answer.outcome = "ok"
    BY DEF ShockHeld
  <2>2. Failed("error").outcome # "ok"
    BY DEF Failed
  <2>3. \/ answer = Failed("error")
        \/ answer.primary = primary /\ primary.outcome = "ok"
    BY DEF RunFactorShock, ShockReport
  <2> HIDE DEF answer, primary
  <2> QED
    BY <2>1, <2>2, <2>3
<1>7. /\ Regular(f, 1 .. m) /\ Within(f, 1 .. m)
      /\ Regular(f, 1 .. m + 1) /\ Within(f, 1 .. m + 1)
  BY <1>4, <1>5 DEF CoefficientsWithin
<1> DEFINE told == [input EXCEPT !.shocks = [k \in 1 .. m + 1 |-> full[k]]]
<1>8. /\ FullShock(f, told) = full /\ Propagates(told) /\ DOMAIN told.shocks = 1 .. m + 1
      /\ told.linear = input.linear
  <2>1. Propagates(input) /\ input.shocks \in [1 .. m -> Int]
    BY <1>2, <1>4
  <2> HIDE DEF input, f
  <2> QED
    BY <1>2, <1>3, <1>4, <1>7, <2>1, ToldIsNeutral
<1>9. ~Singular(f, 1 .. m) /\ ~Singular(f, 1 .. m + 1)
  BY <1>7, RegularIsNot
<1> HIDE DEF told
<1>10. primary = Priced(model, Portfolio, full, input.linear)
  BY <1>4, <1>9, PricedIs
<1>11. PropagateAndPrice(f, model, Portfolio, told) = Priced(model, Portfolio, full, input.linear)
  <2> HIDE DEF f, full, input
  <2> QED
    BY <1>8, <1>9, PricedIs
<1>12. primary.shock = full
  <2>1. \A sh, li : Priced(model, Portfolio, sh, li).shock = sh
    BY DEF Priced
  <2> HIDE DEF primary, full, input
  <2> QED
    BY <1>10, <2>1
<1>13. told = [input EXCEPT !.shocks = [k \in 1 .. next |-> trace.answer.primary.shock[k]]]
  <2> HIDE DEF primary, full, input, next
  <2> QED
    BY <1>5, <1>6, <1>12 DEF told
<1>14. PropagateAndPrice(f, model, Portfolio,
          [input EXCEPT !.shocks = [k \in 1 .. next |-> trace.answer.primary.shock[k]]])
         = trace.answer.primary
  <2> HIDE DEF primary, full, input, next, f
  <2> QED
    BY <1>6, <1>10, <1>11, <1>13
<1> QED
  BY <1>14 DEF ImpliedIsNeutral

(* A move that is implied can as well be stated: nothing is priced         *)
(* differently, as long as the coefficients exist and are the only ones.   *)
(* experiments.rs: conditional_coefficients, propagate_and_price.          *)
THEOREM ImpliedAlways == Spec => [](CoefficientsWithin => ImpliedIsNeutral)
<1>1. AnswerInv => ShockHeld
  BY DEF AnswerInv
<1> QED
  BY <1>1, RunInvAlways, AnswerInvAlways, ShockHeldIsNeutral, PTL
=============================================================================
