# TLA+ models of the OpenVic fixed-point LUT generators

This directory holds TLA+ models of the look-up-table generators under
`src/misc/scripts/`, of their float predecessors under
`src/src/openvic-simulation/types/fixed_point/lut_generator/` ("legacy"),
and the TLC configurations that check them.

- `sin_lut_generator.py` writes `FixedPointLUT_sin.hpp`.
- `exp_lut_generator.py` writes `LUT_<base>_<power>_EXP_<b>.hpp`.

Both are single-threaded batch scripts. They parse the command line, check
it, sample a function in a loop, quantize each sample to a fixed-point
integer, and write one C++ header. Nothing runs concurrently and nothing
persists between runs. The hard parts are numeric:

- the rounding at ties and signs;
- the boundary of the accepted ranges against the C++ element type;
- the data-dependent length of the exp table;
- the order of the check, the loop, the wrap entry and the write.

## Parts of the system and the modules

| Part | Source | Module(s) |
|---|---|---|
| Fixed-point quantizer (sine sign branch, exp `+0.5`) | sin :72-75, exp :23 | `Quantizer`, used by `SinLut` and `ExpLut` and checked through their tables |
| High-precision evaluator (`decimal_pi`, `decimal_sin`) and the angle | sin :10-59, :69-71 | `DecimalSin` over `DecimalArith` (step by step); `RealBounds` (certified bounds of the result, used by `SinLut`) |
| Sine generator: `main` check, sampling loop, wrap entry, header | sin :62-155 | `SinLut`, which refines `SinLutSpec` |
| Exp generator: sampling loop, overflow break, header, `exp_lut[-1]` | exp :16-118 | `ExpLut`, which refines `ExpLutSpec` |
| Python floats: rounding, `*`, `+ 0.5`, `int()`, `math.pi`, `math.e`, `math.sin`, `**` | legacy sin :14-18, exp :17, misc exp :22-23 | `Float`, `FloatMath` |
| Legacy float sine generator | legacy sin :7-76 | `LegacySinLut`, which refines `SinLutSpec` within a float error bound |
| Legacy float exp generator, header lines and `output[-1][:-1]` | legacy exp :10-76 | `LegacyExpLut`, which refines `ExpLutSpec` within a float error bound |
| Legacy fixed 512-entry sine script | `src/src/openvic/types/fixed_point/lut_generator/lut_generator.py` :1-39 | `Sin512Lut` at the code's constants (16 bits, 512 values), which refines `SinLutSpec` exactly; the float `math.sin` is bounded by the finer series `FineSinHalfPiBounds` of `RealBounds` |
| Exp header identifier, options comment and output file, over successive runs | exp :28-54, :79-83, :108-114 | `ExpLutFiles` (with `MCExpLutFiles` for the typed `-e` literals) |
| `deps/methods.py` (SCons header templating) | | not modelled: no state machine |

How the sine model corresponds to the code:

- State:
  - `precision` and `count_log2` are the parsed arguments;
  - `pc` tracks `main`, the loop, exit 0 and exit -1;
  - `i` and `SinLut` are the loop index and the list;
  - `written` is the header, abstracted to the values it lists. The header
    splits the row into lines of 16 (`Lines`), and `Header` flattens them back.
- Actions:
  - `Reject` is `exit(-1)` at :150-152;
  - `Start` is the call at :153-154;
  - `Sample` is one loop iteration, :68-76;
  - `Finish` is the wrap-around append at :78 plus the header write at :80-127.

How the 512-entry script corresponds to the code:

- State: `i`, `SinLut`, `pc` (the loop or the end of the script) and
  `written`, the header kept as its lines of 10 values and the last
  character of each line.
- Actions: `Sample` is one iteration of :10-16; `Finish` is the wrap
  append at :18 and the header of :20-39 (lines of 10, the last comma
  removed by `output[-1][:-1]`).
- The floats: the angle is within 2^-48 of 2 pi i / 512 and `math.sin`
  adds at most one ulp, far below 2^-29. `SampleValues` rounds every value
  within 2^-29 of certified 2^-28 bounds of the true sine, so a sample is
  ambiguous only where those bounds straddle a rounding tie. None does: the
  closest sample to a tie (i = 45) is 0.0094 units away.

How the exp files model corresponds to the code:

- State: `files`, the headers in the FixedPoint directory by identifier,
  and `done`, the argument vectors run so far.
- `Run(arg)` is one whole run: the identifier of :28-30 (`'e'` when the
  float equals `math.e`, else the `'%g'` text, six significant digits),
  the options comment of :33-54, and the write of :79-83, which replaces a
  file of the same name.
- `-e` is a typed decimal literal. `FloatIsE` decides exactly whether the
  nearest double is `math.e`. The options use `is not` (:35-37): CPython
  caches small ints, so for `-b` and `-p` this is `!=`, while a float parsed
  from `-e` is never the object `math.e`.

How the exp model corresponds to the code:

- State: the parsed arguments, `pc`, `index`, `exp_lut` and `written`.
- Actions:
  - `Sample` is an in-range iteration;
  - `Overflow` is the `break`;
  - `LoopEnd` is `range(BIT_COUNT)` running out;
  - `Emit` builds and writes the header;
  - `Crash` is the `IndexError` of `exp_lut[-1]` on an empty list.

How the Decimal model corresponds to the code:

- `DecimalArith` is Python's `decimal` arithmetic as the script uses it: each
  operation takes the exact result and rounds it half to even to the context
  precision. A Decimal is a record `[sgn, c, e]`. An int operand is exact
  however large, as `fact` is; exact values are little-endian sequences of
  base-10^4 limbs. `!=` compares numerically (`DecEqual`).
- State of `DecimalSin`:
  - `count_log2`, the loop index `i`, and `samples`, the pairs of angle and
    `sin_value`;
  - `prec`, the context precision;
  - the locals of `decimal_pi` (`t`, `n`, `na`, `d`, `da`) and of
    `decimal_sin` (`term_i` for its `i`, `fact`, `num`, `sign`), and the
    shared `s` and `lasts`;
  - `pi_value`, the value `decimal_pi` returned.
- Actions:
  - `PiEnter` is the call of `decimal_pi` up to its loop (:17-22);
  - `PiIter` is one iteration of `while s != lasts` (:23-28);
  - `PiExit` is `prec -= 2; return +s` (:29-30);
  - `Angle` is `2 * pi * i / count` (:69) plus the entry of `decimal_sin`
    (:47-50);
  - `SinIter` is one iteration (:51-57);
  - `SinExit` is `prec -= 2; return +s`, and the next `i`;
  - `LoopEnd` ends `for i in range(count)`.
- The quantization of `sin_value` into the table is `SinLut`'s.

The legacy modules have the same state and actions as their misc
counterparts (the legacy exp script has no `Crash`: its `Emit` writes a
header for an empty table too). They differ in the sample: every step of
`angle = 2 * pi * i / count`, `sin`, `* one`, `+- 0.5` (sine) and of
`int((exp_base**exponent) * divisor + 0.5)` (exp) is a float operation of
`Float`. `LegacyExpLut` models the header as its lines, each by its last
character, so that `output[-1] = output[-1][:-1]` (:38) strips a value's
comma or, for an empty table, the declaration's `{`.

### Abstractions and why they are sound

- **Width.** TLC integers are 32-bit, so `BIT_COUNT` (64 in the code) is a
  constant and the configs use 8. The scaling applies to the command-line
  choices, `MAX_VALUE = 2^BIT_COUNT` and the loop length. The `int64_t`
  element type becomes a signed `BIT_COUNT`-bit type. Every property is
  stated relative to `BIT_COUNT`, so an edge at 8 bits is the same edge at
  64 bits. Concretely, precision 7 of 8 stands for precision 63 of 64.
- **Real values.** `RealBounds` computes, in exact integer arithmetic, a
  lower and an upper bound of the true value:
  - for the sine, sin(pi/2 * h/2^B) in units of 2^-24, from a Taylor series
    with floors and ceilings and bounds of pi;
  - for the exp table, D * e^(2^k/D) in units of 2^-20.

  The model lets the evaluator return any real within these bounds.
  `decimal_sin` at 28 digits is within 1e-26 of the truth, so the code's
  value is among them. The bounds are narrow, which makes a sample
  ambiguous only within about 2^-16 of a rounding tie. No sample in the
  checked range is that close: every run is deterministic per input.
- **Decimal precision.** `DecimalSin` runs at a context precision of 4
  digits instead of Python's 28, with 6 working digits. What the properties
  measure does not depend on the precision:
  - the digits lost to cancellation, about log10(max partial sum / |sin x|);
  - the two guard digits that cover them;
  - the number of loop iterations, which grows only linearly with it.

  The
  model agrees with Python's `decimal` at 4 digits sample for sample for
  8 angles. The reference sine of a Decimal angle comes from `RealBounds`,
  accurate to 2^-23, far below the 10^-4 units the properties compare.
- **Exp base.** `exp_base` ranges over the default e and the
  command-line value 1. Base 1 is the simplest base for which the loop runs
  out (`LoopEnd`). With base e no table ever fills all `BIT_COUNT` slots,
  neither at 8 bits nor at 64.
- **Floats.** `Float` is a binary float `<<m, e>>` with `MANT_BITS`
  mantissa bits, rounded half to even; the configs use 7 bits, standing
  for a double's 53 as 8 stands for 64. `*`, `+ 0.5`, int / int and
  `float(int)` round exactly as IEEE does. `math.sin` and `**` are taken to
  be correctly rounded: the result is the rounding of the true value, which
  lies within the `RealBounds` bounds, so it is one of the (at most two)
  roundings of the two bounds (`FloatMath`). e_f ** x is bounded as
  e^x * (e_f/e)^x. math.pi and math.e at 7 bits are 101 * 2^-5 and
  87 * 2^-5. The misc exp script's Decimal product and `+ 0.5` are exact.
  These operators were checked against a Python reference at 7 bits
  (510 sine and 155 power cases, no mismatch).
- **Float error bounds.** A float model cannot refine the exact abstract
  specification, so `SinLutSpec` and `ExpLutSpec` take a `Slack`
  parameter: each entry may be off by `Slack` from the correctly rounded
  one. The exact models instantiate it with 0. The float models use a
  first-order error bound derived from the operations of the code
  (`FloatSlack`, `FloatPowSlack`, `LegacySlack`), and the same models are
  also checked against slack 0, where TLC shows the entries that floats
  get wrong.
- **Left out.** The header text, the `generated_options` wording, file
  paths and printed messages are left out, because no property depends on
  them.

## Runs

| Run | Config | Expect | What it shows |
|---|---|---|---|
| sin_lut | `MCSinLut.cfg` | pass | For all 64 argument pairs in 1..8, see the list below. |
| sin_int64 | `MCSinLutInt64.cfg` | violation | Precision 7 of 8 (63 of 64) writes 2^7 (2^63) into the signed element type. |
| exp_lut | `MCExpLut.cfg` | pass | For bases 2..8, powers 1..8 and exp bases {e, 1}, the written table is the longest in-range prefix of samples each within the float error bound of `**` (`RefinesExpLutSpecWithin`). |
| exp_exact | `MCExpLutExact.cfg` | violation | Float `**` gives entries that are not correctly rounded: `-b 2 -p 8` writes 256 where e^(1/256) * 256 rounds to 257. |
| exp_crash | `MCExpLutCrash.cfg` | violation | Divisors above MAX_VALUE give an empty table (at exactly MAX_VALUE the first value equals it and is kept); `exp_lut[-1]` raises and no header is written. |
| exp_int64 | `MCExpLutInt64.cfg` | violation | Values up to 2^BIT_COUNT pass the break but do not fit `int64_t`. |
| legacy_sin | `MCLegacySinLut.cfg` | pass | The float sine generator rejects exactly count > precision, writes every entry within `FloatSlack` of the correctly rounded sine with the wrap entry, and ends. |
| legacy_exp | `MCLegacyExpLut.cfg` | pass | The float exp generator writes the longest in-range prefix within `LegacySlack`, and ends with a header for every input, an empty table included. |
| decimal_sin | `MCDecimalSin.cfg` | pass | At a 4-digit context and count up to 2^5, `decimal_pi` returns pi correctly rounded (`PiCorrectlyRounded`). Every `sin_value` is within 2 units of the last digit of sin(angle) (`SinErrorWithin`). Both `while s != lasts` loops end within 20 iterations (`Terminates`). |
| sin512 | `MCSin512Lut.cfg` | pass | The 512-entry script at its own constants writes exactly the correctly rounded 513-entry table, lines of 10 in order (`RefinesSinLutSpec`), whatever error its double arithmetic makes. |
| exp_files | `MCExpLutFiles.cfg` | violation | Runs overwrite each other's header: the default run and `-e 2.718281828459045` write the same `LUT_2_16_EXP_e.hpp` with different option comments, and `-e 1` and `-e 1.0000001` both write `..._EXP_1.hpp` (`FilesReproducible`). |
| legacy_exp_header | `MCLegacyExpLutHeader.cfg` | violation | An empty table (`-b 3 -p 6` at 8 bits, `-b 3 -p 41` at 64) makes `output[-1][:-1]` strip the declaration's `{`. |

The sin_lut run shows, for every argument pair, that the script rejects
exactly count > precision before sampling, and otherwise writes 2^count + 1
correctly rounded entries, the last equal to the first
(`RefinesSinLutSpec`). The table's symmetry about half and a quarter period
follows from that and is not checked on its own.

The sine scripts are bounded `for` loops, so their termination holds by the
shape of the code and is not checked. Termination is checked where it is in
question: the two `while s != lasts` loops of `decimal_pi` and
`decimal_sin` (decimal_sin), and the exp script, whose `exp_lut[-1]` can
raise before the header is written (exp_crash).

The abstract specifications state what the spec promises:

- `SinLutSpec`: a correctly rounded table, or a rejection, and the run ends.
- `ExpLutSpec`: the longest prefix of correctly rounded samples not above
  `MAX_VALUE`, 0 to `BIT_COUNT` entries long, and the run ends.

How the refinement is checked:

- The detailed modules are mapped onto the abstract ones with
  `INSTANCE ... WITH`: `status` comes from `pc`, and `table` from the
  values written.
- The abstract safety part is checked as a `PROPERTY`.
- Where the abstract liveness (`Terminates`) is checked, it is its own
  `PROPERTY`, because TLC cannot evaluate `ENABLED` through a refinement
  mapping.

Every property of a passing run has a mutant in `PROJECT.json`. A mutant is
a plausible bug in the definition that models the code, and the run must
catch it:

- a missing precision check;
- a loop bound off by one;
- the value appended before the overflow test;
- `range(BIT_COUNT - 1)`;
- `one = 1 << (precision - 1)`;
- the sine loop bound dropped;
- each header line sliced one value short;
- an `Emit` that needs a non-empty table, as the misc script's `exp_lut[-1]`;
- `return +s` before `prec -= 2`;
- the context precision not restored on return;
- the series summed without the guard digits;
- `lasts = s` left out of the loop.

### Bounds

- `BIT_COUNT = 8` gives tables of 2 to 257 entries.
- It covers every quadrant case of the sine reduction.
- It includes divisors below, equal to and far above `MAX_VALUE` (2 to 8^8).
- It gives exp tables of every length from 0 to 8.
- It includes the top of the precision range, where the element type
  overflows.
- `MANT_BITS = 7` keeps precision 7 above the mantissa and precisions 1..6
  below it, as 63 and 64 are above 53. Divisors above 2^7 make
  `float(divisor)` round, as divisors above 2^53 do.

- `MAX_COUNT_LOG2 = 5` gives angles up to 2 pi * 31/32, near 2 pi, where the
  partial sums of `decimal_sin` are largest. It also includes pi itself.
  `MAX_TERMS = 20` bounds each loop above the iterations used: 7 for
  `decimal_pi` and at most 13 for `decimal_sin`.

- `Sin512Lut` runs at the script's own constants, 16 bits and 512 values,
  so no bound is chosen.
- `MCExpLutFiles` uses divisor bases {2, 3}, power 16 and five `-e`
  literals: `2.718281828459045` (which parses to `math.e`), `2.71828`, `1`,
  `1.0000001` (same `'%g'` text as `1`) and `1e20` (exponent notation), and
  the default. This covers every way two runs can share an identifier.

Larger widths only repeat the same cases with more samples.

### Fairness

The scripts never wait and never share a processor with another actor of
the model, so every specification has weak fairness on its `Next`.
Terminal states (exit 0, exit -1, `IndexError`) have no successor. The
configs therefore say `CHECK_DEADLOCK FALSE`: the program really stops
there.

## Findings

1. `sin_lut_generator.py:107`: precision 63 or 64 writes +-2^63 or 2^64
   into `std::array<int64_t>`.
2. `exp_lut_generator.py:24`: `value > MAX_VALUE` with `MAX_VALUE = 2**64`
   keeps values above `INT64_MAX`, for example with `-b 2 -p 62`.
3. `exp_lut_generator.py:75`: divisors above 2^64 (e.g. `-b 3 -p 41`)
   leave the table empty; at exactly 2^64 the first value is 2^64, which
   the break keeps. The
   script then raises `IndexError`, although spec section 7 calls a short
   table a normal termination.
4. `exp_lut_generator.py:23`: `exp_base**exponent` is a double, so entries
   are not the correctly rounded values that spec 4.1 requires. For example,
   `-b 2 -p 60` writes `table[0] = 2^60` (`e**2**-60 == 1.0`), where the
   exact value gives 2^60 + 1. Entry 21 of the default table is also off.
5. Legacy `exp_lut_generator.py:38`: an empty table loses the `{` of the
   array declaration, so the header does not compile.
6. `exp_lut_generator.py:29` and `:37`: the identifier keeps 6 significant
   digits of `exp_base`, and the options comment tests `is not`. So
   `-e 1.0000001` replaces the table of `-e 1`, and
   `-e 2.718281828459045` (equal to `math.e`) writes `LUT_2_16_EXP_e.hpp`
   with the comment ``with `-e 2.71828` ``, a command that builds another
   table. Spec sections 3 and 4 say the identifier keeps tables of
   different bases apart and that a header is reproducible from its
   parameters.

Two earlier observations are no longer run. Table entry 0 of the exp
script is D + 1 (65537 for the defaults), where the worked example of spec
section 8 says D; that is an error of the example rather than of the code.
The legacy float sine can make an entry at pi nonzero at high precision
(`-p 52 -c 1` writes `[0, 1, 0]`); spec section 9 acknowledges that the
legacy scripts are inexact, and `legacy_sin` checks their error bound.

`decimal_sin` (`sin_lut_generator.py:57`) is not correctly rounded near
multiples of pi, although spec 4.1 speaks of an error "smaller than one ulp".
At 4 digits the model gives sin(3.142) = -0.0004015, where the correct
rounding is -0.0004073. Python at 28 digits, count 2^8 and i = 255 gives
-0.02454122852291228803173453155, where the correct rounding ends in ...159.
The error relative to the result is unbounded there, so `SinErrorWithin`
states the absolute error instead. That bound holds: within 2 units of the
last digit, about 2e-28 at 28 digits, far below 2^-64. The table is
therefore unaffected, and this is not listed as a finding.

## Not modelled

- `deps/methods.py`: SCons header templating, text in and text out with no
  state machine.
- Exp tables for bases other than e and 1, and the exceptions that
  negative, `inf` or `nan` bases raise (exp :23, :111): a negative base
  makes `**` return a complex number that `Decimal()` rejects, and `int()`
  rejects an infinite or NaN Decimal. `-e 0` raises nothing and writes 64
  zeros. `ExpLutFiles` names such runs by their identifier and options only.
- The running time of `decimal_sin` at large counts (sin :64): TLC cannot
  reach 2^64 iterations, and no property of the model is about time.
- C++ text layout, clang-format markers and printed messages: pure I/O.

## Evaluation notes

The large sample tables are defined over integer intervals,
and expensive intermediate values (a level of a series, `LN_RATIO`) are
bound once as the element of a singleton set. TLC run with `-coverage`
neither precomputes constant definitions nor caches `LET` values, and
without this binding it re-evaluates them on every use. The same holds for
operator arguments, in `-coverage` runs and whenever TLC evaluates `ENABLED`
for fairness. `DecimalArith` therefore binds each carry, remainder and
intermediate Decimal once in the same way. Without that, a carry chain is
evaluated exponentially often.
