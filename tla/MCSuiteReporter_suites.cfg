SPECIFICATION ReporterSpec
CONSTANTS
  simple = simple
  optimized = optimized
  unoptimized = unoptimized
  naive = naive
  naive_list = naive_list
  Benchmarks = {simple, optimized, unoptimized, naive, naive_list}
  Includes <- MCIncludes
  Naive = {naive, naive_list}
  Complex = {simple, naive}
  Programs <- MCPrograms
  MaxArgs = 2
INVARIANTS NothingLost GroupedAsRegistered LikeWithLike
CHECK_DEADLOCK FALSE
