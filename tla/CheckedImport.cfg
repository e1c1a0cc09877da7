SPECIFICATION LinkSpec
CONSTANTS
  Thread = {t1, t2, t3}
  Null = Null
  Provider <- Providers
  Interface <- Apis
  Handle = {h1, h2, h3}
  NoDyn = NoDyn
  Type = {"u8", "u16"}
  Trait <- TraitNames
  Methods <- TraitMethods
  Bounds <- DynBounds
  TryAsMutOf <- UniqueArcs
  Link <- Links
  Slot = {s1, s2}
  NoWaker = NoWaker
  Depth = 2
  Shared = {1, 2, 3, 4}
INVARIANTS WrittenAlone ReadsTheResult CallsMatch DestroyedOnce
PROPERTIES AsRefReturns
