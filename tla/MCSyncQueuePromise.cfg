SPECIFICATION CalmSpec
CONSTANTS
  s1 = s1
  stock = stock
  title = title
  w1 = w1
  w2 = w2
  t1 = t1
  t2 = t2
  r1 = r1
  r2 = r2
  r3 = r3
  r4 = r4
  inventory = inventory
  product = product
  NoKey = NoKey
  NoOp = NoOp
  Nobody = Nobody
  Stores = {s1}
  Keys = {title}
  Ops = {inventory, product}
  StoreOf <- MCStoreOf
  OpOf <- MCOpOf
  Priorities <- MCPriorities
  PerRow = {product}
  Commits = {product}
  Rows = {r1, r2}
  Workers = {w1, w2}
  Savers = {t1}
  Batch = 2
  MaxAttempts = 2
  StaleAge = 1
  JobAge = 0
  MaxVersion <- MCMaxVersion
  StockVersions = 2
  TitleVersions = 2
  MaxUpsets = 2
  MaxFollow = 1
PROPERTIES
  PromiseSafety
  PromiseConvergence
CHECK_DEADLOCK FALSE
