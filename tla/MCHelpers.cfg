SPECIFICATION Spec
CONSTANTS
  Subjects = {"naming", "masking", "departments", "rules", "orm"}
  Letters = {"a", "b"}
  Capitals = {"A"}
  LowerOf <- OneCapital
  Digits = {"1", "_"}
  Blank = " "
  Others = {"-"}
  Prefixes <- SomePrefixes
  MaxId = 3
  MaxName = 4
  MaxTyped = 3
  Nodes <- ThreeNodes
  Root = 3
  Spans <- OneOrTwo
  Given <- TokenGiven
  Keys = {"name", "Token"}
  LowKeys = {"name", "token"}
  LowKeyOf <- TokenOnly
  Sensitive = {"token"}
  MaxDepth = 3
  Depts <- SixDepts
  Comma = 0
  NoParent = NoParent
  MaxText = 10
  Texts <- SomeTexts
  Parts <- SomeParts
  Stripped <- SomeStripped
  Empty = ""
  Number <- OneTwo
  Truthy = {"1", "yes"}
  Position <- SomePosition
  Like <- SomeLike
  Columns = {"id", "uid", "name", "updated_at"}
  Generated = {"id", "uid", "updated_at"}
  OnUpdate = {"updated_at"}
INVARIANTS
  SameSchemaSameTenant
  NameMatchesPattern
  RoundTrip
  KnownSecretsHidden
  CircularMeansCycle
  RaisesAreExplained
  SubtreeIsDescendants
  NegationSplitsRows
  InIsUnionOfEq
  ToDictShowsTheKnown
CHECK_DEADLOCK FALSE
