SPECIFICATION MapSpec
CONSTANTS
    Entity = {1, 2, 3, 4}
    Spot <- Spots
    GridSize = 2
    GridX = 3
    GridY = 1
    ViewRange = 1
    Width = 1
    Height = 1
    Troop = {1}
    Player = {1}
    CellValue <- CellValues
    MaxCity = 1
    Slowness = 1
    Node = {n1, n2, n3}
    None = None
    Place <- Places
    Radius = 2
    Armies = {1, 200}
    Lines = {0, 1, 2}
    Traits <- Generals
    BaseDamage = 100
    MaxRounds = 2
    Factors = {80, 120}
INVARIANTS ToldRight MarchesAgree ViewExact ReportAddsUp
CHECK_DEADLOCK FALSE
