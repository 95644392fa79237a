CONSTANT Years = {2022, 2023, 2024, 2028, 2099, 2100, 2400}
SPECIFICATION CountSpec
INVARIANT StaysNormal
PROPERTY AdvancesOneSecond
CHECK_DEADLOCK FALSE
