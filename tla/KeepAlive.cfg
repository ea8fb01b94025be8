SPECIFICATION Spec
CONSTANTS Size = 22
          Wrap = 44
          LongestMethod = 2
          Pipeline = 2
          Reconnects = {"bad", "long", "endless"}
          Keys <- MCKeys
          Values <- MCValues
INVARIANT InOrder
