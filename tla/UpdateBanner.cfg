SPECIFICATION BannerFairSpec
CONSTANTS
  Own = 1
  MaxRelease = 3
  Installed = TRUE
INVARIANTS LaterStaysHidden BannerHoldsClick
PROPERTIES ClaimIsOnClicked ClickIsAnswered
